----------------------------- MODULE Dictionary -----------------------------
(***************************************************************************)
(* The hash tables of dict.c, in which the shell keeps its variables and   *)
(* primitives: open addressing with linear probing, tombstones for names   *)
(* that were removed, and growth when too few empty slots remain.          *)
(*                                                                         *)
(* Names are sequences of letters, so that dictget2 can look up two names  *)
(* as one. hash is any function of the letters in the order in which       *)
(* strhash2 reads them.                                                    *)
(***************************************************************************)
EXTENDS Naturals, FiniteSets, Sequences

CONSTANTS
  Letters, Names,   \* names are strings of letters
  Values,
  Hashes,           \* the functions from names to numbers that are considered
  NULL, DEAD,       \* what a slot may hold in the place of a name
  MaxSize           \* bound: the table does not grow beyond it

ASSUME DictionaryAssumption ==
  /\ NULL \notin Names \cup Values /\ DEAD \notin Names /\ NULL # DEAD
  /\ \A n \in Names : n \in Seq(Letters)
  /\ \A h \in Hashes : h \in [Names -> Nat]
  /\ MaxSize \in Nat

VARIABLES dict, hash

vars == <<dict, hash>>

INIT_DICT_SIZE == 2
REMAIN(n) == (n * 2) \div 3
GROW(n) == n * 2

EmptySlot == [name |-> NULL, value |-> NULL]

Mkdict0(size) ==
  [size |-> size, remain |-> REMAIN(size), table |-> [i \in 0 .. size - 1 |-> EmptySlot]]

(***************************************************************************)
(* Probing                                                                 *)
(***************************************************************************)

\* The letters that strhash2 mixes, in order: those from s on, then those of
\* str2 unless it is NULL.
Mixed[strs \in Seq(Letters) \X (Seq(Letters) \cup {NULL})] ==
  LET s == strs[1]
      str2 == strs[2]
  IN IF s # <<>> THEN <<Head(s)>> \o Mixed[<<Tail(s), str2>>]
     ELSE IF str2 \in {NULL, <<>>} THEN <<>>
     ELSE Mixed[<<str2, NULL>>]

Strhash2(str1, str2) == hash[Mixed[<<str1, str2>>]]

Least(S) == CHOOSE k \in S : \A l \in S : k <= l

\* n & mask, the mask being one less than a power of two
Index(d, n) == n % d.size

\* The first slot from n on, going round, that holds one of these names.
FirstHolding(d, n, names) ==
  Index(d, n + Least({k \in 0 .. d.size - 1 : d.table[Index(d, n + k)].name \in names}))

\* get: the slot of the name, or the empty one that ends the search
Get(d, name) == FirstHolding(d, Strhash2(name, NULL), {name, NULL})

Found(d, i) == d.table[i].name # NULL

(***************************************************************************)
(* Changing a table                                                        *)
(***************************************************************************)

\* put, in a table that has room: the first slot that is dead or empty.
Insert(d, name, value) ==
  LET i == FirstHolding(d, Strhash2(name, NULL), {DEAD, NULL})
  IN [d EXCEPT !.table[i] = [name |-> name, value |-> value],
               !.remain = IF d.table[i].name = NULL THEN @ - 1 ELSE @]

Full(d) == d.remain <= 1

\* put as dictforall calls it: what it returns is dropped, so that the table
\* it is given would keep its old contents if it grew.
PutAgain(d, slot) ==
  IF slot.name \in {NULL, DEAD} \/ Full(d) THEN d
  ELSE Insert(d, slot.name, slot.value)

\* Fault: the last slot is forgotten.
GrownShort(d) ==
  LET new[k \in 0 .. d.size] ==
        IF k = 0 THEN Mkdict0(GROW(d.size)) ELSE PutAgain(new[k - 1], d.table[k - 1])
  IN new[d.size - 1]

\* A table of twice the size with the same associations.
Grown(d) ==
  LET new[k \in 0 .. d.size] ==
        IF k = 0 THEN Mkdict0(GROW(d.size)) ELSE PutAgain(new[k - 1], d.table[k - 1])
  IN new[d.size]

Put(d, name, value) == Insert(IF Full(d) THEN Grown(d) ELSE d, name, value)

\* The dead slots that end just before slot i, a slot that is not dead.
DeadBefore(d, i) ==
  {Index(d, i + d.size - k) : k \in {k \in 1 .. d.size :
     \A l \in 1 .. k : d.table[Index(d, i + d.size - l)].name = DEAD}}

\* Fault: a removed slot is empty at once.
RmEmpty(d, i) == [d EXCEPT !.table[i] = EmptySlot, !.remain = @ + 1]

Regained(freed) == Cardinality(freed)

\* rm: the slot becomes dead; if the dead slots from it on end in an empty
\* one, they and those before it become empty too.
Rm(d, i) ==
  LET marked == [d EXCEPT !.table[i] = [name |-> DEAD, value |-> NULL]]
      next == FirstHolding(marked, i + 1, Names \cup {NULL})
      freed == IF marked.table[next].name = NULL THEN DeadBefore(marked, next) ELSE {}
  IN [marked EXCEPT
        !.table = [k \in DOMAIN @ |-> IF k \in freed THEN EmptySlot ELSE @[k]],
        !.remain = @ + Regained(freed)]

(***************************************************************************)
(* The exported functions                                                  *)
(***************************************************************************)

Dictget(d, name) == d.table[Get(d, name)].value

\* dictget2: the comparison is with both names, streq2
Dictget2(d, name1, name2) ==
  d.table[FirstHolding(d, Strhash2(name1, name2), {name1 \o name2, NULL})].value

Dictput(d, name, value) ==
  LET i == Get(d, name)
  IN IF value = NULL THEN IF Found(d, i) THEN Rm(d, i) ELSE d
     ELSE IF Found(d, i) THEN [d EXCEPT !.table[i].value = value]
     ELSE Put(d, name, value)

Init == dict = Mkdict0(INIT_DICT_SIZE) /\ hash \in Hashes

Next ==
  \E name \in Names, value \in Values \cup {NULL} :
    /\ dict' = Dictput(dict, name, value)
    /\ dict'.size <= MaxSize
    /\ UNCHANGED hash

Spec == Init /\ [][Next]_vars

(***************************************************************************)
(* Properties                                                              *)
(***************************************************************************)

Slots == 0 .. dict.size - 1
Live == {i \in Slots : dict.table[i].name \in Names}

\* What the table holds, slot by slot, however it got there.
Contents ==
  [n \in {dict.table[i].name : i \in Live} |->
     dict.table[CHOOSE i \in Live : dict.table[i].name = n].value]

\* The sizes that a table goes through.
Sizes[k \in 0 .. MaxSize] == IF k = 0 THEN INIT_DICT_SIZE ELSE GROW(Sizes[k - 1])

TypeOK ==
  /\ \E k \in 0 .. MaxSize : dict.size = Sizes[k]
  /\ dict.remain \in 0 .. dict.size
  /\ DOMAIN dict.table = Slots
  /\ \A i \in Slots :
       dict.table[i] \in [name : Names \cup {DEAD, NULL}, value : Values \cup {NULL}]
  /\ hash \in Hashes

\* There is always an empty slot, so the loops of get, put, rm and dictget2,
\* which stop at nothing else, end; and remain says exactly how many more
\* slots may be used before the table has to grow.
SearchesEnd ==
  /\ \E i \in Slots : dict.table[i].name = NULL
  /\ dict.remain + Cardinality({i \in Slots : dict.table[i].name # NULL}) = REMAIN(dict.size)

\* However names collide, die and move, looking a name up, whole or in two
\* parts, finds what the table holds for it, and no name is held twice.
GetsTrue ==
  /\ Cardinality(Live) = Cardinality(DOMAIN Contents)
  /\ \A n \in Names :
       Dictget(dict, n) = IF n \in DOMAIN Contents THEN Contents[n] ELSE NULL
  /\ \A n1, n2 \in Names :
       n1 \o n2 \in Names => Dictget2(dict, n1, n2) = Dictget(dict, n1 \o n2)

\* Every search ends, and ends with what the table holds.
SearchesExact == TypeOK /\ SearchesEnd /\ GetsTrue

\* Changing one name, in any table, with or without growth, changes nothing
\* else: the table implements a map.
Map == INSTANCE DictMap WITH map <- Contents
ImplementsMap == Map!Spec

=============================================================================
