---------------------------- MODULE Environment ----------------------------
(***************************************************************************)
(* Dynamic variables and the environment they are exported to (var.c).     *)
(*                                                                         *)
(* Each variable caches its line of the environment (Var.env) and mkenv    *)
(* caches the whole environment (sortenv).  Two flags say when the caches  *)
(* are stale: isdirty, set when an exported variable changes, and rebound, *)
(* set when a lexical binding changes, since a line may contain a closure  *)
(* and with it the value of what the closure has captured.  Assigning a    *)
(* variable, and entering and leaving a `local', run the variable's        *)
(* settor, which is any shell code: it may assign other variables, start   *)
(* commands, fail, and return any value.                                   *)
(***************************************************************************)
EXTENDS Naturals, Sequences

CONSTANTS Names,       \* dynamic variables
          Plain,       \* values without captured bindings
          Closures,    \* values with a closure that has captured the lexical variable
          Capturing,   \* names that are given such values
          NULL,        \* the empty list, and an unset variable or line
          LexValues,   \* values of the lexical variable
          Settable,    \* names x for which set-x is defined
          Answers,     \* what a settor may return besides its argument
          Commanding,  \* do settors start external commands?
          HideSets,    \* values given to $noexport
          MaxDepth     \* bound: locals and settors in progress

Values == Plain \cup Closures
ValuesFor(x) == Plain \cup {NULL} \cup (IF x \in Capturing THEN Closures ELSE {})

ASSUME EnvironmentAssumption ==
  /\ NULL \notin Values
  /\ Plain \cap Closures = {}
  /\ Capturing \subseteq Names
  /\ Settable \subseteq Names
  /\ Answers \subseteq Values \cup {NULL}
  /\ Commanding \in BOOLEAN
  /\ HideSets \subseteq SUBSET Names
  /\ MaxDepth \in Nat

VARIABLES
  vars,     \* the dictionary of variables
  lex,      \* the value of the captured lexical variable
  noexport,
  isdirty, rebound,
  sortenv,  \* the environment mkenv built last: a set of lines
  stack     \* pushlist, with the settors that are running, innermost last

state == <<vars, lex, noexport, isdirty, rebound, sortenv, stack>>

-----------------------------------------------------------------------------
\* hasbindings
HasBindings(v) == v \in Closures

\* The text of x with value v: it shows what v has captured.
Line(x, v) == [name |-> x, value |-> v, captured |-> IF HasBindings(v) THEN {lex} ELSE {}]

\* A Var, and the absence of one.  flags is the pair of booleans.
Var(v, line, bound, internal) ==
  [defn |-> v, env |-> line, hasbindings |-> bound, internal |-> internal]

Unset == Var(NULL, NULL, FALSE, FALSE)

\* Fault: the flag is not recomputed.
MkvarPlain(v) == Var(v, NULL, FALSE, FALSE)

\* A freshly assigned Var.
Mkvar(v) == Var(v, NULL, HasBindings(v), FALSE)

IsExported(x) == x \notin noexport

\* Variables that initial.es defines are hidden by hidevariables; those imported from
\* the environment afterwards are not.
Init ==
  /\ vars \in [Names -> {Unset} \cup {Var(v, NULL, FALSE, TRUE) : v \in Plain}
                              \cup {Var(v, NULL, FALSE, FALSE) : v \in Plain}]
  /\ lex \in LexValues
  /\ noexport = {}
  /\ isdirty = TRUE /\ rebound = TRUE
  /\ sortenv = {}
  /\ stack = <<>>

Top == stack[Len(stack)]
Popped == SubSeq(stack, 1, Len(stack) - 1)

\* An entry of pushlist for name x.
Local(x) == [kind |-> "local", name |-> x, defn |-> vars[x].defn,
             hasbindings |-> vars[x].hasbindings, internal |-> vars[x].internal]

\* callsettor(x, v) on behalf of vardef, varpush or varpop.
Settor(op, x, v) == [kind |-> op, name |-> x, defn |-> v,
                     hasbindings |-> FALSE, internal |-> FALSE]

\* Fault: the Push is unlinked before its settor is called.
CallSettorUnlinked(op, x, v) ==
  stack' = Append(IF op = "pop" THEN Popped ELSE stack, Settor(op, x, v))

CallSettor(op, x, v) == stack' = Append(stack, Settor(op, x, v))

\* Marking the environment stale on account of x.
Dirty(x) == isdirty' = (isdirty \/ IsExported(x))

\* vardef after the settor; the empty list removes the variable.
Define(x, v) == vars' = [vars EXCEPT ![x] = IF v = NULL THEN Unset ELSE Mkvar(v)]

\* varpush after the settor.
Rebind(x, v) == vars' = [vars EXCEPT ![x] = Mkvar(v)]

\* Fault: varpop does not put the flags back.
RestoreBare(push, v) == vars' = [vars EXCEPT ![push.name] = Mkvar(v)]

\* Fault: varpop does not remove a variable that has become empty.
RestoreEmpty(push, v) ==
  vars' = [vars EXCEPT ![push.name] = Var(v, NULL, push.hasbindings, push.internal)]

\* varpop after the settor.
Restore(push, v) ==
  vars' = [vars EXCEPT ![push.name] =
             IF v = NULL THEN Unset ELSE Var(v, NULL, push.hasbindings, push.internal)]

-----------------------------------------------------------------------------
Deeper == Len(stack) < MaxDepth

\* vardef of a dynamic variable.
Assign(x, v) ==
  IF x \in Settable
    THEN /\ Deeper
         /\ CallSettor("def", x, v)
         /\ UNCHANGED <<vars, lex, noexport, isdirty, rebound, sortenv>>
    ELSE /\ Dirty(x)
         /\ Define(x, v)
         /\ UNCHANGED <<lex, noexport, rebound, sortenv, stack>>

\* vardef of a lexical variable: the binding is changed in place.
AssignLexical(c) ==
  /\ lex' = c
  /\ rebound' = TRUE
  /\ UNCHANGED <<vars, noexport, isdirty, sortenv, stack>>

\* varpush
EnterLocal(x, v) ==
  /\ Deeper
  /\ Dirty(x)
  /\ IF x \in Settable
       THEN CallSettor("push", x, v) /\ UNCHANGED vars
       ELSE Rebind(x, v) /\ stack' = Append(stack, Local(x))
  /\ UNCHANGED <<lex, noexport, rebound, sortenv>>

\* varpop, on return from the local or as an exception passes it.
LeaveLocal ==
  /\ stack # <<>>
  /\ Top.kind = "local"
  /\ Dirty(Top.name)
  /\ IF Top.name \in Settable
       THEN CallSettor("pop", Top.name, Top.defn) /\ UNCHANGED vars
       ELSE Restore(Top, Top.defn) /\ stack' = Popped
  /\ UNCHANGED <<lex, noexport, rebound, sortenv>>

\* The settor returns v, and its caller goes on.
SettorReturns ==
  /\ stack # <<>>
  /\ Top.kind \in {"def", "push", "pop"}
  /\ \E v \in {Top.defn} \cup Answers :
       \/ /\ Top.kind = "def"
          /\ Dirty(Top.name)
          /\ Define(Top.name, v)
          /\ stack' = Popped
       \/ /\ Top.kind = "push"
          /\ Rebind(Top.name, v)
          /\ stack' = Append(Popped, Local(Top.name))
          /\ UNCHANGED isdirty
       \/ /\ Top.kind = "pop"
          /\ Restore(stack[Len(stack) - 1], v)
          /\ stack' = SubSeq(stack, 1, Len(stack) - 2)
          /\ UNCHANGED isdirty
  /\ UNCHANGED <<lex, noexport, rebound, sortenv>>

\* The settor throws: its caller is abandoned.  A Push that was being popped is
\* still on pushlist, and throw pops it again.
SettorFails ==
  /\ stack # <<>>
  /\ Top.kind \in {"def", "push", "pop"}
  /\ stack' = Popped
  /\ UNCHANGED <<vars, lex, noexport, isdirty, rebound, sortenv>>

\* setnoexport, the settor of $noexport.
SetNoexport(S) ==
  /\ noexport' = S
  /\ isdirty' = TRUE
  /\ UNCHANGED <<vars, lex, rebound, sortenv, stack>>

\* A collection: VarScan drops the lines it knows to be stale.
Collect ==
  /\ rebound
  /\ vars' = [x \in Names |-> IF vars[x].hasbindings
                                THEN [vars[x] EXCEPT !.env = NULL] ELSE vars[x]]
  /\ UNCHANGED <<lex, noexport, isdirty, rebound, sortenv, stack>>

-----------------------------------------------------------------------------
\* mkenv0 skips a variable that is empty, internal or not exported.
Shown == {x \in Names : vars[x].defn # NULL /\ ~vars[x].internal /\ IsExported(x)}

\* Fault: a cached line is always used.
StaleLineUsed(x) == vars[x].env = NULL

\* Must mkenv0 convert x again?
LineStale(x) == vars[x].env = NULL \/ (rebound /\ vars[x].hasbindings)

LineOf(x) == IF LineStale(x) THEN Line(x, vars[x].defn) ELSE vars[x].env

\* Does mkenv build the environment again, and what does it return?
Rebuilds == isdirty \/ rebound
Mkenv == IF Rebuilds THEN {LineOf(x) : x \in Shown} ELSE sortenv

\* forkexec calls mkenv in the shell, before it forks.
StartCommand ==
  /\ Commanding \/ \A i \in DOMAIN stack : stack[i].kind = "local"
  /\ Rebuilds
  /\ vars' = [x \in Names |-> IF x \in Shown
                                THEN [vars[x] EXCEPT !.env = LineOf(x)] ELSE vars[x]]
  /\ sortenv' = Mkenv
  /\ isdirty' = FALSE
  /\ rebound' = FALSE
  /\ UNCHANGED <<lex, noexport, stack>>

Next ==
  \/ \E x \in Names : \E v \in ValuesFor(x) : Assign(x, v) \/ EnterLocal(x, v)
  \/ \E c \in LexValues : AssignLexical(c)
  \/ LeaveLocal
  \/ SettorReturns \/ SettorFails
  \/ \E S \in HideSets : SetNoexport(S)
  \/ Collect
  \/ StartCommand

Spec == Init /\ [][Next]_state

-----------------------------------------------------------------------------
(***************************************************************************)
(* Properties.                                                             *)
(***************************************************************************)
Lines == [name : Names, value : Values, captured : SUBSET LexValues]
VarType == [defn : Values \cup {NULL}, env : Lines \cup {NULL},
            hasbindings : BOOLEAN, internal : BOOLEAN]
Frame == [kind : {"local", "def", "push", "pop"}, name : Names,
          defn : Values \cup {NULL}, hasbindings : BOOLEAN, internal : BOOLEAN]

\* Every variable of the model holds a value that its C type allows, and a shell
\* variable that is not set has no flags and no line.
TypeOK ==
  /\ vars \in [Names -> VarType]
  /\ \A x \in Names : vars[x].defn = NULL => vars[x] = Unset
  /\ lex \in LexValues
  /\ noexport \subseteq Names
  /\ isdirty \in BOOLEAN /\ rebound \in BOOLEAN
  /\ sortenv \subseteq Lines
  /\ stack \in Seq(Frame)

\* The assertions of varpop: when its settor returns, the Push it is called for is the
\* top of pushlist again, as it was saved, whatever the settor bound, ran or failed at.
SettorsAbovePush ==
  \A i \in DOMAIN stack :
    stack[i].kind = "pop" => /\ i > 1
                             /\ stack[i - 1].kind = "local"
                             /\ stack[i - 1].name = stack[i].name
                             /\ stack[i - 1].defn = stack[i].defn

\* No settor is running, so that commands may be started.
Quiet == Commanding \/ \A i \in DOMAIN stack : stack[i].kind = "local"

\* A command started now receives one line for every variable that has a value, is
\* not internal and is not in $noexport, and each line is the text of its present
\* value, whatever was assigned, bound, unbound, hidden, captured or failed since
\* the environment was last built: "Local-bound variables are exported into the
\* environment" (nxes.1).
EnvironmentTrue == Quiet => Mkenv = {Line(x, vars[x].defn) : x \in Shown}

\* Variables under a `local' in progress.
LocalNames == {stack[i].name : i \in {j \in DOMAIN stack : stack[j].kind = "local"}}

Flags(r) == [defn |-> r.defn, hasbindings |-> r.hasbindings, internal |-> r.internal]

\* What x is again once its outermost local is left (what it is now, without one).
Outer(x) ==
  IF x \in LocalNames
    THEN LET i == CHOOSE i \in DOMAIN stack :
                    /\ stack[i].kind = "local" /\ stack[i].name = x
                    /\ \A j \in 1 .. (i - 1) : stack[j].kind = "local" => stack[j].name # x
         IN Flags(stack[i])
    ELSE Flags(vars[x])

\* This step ends an assignment to x that was made outside every local of x.
AssignsOutside(x) ==
  /\ x \notin LocalNames
  /\ \/ \E v \in ValuesFor(x) : Assign(x, v)
     \/ Len(stack') < Len(stack) /\ Top.kind = "def" /\ Top.name = x

\* Binding a variable locally, and whatever happens in there, leaves no trace: only an
\* assignment outside every local of x changes whether x is internal (unless its
\* settor empties it) and, where x has no settor, its value and its flags.
LocalsLeaveNoTrace ==
  [][\A x \in Names :
       \/ AssignsOutside(x)
       \/ /\ Outer(x).internal' = Outer(x).internal \/ Outer(x).defn' = NULL
          /\ x \notin Settable => Outer(x)' = Outer(x)]_state

=============================================================================
