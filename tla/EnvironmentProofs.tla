------------------------- MODULE EnvironmentProofs -------------------------
(***************************************************************************)
(* Proofs about Environment.  The environment is exact as long as settors  *)
(* start no external commands, $noexport names no variable that is given   *)
(* closures, and no settor makes up a closure: Tame.                       *)
(* (EnvironmentSettor.cfg and EnvironmentHidden.cfg show that the first    *)
(* two conditions are needed.)  That pushlist is kept, and that a local    *)
(* leaves no trace, holds in any shell.                                    *)
(***************************************************************************)
EXTENDS Environment, SequenceTheorems, WellFoundedInduction, TLAPS

Tame ==
  /\ ~Commanding
  /\ \A S \in HideSets : S \cap Capturing = {}
  /\ Answers \cap Closures = {}

\* A variable that may hold captured bindings says so, and only those do that are
\* given closures; its cached line is its text, or known to be stale.
VarRight(x) ==
  /\ vars[x] \in VarType
  /\ vars[x].defn = NULL => vars[x] = Unset
  /\ HasBindings(vars[x].defn) => vars[x].hasbindings
  /\ vars[x].hasbindings => x \in Capturing
  /\ vars[x].env # NULL => /\ ~vars[x].internal
                           /\ \/ vars[x].env = Line(x, vars[x].defn)
                              \/ rebound /\ vars[x].hasbindings

CacheRight == ~isdirty /\ ~rebound => sortenv = {Line(x, vars[x].defn) : x \in Shown}

VarsRight ==
  /\ vars = [x \in Names |-> vars[x]]
  /\ \A x \in Names : VarRight(x)
  /\ lex \in LexValues
  /\ noexport \subseteq Names
  /\ noexport \cap Capturing = {}
  /\ isdirty \in BOOLEAN /\ rebound \in BOOLEAN
  /\ sortenv \subseteq Lines
  /\ CacheRight

\* The same of a saved definition; and while a settor called by varpush or varpop runs,
\* the environment stays stale.
FrameRight(fr) ==
  /\ HasBindings(fr.defn) \/ fr.hasbindings => fr.name \in Capturing
  /\ fr.kind = "local" /\ HasBindings(fr.defn) => fr.hasbindings
  /\ fr.kind \in {"push", "pop"} /\ IsExported(fr.name) => isdirty

StackRight ==
  /\ stack \in Seq(Frame)
  /\ \A i \in DOMAIN stack : FrameRight(stack[i])
  /\ SettorsAbovePush

IInv == VarsRight /\ StackRight

-----------------------------------------------------------------------------
\* Dropping the last n elements of a stack keeps the others.
LEMMA Truncated ==
  ASSUME NEW S, NEW s \in Seq(S), NEW n \in Nat, n <= Len(s)
  PROVE  /\ SubSeq(s, 1, Len(s) - n) \in Seq(S)
         /\ Len(SubSeq(s, 1, Len(s) - n)) = Len(s) - n
         /\ \A i \in 1 .. (Len(s) - n) : SubSeq(s, 1, Len(s) - n)[i] = s[i]
  <1>1. Len(s) - n \in 0 .. Len(s)
    OBVIOUS
  <1>2. \A i \in 1 .. (Len(s) - n) : s[i] \in S
    BY <1>1
  <1> QED
    BY <1>1, <1>2

\* The line of a variable with a value is a line.
LEMMA LineType ==
  ASSUME TypeOK, NEW x \in Names, NEW v \in Values
  PROVE  Line(x, v) \in Lines
  BY DEF TypeOK, Line, Lines

\* The initial variables satisfy the invariant.
LEMMA InitIInv == Init => IInv
  <1> SUFFICES ASSUME Init PROVE IInv
    OBVIOUS
  <1>1. ASSUME NEW x \in Names PROVE VarRight(x)
    <2>1. vars[x] \in {Unset} \cup {Var(v, NULL, FALSE, TRUE) : v \in Plain}
                      \cup {Var(v, NULL, FALSE, FALSE) : v \in Plain}
      BY DEF Init
    <2>2. CASE vars[x] = Unset
      BY <2>2, EnvironmentAssumption DEF VarRight, Unset, Var, VarType, HasBindings, Values
    <2>3. ASSUME NEW v \in Plain, NEW i \in BOOLEAN, vars[x] = Var(v, NULL, FALSE, i)
          PROVE  VarRight(x)
      BY <2>3, EnvironmentAssumption DEF VarRight, Var, VarType, HasBindings, Values
    <2> QED
      BY <2>1, <2>2, <2>3
  <1>2. VarsRight
    BY <1>1 DEF VarsRight, CacheRight, Init
  <1>3. StackRight
    BY DEF StackRight, SettorsAbovePush, Init
  <1> QED
    BY <1>2, <1>3 DEF IInv


\* Giving variable y a Var without a line keeps VarsRight, if the environment is stale
\* afterwards whenever y is exported.
LEMMA SetVarRight ==
  ASSUME VarsRight, NEW y \in Names, NEW r \in VarType,
         r.env = NULL,
         r.defn = NULL => r = Unset,
         HasBindings(r.defn) => r.hasbindings,
         r.hasbindings => y \in Capturing,
         vars' = [vars EXCEPT ![y] = r],
         UNCHANGED <<lex, noexport, rebound, sortenv>>,
         isdirty' \in BOOLEAN,
         isdirty => isdirty',
         IsExported(y) => isdirty'
  PROVE  VarsRight'
  <1>1. ASSUME NEW x \in Names PROVE VarRight(x)'
    <2>1. CASE x = y
      <3>1. vars'[x] = r
        BY <2>1 DEF VarsRight
      <3> QED
        BY <2>1, <3>1 DEF VarRight, HasBindings, Unset, Var
    <2>2. CASE x # y
      BY <2>2 DEF VarsRight, VarRight, HasBindings, Unset, Var, Line
    <2> QED
      BY <2>1, <2>2
  <1>2. CacheRight'
    <2> SUFFICES ASSUME ~isdirty', ~rebound'
                 PROVE  sortenv' = {Line(x, vars[x].defn) : x \in Shown}'
      BY DEF CacheRight
    <2>1. ~IsExported(y) /\ ~isdirty /\ ~rebound
      OBVIOUS
    <2>2. y \notin Shown /\ y \notin Shown'
      BY <2>1 DEF Shown, IsExported
    <2>3. \A x \in Names : x # y => vars'[x] = vars[x]
      BY DEF VarsRight
    <2>4. Shown' = Shown
      BY <2>2, <2>3 DEF Shown, IsExported
    <2>5. \A x \in Shown : Line(x, vars[x].defn)' = Line(x, vars[x].defn)
      BY <2>2, <2>3 DEF Shown, Line
    <2>6. sortenv = {Line(x, vars[x].defn) : x \in Shown}
      BY <2>1 DEF VarsRight, CacheRight
    <2> QED
      BY <2>4, <2>5, <2>6
  <1>3. vars' = [x \in Names |-> vars'[x]]
    BY DEF VarsRight
  <1> QED
    BY <1>1, <1>2, <1>3 DEF VarsRight

\* So does marking the environment stale.
LEMMA DirtyRight ==
  ASSUME VarsRight, UNCHANGED <<vars, lex, noexport, rebound, sortenv>>,
         isdirty' \in BOOLEAN, isdirty => isdirty'
  PROVE  VarsRight'
  <1>1. \A x \in Names : VarRight(x)'
    BY DEF VarsRight, VarRight, HasBindings, Unset, Var, Line
  <1>2. CacheRight'
    BY DEF VarsRight, CacheRight, Shown, IsExported, Line
  <1> QED
    BY <1>1, <1>2 DEF VarsRight

\* Frames stay right while the environment stays stale.
LEMMA FrameKept ==
  ASSUME NEW fr, FrameRight(fr), noexport' = noexport, isdirty => isdirty'
  PROVE  FrameRight(fr)'
  BY DEF FrameRight, HasBindings, IsExported

\* A right frame goes on top of a right stack; a settor of varpop on the Push it is for.
LEMMA PushRight ==
  ASSUME StackRight, NEW fr \in Frame, FrameRight(fr)',
         noexport' = noexport, isdirty => isdirty',
         stack' = Append(stack, fr),
         fr.kind = "pop" => /\ stack # <<>>
                            /\ Top.kind = "local"
                            /\ Top.name = fr.name
                            /\ Top.defn = fr.defn
  PROVE  StackRight'
  <1>1. /\ stack' \in Seq(Frame)
        /\ Len(stack') = Len(stack) + 1
        /\ stack'[Len(stack) + 1] = fr
        /\ \A i \in DOMAIN stack : stack'[i] = stack[i]
    BY DEF StackRight
  <1>2. \A i \in DOMAIN stack' : i \in DOMAIN stack \/ i = Len(stack) + 1
    BY <1>1 DEF StackRight
  <1>3. ASSUME NEW i \in DOMAIN stack' PROVE FrameRight(stack[i])'
    <2>1. CASE i \in DOMAIN stack
      BY <2>1, <1>1, FrameKept DEF StackRight, FrameRight, HasBindings, IsExported
    <2>2. CASE i = Len(stack) + 1
      BY <2>2, <1>1 DEF FrameRight, HasBindings, IsExported
    <2> QED
      BY <1>2, <2>1, <2>2
  <1>4. SettorsAbovePush'
    BY <1>1, <1>2 DEF StackRight, SettorsAbovePush, Top
  <1> QED
    BY <1>1, <1>3, <1>4 DEF StackRight

\* Frames may be dropped from the top.
LEMMA DropRight ==
  ASSUME StackRight, NEW n \in Nat, n <= Len(stack),
         noexport' = noexport, isdirty => isdirty',
         stack' = SubSeq(stack, 1, Len(stack) - n)
  PROVE  StackRight'
  <1>1. /\ stack' \in Seq(Frame)
        /\ Len(stack') = Len(stack) - n
        /\ \A i \in 1 .. (Len(stack) - n) : stack'[i] = stack[i]
    BY Truncated DEF StackRight
  <1>2. DOMAIN stack' = 1 .. (Len(stack) - n) /\ DOMAIN stack' \subseteq DOMAIN stack
    BY <1>1 DEF StackRight
  <1>3. ASSUME NEW i \in DOMAIN stack' PROVE FrameRight(stack[i])'
    BY <1>1, <1>2, FrameKept DEF StackRight, FrameRight, HasBindings, IsExported
  <1>4. SettorsAbovePush'
    <2> SUFFICES ASSUME NEW i \in DOMAIN stack', stack'[i].kind = "pop"
                 PROVE  /\ i > 1
                        /\ stack'[i - 1].kind = "local"
                        /\ stack'[i - 1].name = stack'[i].name
                        /\ stack'[i - 1].defn = stack'[i].defn
      BY DEF SettorsAbovePush
    <2>1. stack'[i] = stack[i] /\ i \in DOMAIN stack
      BY <1>1, <1>2
    <2>2. i > 1 /\ i - 1 \in 1 .. (Len(stack) - n)
      BY <1>2, <2>1 DEF StackRight, SettorsAbovePush
    <2>3. stack'[i - 1] = stack[i - 1]
      BY <1>1, <2>2
    <2> QED
      BY <2>1, <2>2, <2>3 DEF StackRight, SettorsAbovePush
  <1> QED
    BY <1>1, <1>3, <1>4 DEF StackRight

-----------------------------------------------------------------------------
\* One step per action; the parts of IInv an action leaves alone are kept by
\* DirtyRight and by PushRight or DropRight.
LEMMA ValueFlags ==
  ASSUME NEW y \in Names, NEW v \in ValuesFor(y)
  PROVE  v \in Values \cup {NULL} /\ (HasBindings(v) => y \in Capturing)
  BY EnvironmentAssumption DEF ValuesFor, HasBindings, Values

\* What vardef and varpush make of a value keeps VarsRight.
LEMMA MkvarRight ==
  ASSUME NEW v \in Values \cup {NULL}, NEW r, r = Mkvar(v) \/ r = Unset
  PROVE  /\ r \in VarType /\ r.env = NULL
         /\ r.defn = NULL => r = Unset
         /\ HasBindings(r.defn) => r.hasbindings
         /\ r.hasbindings => HasBindings(v)
  <1>1. NULL \notin Closures
    BY EnvironmentAssumption DEF Values
  <1>2. ASSUME NEW w \in Values \cup {NULL}, w \notin Closures,
               r = [defn |-> w, env |-> NULL, hasbindings |-> FALSE, internal |-> FALSE]
        PROVE  /\ r \in VarType /\ r.env = NULL
               /\ r.defn = NULL => r = Unset
               /\ HasBindings(r.defn) => r.hasbindings
               /\ r.hasbindings => HasBindings(v)
    BY <1>2 DEF Unset, Var, VarType, HasBindings
  <1>3. CASE r = Unset
    BY <1>1, <1>2, <1>3 DEF Unset, Var
  <1>4. CASE r = Mkvar(v) /\ ~HasBindings(v)
    <2>1. v \notin Closures /\ (v \in Closures) = FALSE
      BY <1>4 DEF HasBindings
    <2>2. r = [defn |-> v, env |-> NULL, hasbindings |-> FALSE, internal |-> FALSE]
      BY <1>4, <2>1 DEF Mkvar, Var, HasBindings
    <2> QED
      BY <1>2, <2>1, <2>2
  <1>5. CASE r = Mkvar(v) /\ HasBindings(v)
    <2>1. v # NULL
      BY <1>5, EnvironmentAssumption DEF HasBindings, Values
    <2>2. r = [defn |-> v, env |-> NULL, hasbindings |-> TRUE, internal |-> FALSE]
      BY <1>5 DEF Mkvar, Var, HasBindings
    <2> QED
      BY <1>5, <2>1, <2>2 DEF VarType
  <1> QED
    BY <1>3, <1>4, <1>5

\* The Push of a variable, and the frame of a settor, are right.
LEMMA LocalRight ==
  ASSUME VarsRight, NEW y \in Names, NEW fr, fr = Local(y)
  PROVE  fr \in Frame /\ fr.kind = "local" /\ FrameRight(fr)'
  BY DEF VarsRight, VarRight, VarType, Local, Frame, FrameRight, HasBindings

\* The frame that callsettor adds is right.
LEMMA SettorRight ==
  ASSUME NEW y \in Names, NEW v \in Values \cup {NULL}, HasBindings(v) => y \in Capturing,
         NEW op \in {"def", "push", "pop"}, op # "def" /\ IsExported(y)' => isdirty'
  PROVE  /\ Settor(op, y, v) \in Frame
         /\ FrameRight(Settor(op, y, v))'
         /\ Settor(op, y, v).kind = op
         /\ Settor(op, y, v).name = y
         /\ Settor(op, y, v).defn = v
  BY DEF Settor, Frame, FrameRight, HasBindings, IsExported

\* What Dirty does to the flag.
LEMMA DirtyFlag ==
  ASSUME VarsRight, NEW y \in Names, Dirty(y)
  PROVE  isdirty' \in BOOLEAN /\ (isdirty => isdirty') /\ (IsExported(y) => isdirty')
  BY DEF VarsRight, Dirty, IsExported

\* The frames stay right when only flags are set.
LEMMA StackUnchanged ==
  ASSUME StackRight, UNCHANGED <<stack, noexport>>, isdirty => isdirty'
  PROVE  StackRight'
  BY FrameKept DEF StackRight, FrameRight, HasBindings, IsExported, SettorsAbovePush

\* vardef of a dynamic variable, up to its settor or to its end.
LEMMA AssignIInv ==
  ASSUME IInv, NEW y \in Names, NEW v \in ValuesFor(y), Assign(y, v)
  PROVE  IInv'
  <1>1. v \in Values \cup {NULL} /\ (HasBindings(v) => y \in Capturing)
    BY ValueFlags
  <1>2. CASE y \in Settable
    <2>1. VarsRight'
      BY <1>2, DirtyRight DEF IInv, Assign, VarsRight
    <2>2. stack' = Append(stack, Settor("def", y, v)) /\ noexport' = noexport
          /\ isdirty' = isdirty
      BY <1>2 DEF Assign, CallSettor
    <2>3. StackRight'
      BY <1>1, <2>2, SettorRight, PushRight DEF IInv
    <2> QED
      BY <2>1, <2>3 DEF IInv
  <1>3. CASE y \notin Settable
    <2> DEFINE r == IF v = NULL THEN Unset ELSE Mkvar(v)
    <2>1. /\ vars' = [vars EXCEPT ![y] = r]
          /\ UNCHANGED <<lex, noexport, rebound, sortenv, stack>>
          /\ Dirty(y)
      BY <1>3 DEF Assign, Define
    <2>2. isdirty' \in BOOLEAN /\ (isdirty => isdirty') /\ (IsExported(y) => isdirty')
      BY <2>1, DirtyFlag DEF IInv
    <2>3. VarsRight'
      <3>1. r = Mkvar(v) \/ r = Unset
        OBVIOUS
      <3> HIDE DEF r
      <3> QED
        BY <1>1, <2>1, <2>2, <3>1, MkvarRight, SetVarRight DEF IInv
    <2>4. StackRight'
      BY <2>1, <2>2, StackUnchanged DEF IInv
    <2> QED
      BY <2>3, <2>4 DEF IInv
  <1> QED
    BY <1>2, <1>3

\* A new lexical value makes every captured line stale, and sets rebound.
LEMMA AssignLexicalIInv ==
  ASSUME IInv, NEW c \in LexValues, AssignLexical(c)
  PROVE  IInv'
  <1>1. UNCHANGED <<vars, noexport, isdirty, sortenv, stack>> /\ lex' = c /\ rebound' = TRUE
    BY DEF AssignLexical
  <1>2. \A x \in Names : VarRight(x)'
    BY <1>1 DEF IInv, VarsRight, VarRight, HasBindings, Unset, Var, Line
  <1>3. VarsRight'
    BY <1>1, <1>2 DEF IInv, VarsRight, CacheRight
  <1> QED
    BY <1>1, <1>3, StackUnchanged DEF IInv

\* varpush, up to its settor or to its end.
LEMMA EnterLocalIInv ==
  ASSUME IInv, NEW y \in Names, NEW v \in ValuesFor(y), EnterLocal(y, v)
  PROVE  IInv'
  <1>1. v \in Values \cup {NULL} /\ (HasBindings(v) => y \in Capturing)
    BY ValueFlags
  <1>2. UNCHANGED <<lex, noexport, rebound, sortenv>> /\ isdirty' \in BOOLEAN
        /\ (isdirty => isdirty') /\ (IsExported(y) => isdirty')
    BY DirtyFlag DEF IInv, EnterLocal
  <1>3. CASE y \in Settable
    <2>1. stack' = Append(stack, Settor("push", y, v)) /\ vars' = vars
      BY <1>3 DEF EnterLocal, CallSettor
    <2>2. VarsRight'
      BY <1>2, <2>1, DirtyRight DEF IInv
    <2>3. IsExported(y)' => isdirty'
      BY <1>2 DEF IsExported
    <2>4. StackRight'
      BY <1>1, <1>2, <2>1, <2>3, SettorRight, PushRight DEF IInv
    <2> QED
      BY <2>2, <2>4 DEF IInv
  <1>4. CASE y \notin Settable
    <2>1. stack' = Append(stack, Local(y)) /\ vars' = [vars EXCEPT ![y] = Mkvar(v)]
      BY <1>4 DEF EnterLocal, Rebind
    <2>2. VarsRight'
      BY <1>1, <1>2, <2>1, MkvarRight, SetVarRight DEF IInv
    <2>3. PICK fr : fr = Local(y)
      OBVIOUS
    <2>4. fr \in Frame /\ fr.kind = "local" /\ FrameRight(fr)'
      BY <2>3, LocalRight DEF IInv
    <2>5. StackRight'
      BY <1>2, <2>1, <2>3, <2>4, PushRight DEF IInv
    <2> QED
      BY <2>2, <2>5 DEF IInv
  <1> QED
    BY <1>3, <1>4

\* What varpop makes of a Push and of the value its settor returned keeps VarsRight.
LEMMA RestoreRight ==
  ASSUME VarsRight, NEW fr \in Frame, FrameRight(fr), fr.kind = "local",
         NEW v \in Values \cup {NULL}, HasBindings(v) => v = fr.defn,
         Restore(fr, v),
         UNCHANGED <<lex, noexport, rebound, sortenv>>,
         isdirty' \in BOOLEAN, isdirty => isdirty', IsExported(fr.name) => isdirty'
  PROVE  VarsRight'
  <1> DEFINE r == IF v = NULL THEN Unset ELSE Var(v, NULL, fr.hasbindings, fr.internal)
  <1>1. vars' = [vars EXCEPT ![fr.name] = r] /\ fr.name \in Names
    BY DEF Restore, Frame
  <1>2. /\ r \in VarType /\ r.env = NULL
        /\ r.defn = NULL => r = Unset
        /\ HasBindings(r.defn) => r.hasbindings
        /\ r.hasbindings => fr.name \in Capturing
    <2>1. CASE v = NULL
      BY <2>1, EnvironmentAssumption DEF Unset, Var, VarType, HasBindings, Values
    <2>2. CASE v # NULL
      BY <2>2 DEF Var, VarType, HasBindings, Frame, FrameRight
    <2> QED
      BY <2>1, <2>2
  <1> HIDE DEF r
  <1> QED
    BY <1>1, <1>2, SetVarRight

\* varpop, up to its settor or to its end.
LEMMA LeaveLocalIInv == ASSUME IInv, LeaveLocal PROVE IInv'
  <1>1. Len(stack) \in DOMAIN stack /\ Len(stack) >= 1 /\ Top = stack[Len(stack)] /\ Top \in Frame
    BY DEF LeaveLocal, IInv, StackRight, Top
  <1>2. FrameRight(Top) /\ Top.kind = "local" /\ Top.name \in Names
        /\ Top.defn \in Values \cup {NULL} /\ (HasBindings(Top.defn) => Top.name \in Capturing)
    BY <1>1 DEF LeaveLocal, IInv, StackRight, FrameRight, Frame
  <1>3. UNCHANGED <<lex, noexport, rebound, sortenv>> /\ isdirty' \in BOOLEAN
        /\ (isdirty => isdirty') /\ (IsExported(Top.name) => isdirty')
    BY <1>2, DirtyFlag DEF IInv, LeaveLocal
  <1>4. CASE Top.name \in Settable
    <2>1. stack' = Append(stack, Settor("pop", Top.name, Top.defn)) /\ vars' = vars
      BY <1>4 DEF LeaveLocal, CallSettor
    <2>2. VarsRight'
      BY <1>3, <2>1, DirtyRight DEF IInv
    <2>3. PICK y \in Names, v \in Values \cup {NULL} : y = Top.name /\ v = Top.defn
      BY <1>2
    <2>4. IsExported(y)' => isdirty'
      BY <1>3, <2>3 DEF IsExported
    <2>5. /\ Settor("pop", y, v) \in Frame
          /\ FrameRight(Settor("pop", y, v))'
          /\ Settor("pop", y, v).kind = "pop"
          /\ Settor("pop", y, v).name = y
          /\ Settor("pop", y, v).defn = v
      BY <1>2, <2>3, <2>4, SettorRight
    <2>6. stack # <<>>
      BY DEF LeaveLocal
    <2>7. StackRight'
      BY <1>2, <1>3, <2>1, <2>3, <2>5, <2>6, PushRight DEF IInv
    <2> QED
      BY <2>2, <2>7 DEF IInv
  <1>5. CASE Top.name \notin Settable
    <2>1. Restore(Top, Top.defn) /\ stack' = SubSeq(stack, 1, Len(stack) - 1)
      BY <1>5 DEF LeaveLocal, Popped
    <2>2. VarsRight'
      BY <1>1, <1>2, <1>3, <2>1, RestoreRight DEF IInv
    <2>3. StackRight'
      BY <1>1, <1>3, <2>1, DropRight DEF IInv
    <2> QED
      BY <2>2, <2>3 DEF IInv
  <1> QED
    BY <1>4, <1>5

\* A settor that throws takes its own frame away only.
LEMMA SettorFailsIInv == ASSUME IInv, SettorFails PROVE IInv'
  <1>1. Len(stack) \in Nat /\ 1 <= Len(stack)
    BY DEF SettorFails, IInv, StackRight
  <1>2. UNCHANGED <<vars, lex, noexport, isdirty, rebound, sortenv>>
        /\ stack' = SubSeq(stack, 1, Len(stack) - 1)
    BY DEF SettorFails, Popped
  <1>3. VarsRight'
    BY <1>2, DirtyRight DEF IInv, VarsRight
  <1>4. StackRight'
    BY <1>1, <1>2, DropRight DEF IInv
  <1> QED
    BY <1>3, <1>4 DEF IInv

\* VarScan drops only lines that are stale.
LEMMA CollectIInv == ASSUME IInv, Collect PROVE IInv'
  <1>1. rebound /\ UNCHANGED <<lex, noexport, isdirty, rebound, sortenv, stack>>
    BY DEF Collect
  <1>2. ASSUME NEW x \in Names PROVE VarRight(x)'
    <2>1. VarRight(x) /\ vars[x] \in VarType
      BY DEF IInv, VarsRight, VarRight
    <2>2. CASE vars[x].hasbindings
      <3>1. vars'[x] = [vars[x] EXCEPT !.env = NULL]
        BY <2>2 DEF Collect
      <3>2. vars[x].defn # NULL
        BY <2>1, <2>2 DEF VarRight, Unset, Var
      <3> QED
        BY <2>1, <3>1, <3>2 DEF VarRight, VarType, HasBindings
    <2>3. CASE ~vars[x].hasbindings
      <3>1. vars'[x] = vars[x]
        BY <2>3 DEF Collect
      <3> QED
        BY <2>1, <3>1, <1>1 DEF VarRight, HasBindings, Unset, Var, Line
    <2> QED
      BY <2>2, <2>3
  <1>3. vars' = [x \in Names |-> vars'[x]]
    BY DEF Collect
  <1>4. VarsRight'
    BY <1>1, <1>2, <1>3 DEF IInv, VarsRight, CacheRight
  <1> QED
    BY <1>1, <1>4, StackUnchanged DEF IInv

\* setnoexport makes the environment stale.
LEMMA SetNoexportIInv ==
  ASSUME IInv, Tame, NEW S \in HideSets, SetNoexport(S)
  PROVE  IInv'
  <1>1. UNCHANGED <<vars, lex, rebound, sortenv, stack>> /\ noexport' = S /\ isdirty' = TRUE
    BY DEF SetNoexport
  <1>2. S \subseteq Names /\ S \cap Capturing = {}
    BY EnvironmentAssumption DEF Tame
  <1>3. \A x \in Names : VarRight(x)'
    BY <1>1 DEF IInv, VarsRight, VarRight, HasBindings, Unset, Var, Line
  <1>4. VarsRight'
    BY <1>1, <1>2, <1>3 DEF IInv, VarsRight, CacheRight
  <1>5. StackRight'
    BY <1>1 DEF IInv, StackRight, FrameRight, HasBindings, SettorsAbovePush
  <1> QED
    BY <1>4, <1>5 DEF IInv

\* The rest of vardef, varpush and varpop after the settor.
LEMMA SettorReturnsIInv == ASSUME IInv, Tame, SettorReturns PROVE IInv'
  <1> DEFINE n == Len(stack)
             y == Top.name
  <1>1. n \in DOMAIN stack /\ n \in Nat /\ n >= 1 /\ Top = stack[n] /\ Top \in Frame
    BY DEF SettorReturns, IInv, StackRight, Top
  <1>2. FrameRight(Top) /\ y \in Names
    BY <1>1 DEF IInv, StackRight, Frame
  <1>3. UNCHANGED <<lex, noexport, rebound, sortenv>>
    BY DEF SettorReturns
  <1>4. PICK v \in {Top.defn} \cup Answers :
          \/ Top.kind = "def" /\ Dirty(y) /\ Define(y, v) /\ stack' = Popped
          \/ /\ Top.kind = "push" /\ Rebind(y, v)
             /\ stack' = Append(Popped, Local(y)) /\ UNCHANGED isdirty
          \/ /\ Top.kind = "pop" /\ Restore(stack[n - 1], v)
             /\ stack' = SubSeq(stack, 1, n - 2) /\ UNCHANGED isdirty
    BY DEF SettorReturns
  <1>5. v \in Values \cup {NULL} /\ (HasBindings(v) => v = Top.defn /\ y \in Capturing)
    BY <1>1, <1>2, EnvironmentAssumption DEF Tame, FrameRight, Frame, HasBindings
  <1>6. CASE Top.kind = "def" /\ Dirty(y) /\ Define(y, v) /\ stack' = Popped
    <2> DEFINE r == IF v = NULL THEN Unset ELSE Mkvar(v)
    <2>1. vars' = [vars EXCEPT ![y] = r]
      BY <1>6 DEF Define
    <2>2. isdirty' \in BOOLEAN /\ (isdirty => isdirty') /\ (IsExported(y) => isdirty')
      BY <1>2, <1>6, DirtyFlag DEF IInv
    <2>3. VarsRight'
      <3>1. r = Mkvar(v) \/ r = Unset
        OBVIOUS
      <3> HIDE DEF r, y
      <3> QED
        BY <1>2, <1>3, <1>5, <2>1, <2>2, <3>1, MkvarRight, SetVarRight DEF IInv
    <2>4. StackRight'
      BY <1>1, <1>3, <1>6, <2>2, DropRight DEF IInv, Popped
    <2> QED
      BY <2>3, <2>4 DEF IInv
  <1>7. CASE /\ Top.kind = "push" /\ Rebind(y, v)
             /\ stack' = Append(Popped, Local(y)) /\ UNCHANGED isdirty
    <2>1. vars' = [vars EXCEPT ![y] = Mkvar(v)]
      BY <1>7 DEF Rebind
    <2>2. isdirty' \in BOOLEAN /\ (isdirty => isdirty') /\ (IsExported(y) => isdirty')
      BY <1>2, <1>7 DEF IInv, VarsRight, FrameRight
    <2>3. VarsRight'
      <3> HIDE DEF y
      <3> QED
        BY <1>2, <1>3, <1>5, <2>1, <2>2, MkvarRight, SetVarRight DEF IInv
    <2>4. PICK fr : fr = Local(y)
      OBVIOUS
    <2>5. fr \in Frame /\ fr.kind = "local" /\ FrameRight(fr)'
      BY <1>2, <2>4, LocalRight DEF IInv
    <2>6. PICK low : low = SubSeq(stack, 1, n - 1)
      OBVIOUS
    <2>7. /\ low \in Seq(Frame) /\ Len(low) = n - 1
          /\ \A i \in 1 .. (n - 1) : low[i] = stack[i]
      <3>1. stack \in Seq(Frame) /\ 1 \in Nat /\ 1 <= Len(stack)
        BY <1>1 DEF IInv, StackRight
      <3> QED
        BY <2>6, <3>1, Truncated
    <2>8. /\ stack' \in Seq(Frame) /\ Len(stack') = n
          /\ stack'[n] = fr
          /\ \A i \in 1 .. (n - 1) : stack'[i] = stack[i]
      BY <1>1, <1>7, <2>4, <2>5, <2>6, <2>7 DEF Popped
    <2>9. DOMAIN stack' = 1 .. n /\ DOMAIN stack = 1 .. n
      BY <1>1, <2>8 DEF IInv, StackRight
    <2>10. ASSUME NEW i \in DOMAIN stack' PROVE FrameRight(stack[i])'
      <3>1. CASE i = n
        BY <2>5, <2>8, <3>1 DEF FrameRight, HasBindings, IsExported
      <3>2. CASE i # n
        <4>1. i \in 1 .. (n - 1) /\ i \in DOMAIN stack
          BY <1>1, <2>9, <3>2
        <4> QED
          BY <4>1, <2>2, <2>8, <1>3, FrameKept
          DEF IInv, StackRight, FrameRight, HasBindings, IsExported
      <3> QED
        BY <3>1, <3>2
    <2>11. SettorsAbovePush'
      BY <1>1, <2>5, <2>8, <2>9 DEF IInv, StackRight, SettorsAbovePush
    <2> QED
      BY <2>3, <2>8, <2>10, <2>11 DEF IInv, StackRight
  <1>8. CASE /\ Top.kind = "pop" /\ Restore(stack[n - 1], v)
             /\ stack' = SubSeq(stack, 1, n - 2) /\ UNCHANGED isdirty
    <2>1. /\ n > 1 /\ stack[n - 1].kind = "local" /\ stack[n - 1].name = y
          /\ stack[n - 1].defn = Top.defn
      BY <1>1, <1>8 DEF IInv, StackRight, SettorsAbovePush
    <2>2. PICK fr : fr = stack[n - 1]
      OBVIOUS
    <2>3. fr \in Frame /\ FrameRight(fr)
      BY <1>1, <2>1, <2>2 DEF IInv, StackRight
    <2>4. isdirty' \in BOOLEAN /\ (isdirty => isdirty') /\ (IsExported(y) => isdirty')
      BY <1>2, <1>8 DEF IInv, VarsRight, FrameRight
    <2>5. VarsRight'
      BY <1>3, <1>5, <1>8, <2>1, <2>2, <2>3, <2>4, RestoreRight DEF IInv
    <2>6. 2 \in Nat /\ 2 <= Len(stack) /\ stack' = SubSeq(stack, 1, Len(stack) - 2)
      BY <1>1, <1>8, <2>1
    <2>7. StackRight'
      BY <1>3, <2>4, <2>6, DropRight DEF IInv
    <2> QED
      BY <2>5, <2>7 DEF IInv
  <1> QED
    BY <1>4, <1>6, <1>7, <1>8

\* What mkenv writes for a variable is its present text, if the environment is rebuilt.
LEMMA LineOfRight ==
  ASSUME VarsRight, NEW x \in Shown
  PROVE  LineOf(x) = Line(x, vars[x].defn) /\ LineOf(x) \in Lines
  <1>1. x \in Names /\ vars[x].defn \in Values /\ VarRight(x)
    BY DEF Shown, VarsRight, VarRight, VarType
  <1>2. Line(x, vars[x].defn) \in Lines
    BY <1>1 DEF VarsRight, Line, Lines
  <1> QED
    BY <1>1, <1>2 DEF LineOf, LineStale, VarRight

\* mkenv leaves every exported line true, and so the environment.
LEMMA StartCommandIInv == ASSUME IInv, Tame, StartCommand PROVE IInv'
  <1>1. UNCHANGED <<lex, noexport, stack>> /\ isdirty' = FALSE /\ rebound' = FALSE
    BY DEF StartCommand
  <1>2. ASSUME NEW x \in Names
        PROVE  /\ VarRight(x)'
               /\ vars'[x].defn = vars[x].defn
               /\ vars'[x].internal = vars[x].internal
    <2>1. VarRight(x) /\ vars[x] \in VarType
      BY DEF IInv, VarsRight, VarRight
    <2>2. CASE x \in Shown
      <3>1. vars'[x] = [vars[x] EXCEPT !.env = LineOf(x)]
        BY <2>2 DEF StartCommand
      <3>2. LineOf(x) = Line(x, vars[x].defn) /\ LineOf(x) \in Lines
        BY <2>2, LineOfRight DEF IInv
      <3>3. vars[x].defn # NULL /\ ~vars[x].internal
        BY <2>2 DEF Shown
      <3>4. /\ vars'[x].env = Line(x, vars[x].defn)
            /\ vars'[x].defn = vars[x].defn
            /\ vars'[x].internal = vars[x].internal
            /\ vars'[x].hasbindings = vars[x].hasbindings
            /\ vars'[x] \in VarType
        BY <2>1, <3>1, <3>2 DEF VarType
      <3> QED
        BY <1>1, <2>1, <3>3, <3>4 DEF VarRight, HasBindings, Line
    <2>3. CASE x \notin Shown
      <3>1. vars'[x] = vars[x]
        BY <2>3 DEF StartCommand
      <3>2. vars[x].env # NULL => ~vars[x].hasbindings
        <4>1. vars[x].env # NULL => vars[x].defn # NULL /\ ~vars[x].internal
          BY <2>1 DEF VarRight, Unset, Var
        <4>2. vars[x].env # NULL => x \in noexport
          BY <2>3, <4>1 DEF Shown, IsExported
        <4> QED
          BY <2>1, <4>2 DEF IInv, VarsRight, VarRight
      <3>3. vars[x].env # NULL => vars[x].env = Line(x, vars[x].defn)
        BY <2>1, <3>2 DEF VarRight
      <3> QED
        BY <1>1, <2>1, <3>1, <3>3 DEF VarRight, HasBindings, Unset, Var, Line
    <2> QED
      BY <2>2, <2>3
  <1>3. Shown' = Shown
    BY <1>1, <1>2 DEF Shown, IsExported
  <1>4. sortenv' = {LineOf(x) : x \in Shown}
    BY DEF StartCommand, Mkenv
  <1>5. \A x \in Shown : /\ LineOf(x) = Line(x, vars[x].defn)
                         /\ Line(x, vars[x].defn)' = Line(x, vars[x].defn)
                         /\ LineOf(x) \in Lines
    BY <1>1, <1>2, LineOfRight DEF Shown, Line, IInv
  <1>6. CacheRight' /\ sortenv' \subseteq Lines
    BY <1>3, <1>4, <1>5 DEF CacheRight
  <1>7. vars' = [x \in Names |-> vars'[x]]
    BY DEF StartCommand
  <1>8. VarsRight'
    BY <1>1, <1>2, <1>6, <1>7 DEF IInv, VarsRight
  <1>9. StackRight'
    <2>1. \A i \in DOMAIN stack : stack[i].kind = "local"
      BY DEF Tame, StartCommand
    <2> QED
      BY <1>1, <2>1 DEF IInv, StackRight, FrameRight, HasBindings, SettorsAbovePush
  <1> QED
    BY <1>8, <1>9 DEF IInv

\* Every step keeps the invariant.
LEMMA NextIInv == ASSUME IInv, Tame, [Next]_state PROVE IInv'
  <1>1. CASE UNCHANGED state
    <2>1. UNCHANGED <<vars, lex, noexport, isdirty, rebound, sortenv, stack>>
      BY <1>1 DEF state
    <2>2. VarsRight'
      BY <2>1, DirtyRight DEF IInv, VarsRight
    <2> QED
      BY <2>1, <2>2, StackUnchanged DEF IInv
  <1>2. CASE \E x \in Names : \E v \in ValuesFor(x) : Assign(x, v) \/ EnterLocal(x, v)
    BY <1>2, AssignIInv, EnterLocalIInv
  <1>3. CASE \E c \in LexValues : AssignLexical(c)
    BY <1>3, AssignLexicalIInv
  <1>4. CASE LeaveLocal
    BY <1>4, LeaveLocalIInv
  <1>5. CASE SettorReturns
    BY <1>5, SettorReturnsIInv
  <1>6. CASE SettorFails
    BY <1>6, SettorFailsIInv
  <1>7. CASE \E S \in HideSets : SetNoexport(S)
    BY <1>7, SetNoexportIInv
  <1>8. CASE Collect
    BY <1>8, CollectIInv
  <1>9. CASE StartCommand
    BY <1>9, StartCommandIInv
  <1> QED
    BY <1>1, <1>2, <1>3, <1>4, <1>5, <1>6, <1>7, <1>8, <1>9 DEF Next

\* The inductive invariant holds in every reachable state of a tame shell.
THEOREM Inductive == ASSUME Tame PROVE Spec => []IInv
  <1>1. Init => IInv
    BY InitIInv
  <1>2. IInv /\ [Next]_state => IInv'
    BY NextIInv
  <1> QED
    BY <1>1, <1>2, PTL DEF Spec

\* In a tame shell every external command gets exactly the exported variables, each
\* with its present value: mkenv never returns a stale environment.
THEOREM EnvironmentExact == ASSUME Tame PROVE Spec => []EnvironmentTrue
  <1>1. ASSUME IInv PROVE Mkenv = {Line(x, vars[x].defn) : x \in Shown}
    <2>1. CASE Rebuilds
      <3>1. \A x \in Shown : LineOf(x) = Line(x, vars[x].defn)
        BY <1>1, LineOfRight DEF IInv
      <3> QED
        BY <2>1, <3>1 DEF Mkenv
    <2>2. CASE ~Rebuilds
      BY <1>1, <2>2 DEF IInv, VarsRight, CacheRight, Mkenv, Rebuilds
    <2> QED
      BY <2>1, <2>2
  <1>2. IInv => EnvironmentTrue
    BY <1>1 DEF EnvironmentTrue
  <1> QED
    BY <1>2, Inductive, PTL

-----------------------------------------------------------------------------
(***************************************************************************)
(* What holds in any shell, whatever its settors run, return or hide.      *)
(***************************************************************************)
VarsTyped ==
  /\ vars \in [Names -> VarType]
  /\ \A x \in Names : vars[x].defn = NULL => vars[x] = Unset

OthersTyped ==
  /\ lex \in LexValues /\ noexport \subseteq Names
  /\ isdirty \in BOOLEAN /\ rebound \in BOOLEAN
  /\ sortenv \subseteq Lines

\* A saved variable that was not set has no flags; settors are called where there are any.
FrameTrue(fr) ==
  /\ fr.kind = "local" /\ fr.defn = NULL => fr.hasbindings = FALSE /\ fr.internal = FALSE
  /\ fr.kind # "local" => fr.name \in Settable

\* fr is the Push that settor fr2 was called for.
IsFor(fr2, fr) == fr.kind = "local" /\ fr.name = fr2.name /\ fr.defn = fr2.defn

Stacked(s) ==
  /\ s \in Seq(Frame)
  /\ \A i \in 1 .. Len(s) : FrameTrue(s[i])
  /\ \A i \in 1 .. Len(s) : s[i].kind = "pop" => i > 1 /\ IsFor(s[i], s[i - 1])

UInv == VarsTyped /\ OthersTyped /\ Stacked(stack)

LEMMA UInvShows == ASSUME UInv PROVE TypeOK /\ SettorsAbovePush
  <1>1. DOMAIN stack = 1 .. Len(stack)
    BY DEF UInv, Stacked
  <1>2. SettorsAbovePush
    BY <1>1 DEF UInv, Stacked, SettorsAbovePush, IsFor
  <1> QED
    BY <1>2 DEF UInv, VarsTyped, OthersTyped, Stacked, TypeOK

\* Frames may be dropped,
LEMMA StackedDropped ==
  ASSUME NEW s, Stacked(s), NEW n \in Nat, n <= Len(s)
  PROVE  LET t == SubSeq(s, 1, Len(s) - n)
         IN  Stacked(t) /\ Len(t) = Len(s) - n /\ \A i \in 1 .. Len(t) : t[i] = s[i]
  <1> DEFINE t == SubSeq(s, 1, Len(s) - n)
  <1>1. t \in Seq(Frame) /\ Len(t) = Len(s) - n /\ \A i \in 1 .. Len(t) : t[i] = s[i]
    BY Truncated DEF Stacked
  <1>2. Len(s) \in Nat /\ Len(t) \in Nat /\ Len(t) <= Len(s)
    BY <1>1 DEF Stacked
  <1>3. ASSUME NEW i \in 1 .. Len(t)
        PROVE  FrameTrue(t[i]) /\ (t[i].kind = "pop" => i > 1 /\ IsFor(t[i], t[i - 1]))
    <2>1. i \in 1 .. Len(s) /\ (i > 1 => i - 1 \in 1 .. Len(t))
      BY <1>2
    <2> QED
      BY <1>1, <2>1 DEF Stacked
  <1> QED
    BY <1>1, <1>3 DEF Stacked

\* and one put on top.
LEMMA StackedPushed ==
  ASSUME NEW s, Stacked(s), NEW fr \in Frame, FrameTrue(fr),
         fr.kind = "pop" => Len(s) >= 1 /\ IsFor(fr, s[Len(s)])
  PROVE  LET t == Append(s, fr)
         IN  /\ Stacked(t) /\ Len(t) = Len(s) + 1 /\ t[Len(s) + 1] = fr
             /\ \A i \in 1 .. Len(s) : t[i] = s[i]
  <1> DEFINE t == Append(s, fr)
  <1>1. s \in Seq(Frame) /\ Len(s) \in Nat
    BY DEF Stacked
  <1>2. /\ t \in Seq(Frame) /\ Len(t) = Len(s) + 1 /\ t[Len(s) + 1] = fr
        /\ \A i \in 1 .. Len(s) : t[i] = s[i]
    BY <1>1
  <1>3. ASSUME NEW i \in 1 .. Len(t)
        PROVE  FrameTrue(t[i]) /\ (t[i].kind = "pop" => i > 1 /\ IsFor(t[i], t[i - 1]))
    <2>1. CASE i = Len(s) + 1
      <3>1. Len(s) >= 1 => Len(s) \in 1 .. Len(s)
        BY <1>1
      <3> QED
        BY <1>1, <1>2, <2>1, <3>1
    <2>2. CASE i # Len(s) + 1
      <3>1. i \in 1 .. Len(s) /\ (i > 1 => i - 1 \in 1 .. Len(s))
        BY <1>1, <1>2, <2>2
      <3> QED
        BY <1>2, <3>1 DEF Stacked
    <2> QED
      BY <2>1, <2>2
  <1> QED
    BY <1>2, <1>3 DEF Stacked

-----------------------------------------------------------------------------
(***************************************************************************)
(* What the outermost local of a variable has saved.                       *)
(***************************************************************************)
Below == {ss \in Nat \X Nat : ss[1] < ss[2]}

\* A set of numbers that is not empty has a least element.
LEMMA LeastOne ==
  ASSUME NEW S \in SUBSET Nat, S # {}
  PROVE  \E n \in S : \A m \in S : n <= m
  <1>1. IsWellFoundedOn(Below, Nat)
    <2>1. Below = OpToRel(<, Nat)
      BY DEF Below, OpToRel
    <2> QED
      BY <2>1, NatLessThanWellFounded
  <1>2. PICK n \in S : \A m \in S : <<m, n>> \notin Below
    BY <1>1, WFMin
  <1>3. ASSUME NEW m \in S PROVE n <= m
    <2>1. m \in Nat /\ n \in Nat /\ <<m, n>> \in Nat \X Nat
      OBVIOUS
    <2>2. <<m, n>> \notin {ss \in Nat \X Nat : ss[1] < ss[2]}
      BY <1>2 DEF Below
    <2>3. ~(<<m, n>>[1] < <<m, n>>[2])
      BY <2>1, <2>2, Zenon
    <2> QED
      BY <2>1, <2>3
  <1> QED
    BY <1>3

\* LocalNames and Outer, for any stack and variables.
NamesIn(s) == {s[i].name : i \in {j \in DOMAIN s : s[j].kind = "local"}}

OuterIn(s, vs, x) ==
  IF x \in NamesIn(s)
    THEN LET i == CHOOSE i \in DOMAIN s :
                    /\ s[i].kind = "local" /\ s[i].name = x
                    /\ \A j \in 1 .. (i - 1) : s[j].kind = "local" => s[j].name # x
         IN Flags(s[i])
    ELSE Flags(vs[x])

LEMMA OuterIs ==
  ASSUME NEW x
  PROVE  Outer(x) = OuterIn(stack, vars, x) /\ (Outer(x))' = OuterIn(stack', vars', x)
         /\ LocalNames = NamesIn(stack)
  BY Zenon DEF Outer, OuterIn, NamesIn, LocalNames, Flags

\* The places of its locals.
LocalsAt(s, x) == {i \in 1 .. Len(s) : s[i].kind = "local" /\ s[i].name = x}

LEMMA NamesAre ==
  ASSUME NEW s \in Seq(Frame), NEW x
  PROVE  x \in NamesIn(s) <=> LocalsAt(s, x) # {}
  <1>1. DOMAIN s = 1 .. Len(s)
    OBVIOUS
  <1> QED
    BY <1>1 DEF NamesIn, LocalsAt

\* Without one the variable itself,
LEMMA OuterNone ==
  ASSUME NEW s \in Seq(Frame), NEW vs, NEW x, LocalsAt(s, x) = {}
  PROVE  OuterIn(s, vs, x) = Flags(vs[x])
  BY NamesAre DEF OuterIn

\* else what the lowest has saved.
LEMMA OuterFirst ==
  ASSUME NEW s \in Seq(Frame), NEW vs, NEW x, NEW m \in LocalsAt(s, x),
         \A j \in LocalsAt(s, x) : m <= j
  PROVE  OuterIn(s, vs, x) = Flags(s[m])
  <1>1. DOMAIN s = 1 .. Len(s) /\ Len(s) \in Nat
    OBVIOUS
  <1>2. x \in NamesIn(s)
    BY NamesAre
  <1> DEFINE First(i) == /\ s[i].kind = "local" /\ s[i].name = x
                         /\ \A j \in 1 .. (i - 1) : s[j].kind = "local" => s[j].name # x
  <1>3. m \in DOMAIN s /\ First(m)
    <2>1. ASSUME NEW j \in 1 .. (m - 1), s[j].kind = "local", s[j].name = x PROVE FALSE
      <3>1. j \in LocalsAt(s, x) /\ ~ m <= j
        BY <1>1, <2>1 DEF LocalsAt
      <3> QED
        BY <3>1
    <2> QED
      BY <1>1, <2>1 DEF LocalsAt
  <1>4. ASSUME NEW i \in DOMAIN s, First(i) PROVE i = m
    <2>1. i \in LocalsAt(s, x) /\ m \in 1 .. Len(s)
      BY <1>1, <1>4 DEF LocalsAt
    <2>2. m <= i
      BY <2>1
    <2>3. ~ m \in 1 .. (i - 1)
      BY <1>3, <1>4
    <2> QED
      BY <1>1, <2>1, <2>2, <2>3
  <1>5. (CHOOSE i \in DOMAIN s : First(i)) = m
    <2> HIDE DEF First
    <2> QED
      BY <1>3, <1>4
  <1> QED
    BY <1>2, <1>5, Zenon DEF OuterIn

\* What is above the lowest does not matter,
LEMMA OuterBelow ==
  ASSUME NEW s \in Seq(Frame), NEW t \in Seq(Frame), NEW vs, NEW ws, NEW x,
         NEW k \in Nat, k <= Len(s), k <= Len(t), \A i \in 1 .. k : t[i] = s[i],
         NEW l \in LocalsAt(s, x), l <= k
  PROVE  OuterIn(t, ws, x) = OuterIn(s, vs, x)
  <1>1. Len(s) \in Nat /\ Len(t) \in Nat
    OBVIOUS
  <1>2. LocalsAt(s, x) \in SUBSET Nat
    BY <1>1 DEF LocalsAt
  <1>3. PICK m \in LocalsAt(s, x) : \A j \in LocalsAt(s, x) : m <= j
    BY <1>2, LeastOne
  <1>4. m \in 1 .. k /\ m \in Nat
    <2>1. m <= l /\ m \in 1 .. Len(s) /\ l \in 1 .. Len(s)
      BY <1>3 DEF LocalsAt
    <2> QED
      BY <1>1, <2>1
  <1>5. m \in LocalsAt(t, x)
    BY <1>1, <1>4 DEF LocalsAt
  <1>6. ASSUME NEW j \in LocalsAt(t, x) PROVE m <= j
    <2>1. j \in 1 .. Len(t) /\ j \in Int
      BY <1>1 DEF LocalsAt
    <2>2. CASE j <= k
      <3>1. j \in LocalsAt(s, x)
        BY <1>1, <2>1, <2>2 DEF LocalsAt
      <3> QED
        BY <1>3, <3>1
    <2>3. CASE ~ j <= k
      BY <1>4, <2>1, <2>3
    <2> QED
      BY <2>2, <2>3
  <1>7. OuterIn(t, ws, x) = Flags(t[m])
    BY <1>5, <1>6, OuterFirst
  <1>8. OuterIn(s, vs, x) = Flags(s[m])
    BY <1>3, OuterFirst
  <1> QED
    BY <1>4, <1>7, <1>8

\* nor are frames above k, if they are no locals of x.
AlikeUpTo(k, s, t, vs, ws, x) ==
  /\ s \in Seq(Frame) /\ t \in Seq(Frame)
  /\ k \in Nat /\ k <= Len(s) /\ k <= Len(t) /\ \A i \in 1 .. k : t[i] = s[i]
  /\ \A i \in LocalsAt(s, x) : i <= k
  /\ LocalsAt(s, x) = {} => Flags(ws[x]) = Flags(vs[x]) /\ \A i \in LocalsAt(t, x) : i <= k

LEMMA OuterSame ==
  ASSUME NEW k, NEW s, NEW t, NEW vs, NEW ws, NEW x, AlikeUpTo(k, s, t, vs, ws, x)
  PROVE  OuterIn(t, ws, x) = OuterIn(s, vs, x)
  <1> USE DEF AlikeUpTo
  <1>1. CASE LocalsAt(s, x) # {}
    <2>1. PICK l \in LocalsAt(s, x) : l <= k
      BY <1>1
    <2> QED
      BY <2>1, OuterBelow
  <1>2. CASE LocalsAt(s, x) = {}
    <2>1. ASSUME NEW i \in LocalsAt(t, x) PROVE FALSE
      <3>1. i \in 1 .. k /\ i \in 1 .. Len(s)
        BY <1>2, <2>1 DEF LocalsAt
      <3>2. i \in LocalsAt(s, x)
        BY <2>1, <3>1 DEF LocalsAt
      <3> QED
        BY <1>2, <3>2
    <2>2. LocalsAt(t, x) = {}
      BY <2>1
    <2> QED
      BY <1>2, <2>2, OuterNone
  <1> QED
    BY <1>1, <1>2

-----------------------------------------------------------------------------
(***************************************************************************)
(* What a step does to the variables and to the stack, and what remains of *)
(* them.                                                                   *)
(***************************************************************************)
\* A step leaves x alone, as LocalsLeaveNoTrace has it.
Untraced(x) ==
  /\ Outer(x).internal' = Outer(x).internal \/ Outer(x).defn' = NULL
  /\ x \notin Settable => Outer(x)' = Outer(x)

Traceless == \A x \in Names : AssignsOutside(x) \/ Untraced(x)

LEMMA SetVarTyped ==
  ASSUME VarsTyped, NEW y \in Names, NEW r \in VarType, r.defn = NULL => r = Unset,
         vars' = [vars EXCEPT ![y] = r]
  PROVE  VarsTyped' /\ vars'[y] = r /\ \A x \in Names : x # y => vars'[x] = vars[x]
  <1>1. vars'[y] = r /\ \A x \in Names : x # y => vars'[x] = vars[x]
    BY DEF VarsTyped
  <1>2. vars' \in [Names -> VarType]
    BY DEF VarsTyped
  <1>3. ASSUME NEW x \in Names, vars'[x].defn = NULL PROVE vars'[x] = Unset
    BY <1>1, <1>3 DEF VarsTyped
  <1>4. Unset' = Unset
    BY DEF Unset, Var
  <1> QED
    BY <1>1, <1>2, <1>3, <1>4 DEF VarsTyped

\* What varpop puts back,
LEMMA RestoreTyped ==
  ASSUME NEW fr \in Frame, NEW v \in Values \cup {NULL},
         NEW r, r = IF v = NULL THEN Unset ELSE Var(v, NULL, fr.hasbindings, fr.internal)
  PROVE  /\ r \in VarType
         /\ r.defn = NULL => r = Unset
         /\ r.internal = fr.internal \/ r.defn = NULL
         /\ v = fr.defn /\ fr.kind = "local" /\ FrameTrue(fr) => Flags(r) = Flags(fr)
  <1>1. CASE v = NULL
    <2>1. r = [defn |-> NULL, env |-> NULL, hasbindings |-> FALSE, internal |-> FALSE]
      BY <1>1 DEF Unset, Var
    <2>2. r \in VarType /\ (r.defn = NULL => r = Unset) /\ r.defn = NULL
      BY <2>1 DEF Unset, Var, VarType
    <2>3. ASSUME v = fr.defn, fr.kind = "local", FrameTrue(fr) PROVE Flags(r) = Flags(fr)
      <3>1. fr.defn = NULL /\ fr.hasbindings = FALSE /\ fr.internal = FALSE
        BY <1>1, <2>3 DEF FrameTrue
      <3>2. r.defn = fr.defn /\ r.hasbindings = FALSE /\ r.internal = FALSE
        BY <2>1, <3>1
      <3> QED
        BY <3>1, <3>2, Zenon DEF Flags
    <2> QED
      BY <2>2, <2>3
  <1>2. CASE v # NULL
    <2>1. r = [defn |-> v, env |-> NULL, hasbindings |-> fr.hasbindings,
               internal |-> fr.internal]
      BY <1>2 DEF Var
    <2> QED
      BY <1>2, <2>1 DEF VarType, Flags, Frame
  <1> QED
    BY <1>1, <1>2

\* and what varpush saves.
LEMMA LocalTrue ==
  ASSUME VarsTyped, NEW y \in Names, NEW fr, fr = Local(y)
  PROVE  /\ fr \in Frame /\ fr.kind = "local" /\ fr.name = y
         /\ FrameTrue(fr) /\ Flags(fr) = Flags(vars[y])
  <1>1. vars[y] \in VarType /\ (vars[y].defn = NULL => vars[y] = Unset)
    BY DEF VarsTyped
  <1> QED
    BY <1>1 DEF Local, Frame, VarType, FrameTrue, Flags, Unset, Var

LEMMA SettorTrue ==
  ASSUME NEW y \in Settable, NEW v \in Values \cup {NULL}, NEW op \in {"def", "push", "pop"},
         NEW fr, fr = Settor(op, y, v)
  PROVE  /\ fr \in Frame /\ fr.kind = op /\ fr.name = y /\ fr.defn = v
         /\ FrameTrue(fr)
  <1>1. y \in Names
    BY EnvironmentAssumption
  <1> QED
    BY <1>1 DEF Settor, Frame, FrameTrue

\* The frame on top.
LEMMA TopIs ==
  ASSUME UInv, stack # <<>>
  PROVE  /\ Len(stack) \in Nat /\ Len(stack) \in 1 .. Len(stack)
         /\ Top = stack[Len(stack)] /\ Top \in Frame /\ FrameTrue(Top)
         /\ Top.kind = "pop" => /\ Len(stack) - 1 \in 1 .. Len(stack)
                                /\ IsFor(Top, stack[Len(stack) - 1])
  <1>1. stack \in Seq(Frame) /\ Len(stack) \in Nat /\ Len(stack) > 0
    BY DEF UInv, Stacked
  <1>2. Len(stack) \in 1 .. Len(stack) /\ stack[Len(stack)] \in Frame
    BY <1>1
  <1>3. Top = stack[Len(stack)]
    BY DEF Top
  <1> QED
    BY <1>1, <1>2, <1>3 DEF UInv, Stacked

\* Calling a settor and leaving it, whatever becomes of the variables that have a local,
LEMMA SettorsLeaveOuter ==
  ASSUME stack \in Seq(Frame), stack' \in Seq(Frame), NEW k \in Nat,
         k <= Len(stack), k <= Len(stack'), \A i \in 1 .. k : stack'[i] = stack[i],
         \A i \in 1 .. Len(stack) : i > k => stack[i].kind # "local",
         \A i \in 1 .. Len(stack') : i > k => stack'[i].kind # "local",
         NEW x, x \notin LocalNames => Flags(vars'[x]) = Flags(vars[x])
  PROVE  Untraced(x)
  <1>1. LocalsAt(stack, x) = {} => Flags(vars'[x]) = Flags(vars[x])
    BY OuterIs, NamesAre
  <1>2. Len(stack) \in Nat /\ Len(stack') \in Nat
    OBVIOUS
  <1>3. (\A i \in LocalsAt(stack, x) : i <= k) /\ (\A i \in LocalsAt(stack', x) : i <= k)
    BY <1>2 DEF LocalsAt
  <1>4. OuterIn(stack', vars', x) = OuterIn(stack, vars, x)
    <2>1. AlikeUpTo(k, stack, stack', vars, vars', x)
      BY <1>1, <1>3 DEF AlikeUpTo
    <2> QED
      BY <2>1, OuterSame
  <1>5. Outer(x)' = Outer(x)
    BY <1>4, OuterIs
  <1> QED
    BY <1>5 DEF Untraced

\* binding a variable,
LEMMA BindingLeavesOuter ==
  ASSUME VarsTyped, stack \in Seq(Frame), NEW s \in Seq(Frame),
         Len(s) <= Len(stack), \A i \in 1 .. Len(s) : s[i] = stack[i],
         \A i \in 1 .. Len(stack) : i > Len(s) => stack[i].kind # "local",
         NEW y \in Names, NEW fr \in Frame, fr.kind = "local", fr.name = y,
         Flags(fr) = Flags(vars[y]), stack' = Append(s, fr),
         \A x \in Names : x # y => vars'[x] = vars[x],
         NEW x \in Names
  PROVE  Untraced(x)
  <1> DEFINE k == Len(s)
  <1>1. k \in Nat /\ Len(stack) \in Nat
    OBVIOUS
  <1>2. /\ stack' \in Seq(Frame) /\ Len(stack') = k + 1 /\ stack'[k + 1] = fr
        /\ \A i \in 1 .. k : stack'[i] = stack[i]
    OBVIOUS
  <1> HIDE DEF k
  <1>3. \A i \in LocalsAt(stack, x) : i <= k
    BY <1>1 DEF LocalsAt, k
  <1>4. k <= Len(stack) /\ k <= Len(stack')
    BY <1>1, <1>2 DEF k
  <1>5. CASE x = y /\ LocalsAt(stack, x) = {}
    <2>1. OuterIn(stack, vars, x) = Flags(vars[x])
      BY <1>5, OuterNone
    <2>2. k + 1 \in LocalsAt(stack', x)
      BY <1>1, <1>2, <1>5 DEF LocalsAt
    <2>3. ASSUME NEW j \in LocalsAt(stack', x) PROVE k + 1 <= j
      <3>1. j \in 1 .. (k + 1) /\ stack'[j].kind = "local" /\ stack'[j].name = x
        BY <1>2 DEF LocalsAt
      <3>2. CASE j \in 1 .. k
        <4>1. j \in LocalsAt(stack, x)
          BY <1>1, <1>2, <1>4, <3>1, <3>2 DEF LocalsAt
        <4> QED
          BY <1>5, <4>1
      <3> QED
        BY <1>1, <3>1, <3>2
    <2>4. OuterIn(stack', vars', x) = Flags(fr)
      <3>1. PICK t, ws : t = stack' /\ ws = vars'
        OBVIOUS
      <3>2. /\ t \in Seq(Frame) /\ k + 1 \in LocalsAt(t, x)
            /\ \A j \in LocalsAt(t, x) : k + 1 <= j
        BY <1>2, <2>2, <2>3, <3>1
      <3>3. OuterIn(t, ws, x) = Flags(t[k + 1])
        BY ONLY <3>2, OuterFirst
      <3> QED
        BY <1>2, <3>1, <3>3
    <2> QED
      BY <1>5, <2>1, <2>4, OuterIs DEF Untraced
  <1>6. CASE x # y \/ LocalsAt(stack, x) # {}
    <2>1. ASSUME LocalsAt(stack, x) = {} PROVE \A i \in LocalsAt(stack', x) : i <= k
      BY <1>1, <1>2, <1>6, <2>1 DEF LocalsAt
    <2>2. LocalsAt(stack, x) = {} => Flags(vars'[x]) = Flags(vars[x])
      BY <1>6
    <2>3. OuterIn(stack', vars', x) = OuterIn(stack, vars, x)
      <3>1. AlikeUpTo(k, stack, stack', vars, vars', x)
        BY <1>1, <1>2, <1>3, <1>4, <2>1, <2>2 DEF AlikeUpTo
      <3> QED
        BY <3>1, OuterSame
    <2> QED
      BY <2>3, OuterIs DEF Untraced
  <1> QED
    BY <1>5, <1>6

\* and unbinding it: then the variable is again what its local has saved.
LEMMA UnbindingLeavesOuter ==
  ASSUME stack \in Seq(Frame), NEW m \in 1 .. Len(stack),
         \A i \in 1 .. Len(stack) : i > m => stack[i].kind # "local",
         stack[m].kind = "local", NEW y, y = stack[m].name, NEW r, vars'[y] = r,
         \A x \in Names : x # y => vars'[x] = vars[x],
         stack' \in Seq(Frame), Len(stack') = m - 1,
         \A i \in 1 .. (m - 1) : stack'[i] = stack[i],
         r.internal = stack[m].internal \/ r.defn = NULL,
         y \notin Settable => Flags(r) = Flags(stack[m]),
         NEW x \in Names
  PROVE  Untraced(x)
  <1>1. Len(stack) \in Nat /\ m \in Nat /\ m - 1 \in Nat
        /\ m - 1 <= Len(stack) /\ m - 1 <= Len(stack')
    OBVIOUS
  <1>2. \A i \in LocalsAt(stack, x) : i <= m
    BY <1>1 DEF LocalsAt
  <1>3. ASSUME NEW l \in LocalsAt(stack, x), l <= m - 1 PROVE Untraced(x)
    <2>1. OuterIn(stack', vars', x) = OuterIn(stack, vars, x)
      BY <1>1, <1>3, OuterBelow
    <2> QED
      BY <2>1, OuterIs DEF Untraced
  <1>4. CASE \A l \in LocalsAt(stack, x) : ~ l <= m - 1
    <2>1. LocalsAt(stack', x) = {}
      <3>1. ASSUME NEW j \in LocalsAt(stack', x) PROVE FALSE
        <4>1. j \in 1 .. (m - 1) /\ j \in 1 .. Len(stack)
          BY <1>1 DEF LocalsAt
        <4>2. j \in LocalsAt(stack, x)
          BY <4>1 DEF LocalsAt
        <4> QED
          BY <1>1, <1>4, <4>1, <4>2
      <3> QED
        BY <3>1
    <2>2. OuterIn(stack', vars', x) = Flags(vars'[x])
      BY <2>1, OuterNone
    <2>3. CASE x = y
      <3>1. m \in LocalsAt(stack, x)
        BY <2>3 DEF LocalsAt
      <3>2. \A j \in LocalsAt(stack, x) : m <= j
        BY <1>1, <1>4 DEF LocalsAt
      <3>3. OuterIn(stack, vars, x) = Flags(stack[m])
        BY <3>1, <3>2, OuterFirst
      <3>4. Outer(x) = Flags(stack[m]) /\ Outer(x)' = Flags(r)
        BY <2>2, <2>3, <3>3, OuterIs
      <3>5. (Outer(x).internal)' = r.internal /\ (Outer(x).defn)' = r.defn
            /\ Outer(x).internal = stack[m].internal
        BY <3>4 DEF Flags
      <3> QED
        BY <2>3, <3>4, <3>5 DEF Untraced
    <2>4. CASE x # y
      <3>1. LocalsAt(stack, x) = {}
        BY <1>1, <1>2, <1>4, <2>4 DEF LocalsAt
      <3>2. OuterIn(stack, vars, x) = Flags(vars[x]) /\ vars'[x] = vars[x]
        BY <2>4, <3>1, OuterNone
      <3>3. Outer(x)' = Outer(x)
        BY <2>2, <3>2, OuterIs
      <3> QED
        BY <3>3 DEF Untraced
    <2> QED
      BY <2>3, <2>4
  <1> QED
    BY <1>3, <1>4

-----------------------------------------------------------------------------
(***************************************************************************)
(* Each action keeps UInv and leaves no trace.                             *)
(***************************************************************************)
LEMMA InitUInv == Init => UInv
  <1> SUFFICES ASSUME Init PROVE UInv
    OBVIOUS
  <1>1. ASSUME NEW x \in Names
        PROVE  vars[x] \in VarType /\ (vars[x].defn = NULL => vars[x] = Unset)
    BY InitIInv DEF IInv, VarsRight, VarRight
  <1>2. VarsTyped
    BY <1>1 DEF VarsTyped, Init
  <1>3. stack = <<>> /\ Len(stack) = 0 /\ stack \in Seq(Frame)
    BY DEF Init
  <1> QED
    BY <1>2, <1>3 DEF UInv, OthersTyped, Stacked, Init

\* Nothing happens to x while the stack and what the variables hold stay.
LEMMA FlagsKept ==
  ASSUME UInv, stack' = stack, \A x \in Names : Flags(vars'[x]) = Flags(vars[x])
  PROVE  Traceless
  <1>1. stack \in Seq(Frame) /\ Len(stack) \in Nat
    BY DEF UInv, Stacked
  <1>2. ASSUME NEW x \in Names PROVE Untraced(x)
    BY <1>1, SettorsLeaveOuter
  <1> QED
    BY <1>2 DEF Traceless

LEMMA AssignTraceless ==
  ASSUME UInv, NEW y \in Names, NEW v \in ValuesFor(y), Assign(y, v)
  PROVE  UInv' /\ Traceless
  <1>1. v \in Values \cup {NULL} /\ stack \in Seq(Frame) /\ Len(stack) \in Nat
    BY ValueFlags DEF UInv, Stacked
  <1>2. CASE y \in Settable
    <2>1. PICK fr : fr = Settor("def", y, v)
      OBVIOUS
    <2>2. stack' = Append(stack, fr)
          /\ UNCHANGED <<vars, lex, noexport, isdirty, rebound, sortenv>>
      BY <1>2, <2>1 DEF Assign, CallSettor
    <2>3. fr \in Frame /\ fr.kind = "def" /\ FrameTrue(fr)
      BY <1>1, <1>2, <2>1, SettorTrue
    <2>4. Stacked(stack') /\ Len(stack') = Len(stack) + 1 /\ stack'[Len(stack) + 1] = fr
          /\ \A i \in 1 .. Len(stack) : stack'[i] = stack[i]
      BY <2>2, <2>3, StackedPushed DEF UInv
    <2>5. UInv'
      BY <2>2, <2>4 DEF UInv, VarsTyped, OthersTyped, Unset, Var
    <2>6. ASSUME NEW x \in Names PROVE Untraced(x)
      <3>1. stack' \in Seq(Frame) /\ vars' = vars
            /\ \A i \in 1 .. Len(stack') : i > Len(stack) => stack'[i].kind # "local"
        BY <1>1, <2>2, <2>3, <2>4 DEF Stacked
      <3> QED
        BY <1>1, <2>4, <3>1, SettorsLeaveOuter
    <2> QED
      BY <2>5, <2>6 DEF Traceless
  <1>3. CASE y \notin Settable
    <2>1. PICK r : r = IF v = NULL THEN Unset ELSE Mkvar(v)
      OBVIOUS
    <2>2. /\ vars' = [vars EXCEPT ![y] = r]
          /\ UNCHANGED <<lex, noexport, rebound, sortenv, stack>>
          /\ Dirty(y)
      BY <1>3, <2>1 DEF Assign, Define
    <2>3. r \in VarType /\ (r.defn = NULL => r = Unset)
      BY <1>1, <2>1, MkvarRight
    <2>4. VarsTyped' /\ \A x \in Names : x # y => vars'[x] = vars[x]
      BY <2>2, <2>3, SetVarTyped DEF UInv
    <2>5. UInv'
      BY <2>2, <2>4 DEF UInv, OthersTyped, Dirty
    <2>6. ASSUME NEW x \in Names PROVE AssignsOutside(x) \/ Untraced(x)
      <3>1. CASE x = y /\ x \notin LocalNames
        BY <3>1 DEF AssignsOutside
      <3>2. CASE x # y \/ x \in LocalNames
        BY <1>1, <2>2, <2>4, <3>2, SettorsLeaveOuter
      <3> QED
        BY <3>1, <3>2
    <2> QED
      BY <2>5, <2>6 DEF Traceless
  <1> QED
    BY <1>2, <1>3

LEMMA EnterLocalTraceless ==
  ASSUME UInv, NEW y \in Names, NEW v \in ValuesFor(y), EnterLocal(y, v)
  PROVE  UInv' /\ Traceless
  <1>1. v \in Values \cup {NULL} /\ stack \in Seq(Frame) /\ Len(stack) \in Nat
    BY ValueFlags DEF UInv, Stacked
  <1>2. OthersTyped'
    BY DEF EnterLocal, Dirty, UInv, OthersTyped
  <1>3. CASE y \in Settable
    <2>1. PICK fr : fr = Settor("push", y, v)
      OBVIOUS
    <2>2. stack' = Append(stack, fr) /\ vars' = vars
      BY <1>3, <2>1 DEF EnterLocal, CallSettor
    <2>3. fr \in Frame /\ fr.kind = "push" /\ FrameTrue(fr)
      BY <1>1, <1>3, <2>1, SettorTrue
    <2>4. Stacked(stack') /\ Len(stack') = Len(stack) + 1 /\ stack'[Len(stack) + 1] = fr
          /\ \A i \in 1 .. Len(stack) : stack'[i] = stack[i]
      BY <2>2, <2>3, StackedPushed DEF UInv
    <2>5. UInv'
      BY <1>2, <2>2, <2>4 DEF UInv, VarsTyped, Unset, Var
    <2>6. ASSUME NEW x \in Names PROVE Untraced(x)
      <3>1. stack' \in Seq(Frame)
            /\ \A i \in 1 .. Len(stack') : i > Len(stack) => stack'[i].kind # "local"
        BY <1>1, <2>3, <2>4 DEF Stacked
      <3> QED
        BY <1>1, <2>2, <2>4, <3>1, SettorsLeaveOuter
    <2> QED
      BY <2>5, <2>6 DEF Traceless
  <1>4. CASE y \notin Settable
    <2>1. PICK fr : fr = Local(y)
      OBVIOUS
    <2>2. stack' = Append(stack, fr) /\ vars' = [vars EXCEPT ![y] = Mkvar(v)]
      BY <1>4, <2>1 DEF EnterLocal, Rebind
    <2>3. fr \in Frame /\ fr.kind = "local" /\ fr.name = y /\ FrameTrue(fr)
          /\ Flags(fr) = Flags(vars[y])
      BY <2>1, LocalTrue DEF UInv
    <2>4. Stacked(stack')
      BY <2>2, <2>3, StackedPushed DEF UInv
    <2>5. Mkvar(v) \in VarType /\ (Mkvar(v).defn = NULL => Mkvar(v) = Unset)
      BY <1>1, MkvarRight
    <2>6. VarsTyped' /\ \A x \in Names : x # y => vars'[x] = vars[x]
      BY <2>2, <2>5, SetVarTyped DEF UInv
    <2>7. ASSUME NEW x \in Names PROVE Untraced(x)
      <3>1. /\ Len(stack) <= Len(stack) /\ \A i \in 1 .. Len(stack) : stack[i] = stack[i]
            /\ \A i \in 1 .. Len(stack) : i > Len(stack) => stack[i].kind # "local"
        BY <1>1
      <3> QED
        BY <1>1, <2>2, <2>3, <2>6, <3>1, BindingLeavesOuter DEF UInv
    <2> QED
      BY <1>2, <2>4, <2>6, <2>7 DEF Traceless, UInv
  <1> QED
    BY <1>3, <1>4

LEMMA LeaveLocalTraceless == ASSUME UInv, LeaveLocal PROVE UInv' /\ Traceless
  <1> DEFINE n == Len(stack)
             y == Top.name
  <1>1. /\ n \in Nat /\ n \in 1 .. n /\ stack \in Seq(Frame)
        /\ Top = stack[n] /\ Top \in Frame /\ FrameTrue(Top) /\ Top.kind = "local"
    BY TopIs DEF LeaveLocal, UInv, Stacked
  <1>2. y \in Names /\ Top.defn \in Values \cup {NULL}
    BY <1>1 DEF Frame
  <1>3. OthersTyped'
    BY <1>2 DEF LeaveLocal, Dirty, UInv, OthersTyped
  <1>4. CASE y \in Settable
    <2>1. PICK fr : fr = Settor("pop", y, Top.defn)
      OBVIOUS
    <2>2. stack' = Append(stack, fr) /\ vars' = vars
      BY <1>4, <2>1 DEF LeaveLocal, CallSettor
    <2>3. fr \in Frame /\ fr.kind = "pop" /\ FrameTrue(fr) /\ IsFor(fr, stack[n])
      BY <1>1, <1>2, <1>4, <2>1, SettorTrue DEF IsFor
    <2>4. Stacked(stack') /\ Len(stack') = n + 1 /\ stack'[n + 1] = fr
          /\ \A i \in 1 .. n : stack'[i] = stack[i]
      BY <1>1, <2>2, <2>3, StackedPushed DEF UInv
    <2>5. UInv'
      BY <1>3, <2>2, <2>4 DEF UInv, VarsTyped, Unset, Var
    <2>6. ASSUME NEW x \in Names PROVE Untraced(x)
      <3>1. stack' \in Seq(Frame)
            /\ \A i \in 1 .. Len(stack') : i > n => stack'[i].kind # "local"
        BY <1>1, <2>3, <2>4 DEF Stacked
      <3> QED
        BY <1>1, <2>2, <2>4, <3>1, SettorsLeaveOuter
    <2> QED
      BY <2>5, <2>6 DEF Traceless
  <1>5. CASE y \notin Settable
    <2>1. PICK r : r = IF Top.defn = NULL THEN Unset
                       ELSE Var(Top.defn, NULL, Top.hasbindings, Top.internal)
      OBVIOUS
    <2>2. stack' = SubSeq(stack, 1, n - 1) /\ vars' = [vars EXCEPT ![y] = r]
      BY <1>5, <2>1 DEF LeaveLocal, Restore, Popped
    <2>3. /\ r \in VarType /\ (r.defn = NULL => r = Unset)
          /\ r.internal = Top.internal \/ r.defn = NULL
          /\ Flags(r) = Flags(Top)
      BY <1>1, <1>2, <2>1, RestoreTyped
    <2>4. VarsTyped' /\ vars'[y] = r /\ \A x \in Names : x # y => vars'[x] = vars[x]
      BY <1>2, <2>2, <2>3, SetVarTyped DEF UInv
    <2>5. Stacked(stack') /\ Len(stack') = n - 1
          /\ \A i \in 1 .. (n - 1) : stack'[i] = stack[i]
      <3>1. 1 \in Nat /\ 1 <= Len(stack) /\ stack' = SubSeq(stack, 1, Len(stack) - 1)
        BY <1>1, <2>2
      <3> QED
        BY <3>1, StackedDropped DEF UInv
    <2>6. ASSUME NEW x \in Names PROVE Untraced(x)
      <3>1. stack' \in Seq(Frame) /\ n \in 1 .. Len(stack)
            /\ \A i \in 1 .. Len(stack) : i > n => stack[i].kind # "local"
        BY <1>1, <2>5 DEF Stacked
      <3> QED
        BY <1>1, <2>3, <2>4, <2>5, <3>1, UnbindingLeavesOuter
    <2> QED
      BY <1>3, <2>4, <2>5, <2>6 DEF Traceless, UInv
  <1> QED
    BY <1>4, <1>5

\* A frame that is no local is dropped, and y may have been given a value.
LEMMA SettorDropped ==
  ASSUME UInv, stack # <<>>, Top.kind # "local", stack' = Popped
  PROVE  /\ Stacked(stack') /\ Len(stack') < Len(stack)
         /\ \A x : (x \notin LocalNames => Flags(vars'[x]) = Flags(vars[x])) => Untraced(x)
  <1> DEFINE n == Len(stack)
  <1>1. n \in Nat /\ n \in 1 .. n /\ Top = stack[n] /\ stack \in Seq(Frame)
    BY TopIs DEF UInv, Stacked
  <1>2. stack' = SubSeq(stack, 1, n - 1)
    BY DEF Popped
  <1>3. Stacked(stack') /\ Len(stack') = n - 1 /\ \A i \in 1 .. (n - 1) : stack'[i] = stack[i]
    <2>1. 1 \in Nat /\ 1 <= Len(stack)
      BY <1>1
    <2> QED
      BY <1>2, <2>1, StackedDropped DEF UInv
  <1>4. /\ stack' \in Seq(Frame) /\ n - 1 \in Nat /\ n - 1 <= Len(stack) /\ n - 1 <= Len(stack')
        /\ \A i \in 1 .. Len(stack) : i > n - 1 => stack[i].kind # "local"
        /\ \A i \in 1 .. Len(stack') : i > n - 1 => stack'[i].kind # "local"
    BY <1>1, <1>3 DEF Stacked
  <1>5. ASSUME NEW x, x \notin LocalNames => Flags(vars'[x]) = Flags(vars[x])
        PROVE  Untraced(x)
    BY <1>1, <1>3, <1>4, <1>5, SettorsLeaveOuter
  <1> QED
    BY <1>1, <1>3, <1>5

LEMMA SettorFailsTraceless == ASSUME UInv, SettorFails PROVE UInv' /\ Traceless
  <1>1. stack # <<>> /\ Top.kind # "local" /\ stack' = Popped
        /\ UNCHANGED <<vars, lex, noexport, isdirty, rebound, sortenv>>
    BY DEF SettorFails
  <1>2. Stacked(stack') /\ \A x \in Names : Untraced(x)
    BY <1>1, SettorDropped
  <1> QED
    BY <1>1, <1>2 DEF UInv, VarsTyped, OthersTyped, Traceless, Unset, Var

\* A settor returns v to vardef,
LEMMA DefReturns ==
  ASSUME UInv, stack # <<>>, Top.kind = "def", NEW v \in Values \cup {NULL},
         Define(Top.name, v), stack' = Popped, OthersTyped'
  PROVE  UInv' /\ Traceless
  <1> DEFINE y == Top.name
  <1>1. y \in Names
    BY TopIs DEF Frame
  <1>2. PICK r : r = IF v = NULL THEN Unset ELSE Mkvar(v)
    OBVIOUS
  <1>3. r \in VarType /\ (r.defn = NULL => r = Unset)
    BY <1>2, MkvarRight
  <1>4. vars' = [vars EXCEPT ![y] = r]
    BY <1>2 DEF Define
  <1>5. VarsTyped' /\ \A x \in Names : x # y => vars'[x] = vars[x]
    BY <1>1, <1>3, <1>4, SetVarTyped DEF UInv
  <1>6. /\ Stacked(stack') /\ Len(stack') < Len(stack)
        /\ \A x : (x \notin LocalNames => Flags(vars'[x]) = Flags(vars[x])) => Untraced(x)
    BY SettorDropped
  <1>7. ASSUME NEW x \in Names PROVE AssignsOutside(x) \/ Untraced(x)
    <2>1. CASE x = y /\ x \notin LocalNames
      BY <1>6, <2>1 DEF AssignsOutside
    <2>2. CASE x # y \/ x \in LocalNames
      BY <1>5, <1>6, <2>2
    <2> QED
      BY <2>1, <2>2
  <1> QED
    BY <1>5, <1>6, <1>7 DEF UInv, Traceless

\* to varpush,
LEMMA PushReturns ==
  ASSUME UInv, stack # <<>>, Top.kind = "push", NEW v \in Values \cup {NULL},
         Rebind(Top.name, v), stack' = Append(Popped, Local(Top.name)), OthersTyped'
  PROVE  UInv' /\ Traceless
  <1> DEFINE y == Top.name
             n == Len(stack)
  <1>1. y \in Names /\ n \in Nat /\ n \in 1 .. n /\ Top = stack[n] /\ stack \in Seq(Frame)
    BY TopIs DEF Frame, UInv, Stacked
  <1>2. PICK s, fr : s = Popped /\ fr = Local(y)
    OBVIOUS
  <1>3. Stacked(s) /\ Len(s) = n - 1 /\ \A i \in 1 .. (n - 1) : s[i] = stack[i]
    <2>1. 1 \in Nat /\ 1 <= Len(stack) /\ s = SubSeq(stack, 1, Len(stack) - 1)
      BY <1>1, <1>2 DEF Popped
    <2> QED
      BY <2>1, StackedDropped DEF UInv
  <1>4. fr \in Frame /\ fr.kind = "local" /\ fr.name = y /\ FrameTrue(fr)
        /\ Flags(fr) = Flags(vars[y])
    BY <1>1, <1>2, LocalTrue DEF UInv
  <1>5. stack' = Append(s, fr)
    BY <1>2
  <1>6. Stacked(stack')
    BY <1>3, <1>4, <1>5, StackedPushed
  <1>7. Mkvar(v) \in VarType /\ (Mkvar(v).defn = NULL => Mkvar(v) = Unset)
    BY MkvarRight
  <1>8. VarsTyped' /\ \A x \in Names : x # y => vars'[x] = vars[x]
    BY <1>1, <1>7, SetVarTyped DEF UInv, Rebind
  <1>9. ASSUME NEW x \in Names PROVE Untraced(x)
    <2>1. /\ s \in Seq(Frame) /\ Len(s) <= Len(stack)
          /\ \A i \in 1 .. Len(s) : s[i] = stack[i]
          /\ \A i \in 1 .. Len(stack) : i > Len(s) => stack[i].kind # "local"
      BY <1>1, <1>3 DEF Stacked
    <2> QED
      BY <1>1, <1>4, <1>5, <1>8, <2>1, BindingLeavesOuter DEF UInv
  <1> QED
    BY <1>6, <1>8, <1>9 DEF UInv, Traceless

\* and to varpop.
LEMMA PopReturns ==
  ASSUME UInv, stack # <<>>, Top.kind = "pop", NEW v \in Values \cup {NULL},
         Restore(stack[Len(stack) - 1], v), stack' = SubSeq(stack, 1, Len(stack) - 2),
         OthersTyped'
  PROVE  UInv' /\ Traceless
  <1> DEFINE n == Len(stack)
  <1>1. PICK fr : fr = stack[n - 1]
    OBVIOUS
  <1>2. /\ n \in Nat /\ n - 1 \in 1 .. n /\ Top = stack[n] /\ stack \in Seq(Frame)
        /\ IsFor(Top, fr) /\ Top \in Frame /\ FrameTrue(Top)
    BY <1>1, TopIs DEF UInv, Stacked
  <1> DEFINE y == fr.name
  <1>3. fr \in Frame /\ fr.kind = "local" /\ y \in Names /\ y \in Settable
    <2>1. fr \in Frame
      BY <1>1, <1>2
    <2>2. fr.kind = "local" /\ fr.name = Top.name
      BY <1>2 DEF IsFor
    <2>3. Top.name \in Settable
      BY <1>2 DEF FrameTrue
    <2> QED
      BY <2>1, <2>2, <2>3 DEF Frame
  <1>4. PICK r : r = IF v = NULL THEN Unset ELSE Var(v, NULL, fr.hasbindings, fr.internal)
    OBVIOUS
  <1>5. /\ r \in VarType /\ (r.defn = NULL => r = Unset)
        /\ r.internal = fr.internal \/ r.defn = NULL
    BY <1>3, <1>4, RestoreTyped
  <1>6. vars' = [vars EXCEPT ![y] = r]
    BY <1>1, <1>4 DEF Restore
  <1>7. VarsTyped' /\ vars'[y] = r /\ \A x \in Names : x # y => vars'[x] = vars[x]
    BY <1>3, <1>5, <1>6, SetVarTyped DEF UInv
  <1>8. Stacked(stack') /\ Len(stack') = n - 2 /\ \A i \in 1 .. (n - 2) : stack'[i] = stack[i]
    <2>1. 2 \in Nat /\ 2 <= Len(stack)
      BY <1>2
    <2> QED
      BY <1>2, <2>1, StackedDropped DEF UInv
  <1>9. ASSUME NEW x \in Names PROVE Untraced(x)
    <2> DEFINE m == n - 1
    <2>1. /\ m \in 1 .. Len(stack) /\ stack' \in Seq(Frame) /\ Len(stack') = m - 1
          /\ \A i \in 1 .. (m - 1) : stack'[i] = stack[i]
          /\ \A i \in 1 .. Len(stack) : i > m => stack[i].kind # "local"
          /\ stack[m] = fr
      BY <1>1, <1>2, <1>8 DEF Stacked
    <2> HIDE DEF m
    <2> QED
      BY <1>2, <1>3, <1>5, <1>7, <2>1, UnbindingLeavesOuter
  <1> QED
    BY <1>7, <1>8, <1>9 DEF UInv, Traceless

LEMMA SettorReturnsTraceless == ASSUME UInv, SettorReturns PROVE UInv' /\ Traceless
  <1>1. stack # <<>> /\ UNCHANGED <<lex, noexport, rebound, sortenv>>
    BY DEF SettorReturns
  <1>2. Top \in Frame
    BY <1>1, TopIs
  <1>3. PICK v \in {Top.defn} \cup Answers :
          \/ /\ Top.kind = "def"
             /\ Dirty(Top.name)
             /\ Define(Top.name, v)
             /\ stack' = Popped
          \/ /\ Top.kind = "push"
             /\ Rebind(Top.name, v)
             /\ stack' = Append(Popped, Local(Top.name))
             /\ UNCHANGED isdirty
          \/ /\ Top.kind = "pop"
             /\ Restore(stack[Len(stack) - 1], v)
             /\ stack' = SubSeq(stack, 1, Len(stack) - 2)
             /\ UNCHANGED isdirty
    BY Zenon DEF SettorReturns
  <1>4. v \in Values \cup {NULL}
    BY <1>2, EnvironmentAssumption DEF Frame
  <1>5. OthersTyped'
    <2>1. isdirty' \in BOOLEAN
      BY <1>3 DEF Dirty, UInv, OthersTyped
    <2> QED
      BY <1>1, <2>1 DEF UInv, OthersTyped
  <1> QED
    BY <1>1, <1>3, <1>4, <1>5, DefReturns, PushReturns, PopReturns

\* The other actions leave the stack alone, and the variables but for their lines.
LEMMA LinesOnly ==
  ASSUME UInv, stack' = stack, OthersTyped', vars' \in [Names -> VarType],
         \A x \in Names : Flags(vars'[x]) = Flags(vars[x]),
         \A x \in Names : vars'[x].defn = NULL => vars'[x] = Unset
  PROVE  UInv' /\ Traceless
  <1>1. VarsTyped'
    BY DEF VarsTyped, Unset, Var
  <1> QED
    BY <1>1, FlagsKept DEF UInv

LEMMA AssignLexicalTraceless ==
  ASSUME UInv, NEW c \in LexValues, AssignLexical(c) PROVE UInv' /\ Traceless
  <1>1. OthersTyped' /\ stack' = stack /\ vars' = vars
    BY DEF AssignLexical, UInv, OthersTyped
  <1> QED
    BY <1>1, LinesOnly DEF UInv, VarsTyped

LEMMA SetNoexportTraceless ==
  ASSUME UInv, NEW S \in HideSets, SetNoexport(S) PROVE UInv' /\ Traceless
  <1>1. S \subseteq Names
    BY EnvironmentAssumption
  <1>2. OthersTyped' /\ stack' = stack /\ vars' = vars
    BY <1>1 DEF SetNoexport, UInv, OthersTyped
  <1> QED
    BY <1>2, LinesOnly DEF UInv, VarsTyped

LEMMA CollectTraceless == ASSUME UInv, Collect PROVE UInv' /\ Traceless
  <1>1. OthersTyped' /\ stack' = stack
    BY DEF Collect, UInv, OthersTyped
  <1>2. ASSUME NEW x \in Names
        PROVE  /\ vars'[x] \in VarType
               /\ Flags(vars'[x]) = Flags(vars[x])
               /\ vars'[x].defn = NULL => vars'[x] = Unset
    <2>1. vars[x] \in VarType /\ (vars[x].defn = NULL => vars[x] = Unset)
      BY DEF UInv, VarsTyped
    <2>2. CASE vars[x].hasbindings
      <3>1. vars'[x] = [vars[x] EXCEPT !.env = NULL]
        BY <2>2 DEF Collect
      <3>2. vars'[x] \in VarType /\ vars'[x].defn = vars[x].defn
            /\ Flags(vars'[x]) = Flags(vars[x])
        BY <2>1, <3>1 DEF VarType, Flags
      <3>3. vars[x].defn # NULL
        BY <2>1, <2>2 DEF Unset, Var
      <3> QED
        BY <3>2, <3>3
    <2>3. CASE ~vars[x].hasbindings
      <3>1. vars'[x] = vars[x]
        BY <2>3 DEF Collect
      <3> QED
        BY <2>1, <3>1
    <2> QED
      BY <2>2, <2>3
  <1>3. vars' \in [Names -> VarType]
    BY <1>2 DEF Collect
  <1> QED
    BY <1>1, <1>2, <1>3, LinesOnly

LEMMA StartCommandTraceless == ASSUME UInv, StartCommand PROVE UInv' /\ Traceless
  <1>1. ASSUME NEW x \in Shown PROVE LineOf(x) \in Lines /\ x \in Names
    <2>1. x \in Names /\ vars[x].defn \in Values /\ vars[x] \in VarType
      BY DEF UInv, VarsTyped, Shown, VarType
    <2>2. Line(x, vars[x].defn) \in Lines
      BY <2>1, LineType, UInvShows
    <2> QED
      BY <2>1, <2>2 DEF LineOf, LineStale, VarType
  <1>2. sortenv' \subseteq Lines
    BY <1>1 DEF StartCommand, Mkenv, UInv, OthersTyped
  <1>3. OthersTyped' /\ stack' = stack
    BY <1>2 DEF StartCommand, UInv, OthersTyped
  <1>4. ASSUME NEW x \in Names
        PROVE  /\ vars'[x] \in VarType
               /\ Flags(vars'[x]) = Flags(vars[x])
               /\ vars'[x].defn = NULL => vars'[x] = Unset
    <2>1. vars[x] \in VarType /\ (vars[x].defn = NULL => vars[x] = Unset)
      BY DEF UInv, VarsTyped
    <2>2. CASE x \in Shown
      <3>1. vars'[x] = [vars[x] EXCEPT !.env = LineOf(x)] /\ vars[x].defn # NULL
        BY <2>2 DEF StartCommand, Shown
      <3>2. vars'[x] \in VarType /\ vars'[x].defn = vars[x].defn
            /\ Flags(vars'[x]) = Flags(vars[x])
        BY <1>1, <2>1, <2>2, <3>1 DEF VarType, Flags
      <3> QED
        BY <3>1, <3>2
    <2>3. CASE x \notin Shown
      <3>1. vars'[x] = vars[x]
        BY <2>3 DEF StartCommand
      <3> QED
        BY <2>1, <3>1
    <2> QED
      BY <2>2, <2>3
  <1>5. vars' \in [Names -> VarType]
    BY <1>4 DEF StartCommand
  <1> QED
    BY <1>3, <1>4, <1>5, LinesOnly

\* Every step keeps UInv and leaves no trace.
LEMMA NextTraceless == ASSUME UInv, [Next]_state PROVE UInv' /\ Traceless
  <1>1. CASE UNCHANGED state
    <2>1. OthersTyped' /\ stack' = stack /\ vars' = vars
      BY <1>1 DEF state, UInv, OthersTyped
    <2> QED
      BY <2>1, LinesOnly DEF UInv, VarsTyped
  <1>2. CASE \E x \in Names : \E v \in ValuesFor(x) : Assign(x, v) \/ EnterLocal(x, v)
    BY <1>2, AssignTraceless, EnterLocalTraceless
  <1>3. CASE \E c \in LexValues : AssignLexical(c)
    BY <1>3, AssignLexicalTraceless
  <1>4. CASE LeaveLocal
    BY <1>4, LeaveLocalTraceless
  <1>5. CASE SettorReturns
    BY <1>5, SettorReturnsTraceless
  <1>6. CASE SettorFails
    BY <1>6, SettorFailsTraceless
  <1>7. CASE \E S \in HideSets : SetNoexport(S)
    BY <1>7, SetNoexportTraceless
  <1>8. CASE Collect
    BY <1>8, CollectTraceless
  <1>9. CASE StartCommand
    BY <1>9, StartCommandTraceless
  <1> QED
    BY <1>1, <1>2, <1>3, <1>4, <1>5, <1>6, <1>7, <1>8, <1>9 DEF Next

\* UInv holds in every reachable state of any shell.
THEOREM UntamedInvariant == Spec => []UInv
  <1>1. UInv /\ [Next]_state => UInv'
    BY NextTraceless
  <1> QED
    BY InitUInv, <1>1, PTL DEF Spec

\* Every variable, cached line and frame of pushlist keeps its type, whatever the
\* settors run, return and hide; and a shell variable that is not set is `Unset'.
THEOREM TypesCorrect == Spec => []TypeOK
  BY UInvShows, UntamedInvariant, PTL

\* The assertions of varpop hold: a settor that varpop calls leaves the Push it is for
\* on top of pushlist, as it was saved, whatever it binds, runs or fails at.
THEOREM PushlistKept == Spec => []SettorsAbovePush
  BY UInvShows, UntamedInvariant, PTL

\* No step but an assignment outside every local of x changes what x will be again when
\* its outermost local is left: varpush and varpop, in any nesting, with settors that
\* return other values or fail, leave no trace.
THEOREM LocalsLeaveNone == Spec => LocalsLeaveNoTrace
  <1>1. UInv /\ [Next]_state => [\A x \in Names :
          \/ AssignsOutside(x)
          \/ /\ Outer(x).internal' = Outer(x).internal \/ Outer(x).defn' = NULL
             /\ x \notin Settable => Outer(x)' = Outer(x)]_state
    BY NextTraceless DEF Traceless, Untraced
  <1> QED
    BY <1>1, UntamedInvariant, PTL DEF Spec, LocalsLeaveNoTrace

=============================================================================
