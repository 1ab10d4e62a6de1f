------------------------------ MODULE Collector ------------------------------
(***************************************************************************)
(* The copying collector of gc.c, and allocation, as built by default (no  *)
(* GCPROTECT, GCALWAYS or GCVERBOSE).                                      *)
(*                                                                         *)
(* An address is a half of memory and the position of an object in it. An  *)
(* object knows its size, its fields, and the space of its half it lies    *)
(* in; id is the object's identity, which the program cannot see and which *)
(* moves with it. A collection is a step per root, and per field of each   *)
(* object that is scanned.                                                 *)
(***************************************************************************)
EXTENDS Integers, Sequences, FiniteSetsExt, SequencesExt

CONSTANTS
  Vars,          \* the program's variables that are roots
  RootList,      \* rootlist and then globalrootlist: a variable may be on both
  Ids,           \* identities, and the bound on the objects that can be reached
  Word,          \* sizeof (void *)
  MIN_minspace,
  Fields,        \* numbers of fields of the objects that have any, of a word each
  Sizes,         \* sizes of objects without fields
  Reserves,      \* what gcreserve is called with
  MaxSpaces,     \* bound: how many spaces malloc grants while collection is off
  MaxBlocked,    \* bound: nesting of gcdisable
  MaxOps,        \* bound: steps of the program
  NULL

ASSUME CollectorAssumption ==
  /\ RootList \in Seq(Vars) /\ Range(RootList) = Vars
  /\ NULL \notin Ids \cup Vars /\ NULL \notin {0, 1} \X Nat
  /\ Word \in Nat \ {0} /\ MIN_minspace \in Nat
  /\ Fields \cup Sizes \cup Reserves \subseteq Nat
  /\ MaxSpaces \in Nat /\ MaxBlocked \in Nat /\ MaxOps \in Nat

VARIABLES
  root,          \* what each variable refers to: NULL or an address
  new, old,      \* the objects of either half, in the order of allocation
  half,          \* the half that new is in
  spaces,        \* the list new, its head last: [size, used] of each
  minspace, gcblocked,
  pc,            \* run, alloc (in gcalloc), roots or scan (in gc), exited, torn
  req,           \* what gcalloc is asked for
  cursor,        \* how far gc has come
  late,          \* was an object put into a space that scanspace had left?
  ops            \* steps of the program so far

heap == <<new, old, half, spaces>>
vars == <<root, heap, minspace, gcblocked, pc, req, cursor, late, ops>>

ALIGN(n) == ((n + Word - 1) \div Word) * Word
Need(nbytes) == ALIGN(nbytes + Word)

Top(s) == s[Len(s)]
SPACEFREE(sp) == sp.size - sp.used
Newspace(m) == [size |-> ALIGN(m), used |-> 0]

NoReq == [var |-> NULL, nbytes |-> 0, fields |-> <<>>]
NoCursor == [root |-> 1, scanned |-> 0, front |-> 0, space |-> 0, at |-> 0, field |-> 1,
             after |-> "run"]

Addresses == {0, 1} \X Nat
Half(a) == IF a[1] = half THEN new ELSE old
Obj(a) == Half(a)[a[2]]
Exists(a) == a # NULL /\ a[2] \in DOMAIN Half(a)

\* TAG(p) of an object that was moved
Forwarded(o) == o.to # NULL

\* The sum of a sequence of numbers.
Total(s) ==
  LET sum[k \in 0 .. Len(s)] == IF k = 0 THEN 0 ELSE sum[k - 1] + s[k]
  IN sum[Len(s)]

(***************************************************************************)
(* Forwarding                                                              *)
(***************************************************************************)

Fits(ss, nbytes) == Need(nbytes) <= SPACEFREE(Top(ss))

\* Fault: minspace is only changed by gc.
RaisedNever(nbytes) == minspace

\* gcalloc: minspace after it has found no room
Raised(nbytes) == IF minspace < nbytes THEN nbytes + Word ELSE minspace

\* The spaces after an object has been put into the head.
Charged(ss, nbytes) == [ss EXCEPT ![Len(ss)].used = @ + Need(nbytes)]

\* isinspace(old, p)
InOld(p) == p # NULL /\ p[1] # half

\* forward: p is copied ...
Copies(p) == InOld(p) /\ ~Forwarded(Obj(p))

\* ... to the head of these spaces: gcalloc adds one if there is no room, as collection is
\* off ...
SpacesFor(p) ==
  IF Fits(spaces, Obj(p).nbytes) THEN spaces
  ELSE Append(spaces, Newspace(Raised(Obj(p).nbytes)))

\* ... and goes on adding them until malloc refuses if that is too small.
Refused(p) == Copies(p) /\ ~Fits(SpacesFor(p), Obj(p).nbytes)

\* forward returns the pointer if it is not into old, the address in the tag if the object
\* has been moved, and otherwise that of the copy.
Target(p) ==
  IF ~InOld(p) THEN p
  ELSE IF Forwarded(Obj(p)) THEN Obj(p).to
  ELSE <<half, Len(new) + 1>>

NewAfter(p) ==
  IF Copies(p) THEN Append(new, [Obj(p) EXCEPT !.space = Len(SpacesFor(p))]) ELSE new

\* scanspace has come past space s in the present pass.
Passed(s) == pc = "scan" /\ cursor.space < s /\ s <= cursor.front

\* What else forward changes; the tag of an object that is copied says where to.
Forward(p) ==
  /\ ~Refused(p)
  /\ IF Copies(p)
       THEN /\ spaces' = Charged(SpacesFor(p), Obj(p).nbytes)
            /\ minspace' = IF Fits(spaces, Obj(p).nbytes) THEN minspace
                           ELSE Raised(Obj(p).nbytes)
            /\ old' = [old EXCEPT ![p[2]].to = Target(p)]
            /\ late' = (late \/ Passed(Len(SpacesFor(p))))
       ELSE UNCHANGED <<spaces, minspace, old, late>>

\* gc, entry: collection is off, the spaces become old, and there is one new.
Start(after, blocked) ==
  /\ gcblocked' = blocked + 1
  /\ half' = 1 - half
  /\ old' = new /\ new' = <<>>
  /\ spaces' = <<Newspace(minspace')>>
  /\ cursor' = [NoCursor EXCEPT !.after = after]
  /\ late' = FALSE
  /\ pc' = "roots"
  /\ UNCHANGED root

\* scanroots, one root
ScanRoot ==
  /\ pc = "roots" /\ cursor.root <= Len(RootList)
  /\ LET v == RootList[cursor.root]
     IN /\ Forward(root[v])
        /\ root' = [root EXCEPT ![v] = Target(@)]
        /\ new' = NewAfter(root[v])
  /\ cursor' = [cursor EXCEPT !.root = @ + 1]
  /\ UNCHANGED <<half, gcblocked, pc, req, ops>>

\* scanspace: all that new holds is to be scanned, from its head on.
ScanStart ==
  /\ pc = "roots" /\ cursor.root > Len(RootList)
  /\ pc' = "scan"
  /\ cursor' = [cursor EXCEPT !.scanned = 0, !.front = Len(spaces), !.space = Len(spaces)]
  /\ UNCHANGED <<root, heap, minspace, gcblocked, req, late, ops>>

\* The objects of the space that is being scanned that are still to be scanned.
Ahead == {k \in DOMAIN new : new[k].space = cursor.space /\ k > cursor.at}
Here == CHOOSE k \in Ahead : \A l \in Ahead : k <= l

Scanning == pc = "scan" /\ cursor.space > cursor.scanned

\* The scan function of an object forwards its fields one after another.
ScanField ==
  /\ Scanning /\ Ahead # {} /\ cursor.field \in DOMAIN new[Here].fields
  /\ LET p == new[Here].fields[cursor.field]
     IN /\ Forward(p)
        /\ new' = [NewAfter(p) EXCEPT ![Here].fields[cursor.field] = Target(p)]
  /\ cursor' = [cursor EXCEPT !.field = @ + 1]
  /\ UNCHANGED <<root, half, gcblocked, pc, req, ops>>

\* The next object, that is, what comes after this one when it is scanned.
NextObject ==
  /\ Scanning /\ Ahead # {} /\ cursor.field \notin DOMAIN new[Here].fields
  /\ cursor' = [cursor EXCEPT !.at = Here, !.field = 1]
  /\ UNCHANGED <<root, heap, minspace, gcblocked, pc, req, late, ops>>

\* The next space of the list, up to those scanned before.
NextSpace ==
  /\ Scanning /\ Ahead = {}
  /\ cursor' = [cursor EXCEPT !.space = @ - 1, !.at = 0]
  /\ UNCHANGED <<root, heap, minspace, gcblocked, pc, req, late, ops>>

\* malloc refuses a space for a copy, and the shell exits.
CopyRefused ==
  /\ \/ pc = "roots" /\ cursor.root <= Len(RootList) /\ Refused(root[RootList[cursor.root]])
     \/ /\ Scanning /\ Ahead # {} /\ cursor.field \in DOMAIN new[Here].fields
        /\ Refused(new[Here].fields[cursor.field])
  /\ pc' = "exited"
  /\ UNCHANGED <<root, heap, minspace, gcblocked, req, cursor, late, ops>>

\* Fault: one pass is taken to be enough.
RescanNever == FALSE
\* Spaces have been put in front of the list meanwhile.
Grew == Len(spaces) # cursor.front

Rescan ==
  /\ pc = "scan" /\ cursor.space = cursor.scanned /\ Grew
  /\ cursor' = [cursor EXCEPT !.scanned = cursor.front, !.front = Len(spaces),
                              !.space = Len(spaces), !.at = 0]
  /\ UNCHANGED <<root, heap, minspace, gcblocked, pc, req, late, ops>>

\* The new value of minspace after a collection, by the data that is alive.
Adapted(m, livedata) ==
  IF m < livedata * 2 THEN livedata * 4
  ELSE IF m > livedata * 12 /\ m > MIN_minspace * 2 THEN m \div 2
  ELSE m

Livedata == Total([k \in DOMAIN spaces |-> spaces[k].used])

ScanOver == pc = "scan" /\ cursor.space = cursor.scanned /\ ~Grew

\* An object of new refers to one of old, which is about to be freed.
Dangling == \E k \in DOMAIN new : \E f \in DOMAIN new[k].fields : InOld(new[k].fields[f])

\* The old spaces are freed. If there is more than one new space, gc goes round.
Finish ==
  /\ ScanOver /\ ~Dangling
  /\ minspace' = Adapted(minspace, Livedata)
  /\ IF Len(spaces) > 1
       THEN Start(cursor.after, gcblocked - 1)
       ELSE /\ old' = <<>>
            /\ gcblocked' = gcblocked - 1
            /\ pc' = cursor.after /\ cursor' = NoCursor
            /\ UNCHANGED <<root, new, half, spaces, late>>
  /\ UNCHANGED <<req, ops>>

\* They are freed although they are referred to: the model stops here.
Tear ==
  /\ ScanOver /\ Dangling
  /\ old' = <<>> /\ pc' = "torn"
  /\ UNCHANGED <<root, new, half, spaces, minspace, gcblocked, req, cursor, late, ops>>

(***************************************************************************)
(* The program                                                             *)
(***************************************************************************)

\* The references between the objects n of the new half and o of the old.
Graph(n, o) ==
  [a \in ({half} \X DOMAIN n) \cup ({1 - half} \X DOMAIN o) |->
     Range((IF a[1] = half THEN n ELSE o)[a[2]].fields) \ {NULL}]

\* What can be reached in the graph g from the addresses S: what lies in every
\* set that holds them and is closed.
ReachFrom(S, g) ==
  LET from == S \ {NULL}
      more == (UNION {g[a] : a \in DOMAIN g}) \ from
      closed(T) == \A a \in T \cap DOMAIN g : g[a] \subseteq T
  IN from \cup {b \in more : \A T \in SUBSET more : closed(from \cup T) => b \in T}

Reach == ReachFrom(Range(root), Graph(new, old))

\* The program is left with the variables r and the objects n. What it cannot
\* reach it cannot look at either: only the room it takes is kept.
Becomes(r, n) ==
  LET kept == ReachFrom(Range(r), Graph(n, <<>>))
  IN /\ root' = r
     /\ new' = [k \in DOMAIN n |->
           IF <<half, k>> \in kept THEN n[k] ELSE [n[k] EXCEPT !.id = NULL, !.fields = <<>>]]
     /\ UNCHANGED <<old, half, minspace, gcblocked, cursor, late>>

\* A step of the program, and one that leaves the spaces alone.
Step == pc = "run" /\ ops < MaxOps /\ ops' = ops + 1
Running == Step /\ UNCHANGED <<pc, req, spaces>>

Unused == Ids \ {Obj(a).id : a \in Reach}

\* gcalloc has found room, and the caller fills the object in, from variables
\* that are roots.
Place(rq) ==
  LET o == [id |-> CHOOSE id \in Unused : TRUE, nbytes |-> rq.nbytes, space |-> Len(spaces),
            to |-> NULL, fields |-> [k \in DOMAIN rq.fields |->
                          IF rq.fields[k] = NULL THEN NULL ELSE root[rq.fields[k]]]]
  IN /\ Becomes([root EXCEPT ![rq.var] = <<half, Len(new) + 1>>], Append(new, o))
     /\ spaces' = Charged(spaces, rq.nbytes)
     /\ pc' = "run" /\ req' = NoReq

\* gcalloc, entry
Gcalloc(v, nbytes, fields) ==
  /\ Step /\ Unused # {}
  /\ gcblocked > 0 => Len(spaces) < MaxSpaces
  /\ LET rq == [var |-> v, nbytes |-> nbytes, fields |-> fields]
     IN IF Fits(spaces, nbytes) THEN Place(rq)
        ELSE /\ req' = rq /\ pc' = "alloc"
             /\ UNCHANGED <<root, heap, minspace, gcblocked, cursor, late>>

\* A further attempt finds room.
AllocPlace == pc = "alloc" /\ Fits(spaces, req.nbytes) /\ Place(req) /\ ops' = ops

\* It does not: a further space if collection is off; malloc may refuse.
AllocExtend ==
  /\ pc = "alloc" /\ ~Fits(spaces, req.nbytes) /\ gcblocked > 0
  /\ minspace' = Raised(req.nbytes)
  /\ IF Len(spaces) < MaxSpaces
       THEN spaces' = Append(spaces, Newspace(minspace')) /\ pc' = pc
       ELSE pc' = "exited" /\ UNCHANGED spaces
  /\ UNCHANGED <<root, new, old, half, gcblocked, req, cursor, late, ops>>

\* Otherwise a collection, and then another attempt.
AllocCollect ==
  /\ pc = "alloc" /\ ~Fits(spaces, req.nbytes) /\ gcblocked = 0
  /\ minspace' = Raised(req.nbytes)
  /\ Start("alloc", 0) /\ UNCHANGED <<req, ops>>

Gcdisable ==
  /\ Step /\ gcblocked < MaxBlocked
  /\ gcblocked' = gcblocked + 1
  /\ UNCHANGED <<root, heap, minspace, pc, req, cursor, late>>

\* Fault: what was put off is forgotten.
OwedNever == FALSE
\* Spaces were added while collection was off.
Owed == Len(spaces) > 1

Gcenable ==
  /\ Step /\ gcblocked > 0 /\ req' = req
  /\ IF gcblocked = 1 /\ Owed
       THEN minspace' = minspace /\ Start("run", 0)
       ELSE gcblocked' = gcblocked - 1 /\ UNCHANGED <<root, heap, minspace, pc, cursor, late>>

\* gcreserve: minspace is raised even if collection is off.
Gcreserve(minfree) ==
  /\ Step /\ SPACEFREE(Top(spaces)) < minfree /\ req' = req
  /\ minspace' = IF minspace < minfree THEN minfree ELSE minspace
  /\ IF gcblocked = 0 THEN Start("run", 0)
     ELSE UNCHANGED <<root, heap, gcblocked, pc, cursor, late>>

Assign(v, p) ==
  /\ Running /\ root[v] # p
  /\ Becomes([root EXCEPT ![v] = p], new)

Load(v, w, k) ==
  /\ root[w] # NULL /\ k \in DOMAIN Obj(root[w]).fields
  /\ Assign(v, Obj(root[w]).fields[k])

Store(v, k, w) ==
  /\ Running
  /\ root[v] # NULL /\ k \in DOMAIN Obj(root[v]).fields
  /\ Becomes(root, [new EXCEPT ![root[v][2]].fields[k] = root[w]])

(***************************************************************************)
(* The specification                                                       *)
(***************************************************************************)

Init ==
  /\ root = [v \in Vars |-> NULL]
  /\ new = <<>> /\ old = <<>> /\ half = 0
  /\ minspace = MIN_minspace /\ spaces = <<Newspace(MIN_minspace)>>
  /\ gcblocked = 0 /\ pc = "run" /\ req = NoReq /\ cursor = NoCursor
  /\ late = FALSE /\ ops = 0

\* What gc and gcalloc do once they are called.
Collector ==
  \/ ScanRoot \/ ScanStart \/ ScanField \/ NextObject \/ NextSpace \/ CopyRefused
  \/ Rescan \/ Finish \/ Tear
  \/ AllocPlace \/ AllocExtend \/ AllocCollect

Next ==
  \/ Collector \/ Gcdisable \/ Gcenable
  \/ \E n \in Reserves : Gcreserve(n)
  \/ \E v, w \in Vars :
       \/ \E n \in Sizes : Gcalloc(v, n, <<>>)
       \/ \E n \in Fields : Gcalloc(v, n * Word, [k \in 1 .. n |-> IF k = 1 THEN w ELSE NULL])
       \/ \E k \in UNION {1 .. n : n \in Fields} : Store(v, k, w) \/ Load(v, w, k)
       \/ Assign(v, root[w]) \/ Assign(v, NULL)
  \/ (pc \in {"exited", "torn"} \/ (pc = "run" /\ ops = MaxOps)) /\ UNCHANGED vars

Spec == Init /\ [][Next]_vars /\ WF_vars(Collector)

(***************************************************************************)
(* Properties                                                              *)
(***************************************************************************)

Pointers == Addresses \cup {NULL}
Object == [id : Ids \cup {NULL}, nbytes : Nat, space : Nat, to : Pointers,
           fields : Seq(Pointers)]
Space == [size : Nat, used : Nat]
Request == [var : Vars \cup {NULL}, nbytes : Nat, fields : Seq(Vars \cup {NULL})]
Cursor == [root : Nat \ {0}, scanned : Nat, front : Nat, space : Nat, at : Nat,
           field : Nat \ {0}, after : {"run", "alloc"}]

TypeOK ==
  /\ root \in [Vars -> Pointers]
  /\ new \in Seq(Object) /\ old \in Seq(Object) /\ half \in {0, 1}
  /\ spaces \in Seq(Space) /\ minspace \in Nat /\ gcblocked \in 0 .. MaxBlocked + 1
  /\ pc \in {"run", "alloc", "roots", "scan", "exited", "torn"}
  /\ req \in Request /\ cursor \in Cursor /\ late \in BOOLEAN /\ ops \in 0 .. MaxOps

\* When no collection is under way nothing that can be reached lies in the
\* half that was freed, no object is there twice, no space is overrun, and a
\* chain of spaces is left only while collection is off.
HeapSound ==
  pc \in {"run", "alloc"} =>
    /\ \A a \in Reach : Exists(a) /\ a[1] = half /\ ~Forwarded(Obj(a))
    /\ \A a, b \in Reach : Obj(a).id = Obj(b).id => a = b
    /\ old = <<>>
    /\ \A k \in DOMAIN spaces : spaces[k].used <= spaces[k].size
    /\ Livedata = Total([k \in DOMAIN new |-> Need(new[k].nbytes)])
    /\ gcblocked = 0 => Len(spaces) = 1
\* With it, every variable has its type, during a collection too.
SpacesSound == TypeOK /\ HeapSound

\* During a collection a pointer to an object that was moved means its copy.
Now(p) == IF Exists(p) /\ Forwarded(Obj(p)) THEN Obj(p).to ELSE p
IdOf(p) == IF Exists(p) THEN Obj(p).id ELSE NULL
NowReach == {Now(a) : a \in {a \in Reach : Exists(a)}}

\* What the program could find out: the objects that its variables and their
\* fields refer to, by identity.
Seen ==
  [vars |-> [v \in Vars |-> IdOf(root[v])],
   objects |-> {[id |-> Obj(a).id, nbytes |-> Obj(a).nbytes,
                 fields |-> [k \in DOMAIN Obj(a).fields |-> IdOf(Obj(a).fields[k])]] :
                  a \in NowReach}]

\* Moving is invisible: no step of a collection, and no attempt of gcalloc,
\* changes what the program sees, whatever refers to what and however the
\* spaces fill up; unless an object was copied to a space that scanspace had left.
MovingInvisible ==
  [][pc # "run" /\ ~(pc = "alloc" /\ pc' = "run") /\ ~(pc' = "torn" /\ late)
       => Seen' = Seen]_vars

\* "scan new space until it is up to date": nothing in new refers to old when it is freed.
UpToDate == ScanOver => ~Dangling

\* No space of minspace bytes has room for the object, although its size is
\* not above minspace: gcalloc counts the tag only after it has compared.
TooSmall(n) == n <= minspace /\ Need(n) > ALIGN(minspace)
\* This is so of the request or of an object that is to be copied; or the
\* request has no room in such a space beside what is alive.
Cramped ==
  \/ TooSmall(req.nbytes)
  \/ \E s \in {new, old} : \E k \in DOMAIN s : TooSmall(s[k].nbytes)
  \/ /\ pc = "alloc" /\ gcblocked = 0 /\ req.nbytes <= minspace
     /\ Need(req.nbytes) + FoldSet(LAMBDA a, n : Need(Obj(a).nbytes) + n, 0, Reach)
          > ALIGN(minspace)

\* gcalloc and gc return, after a few collections at most, unless cramped ...
AllocationEndsUnlessCramped == pc # "run" ~> pc \in {"run", "torn"} \/ Cramped
\* ... and so they do whatever is asked for. They do not: minspace is raised
\* only for a request above it, and for live data above half of it.
AllocationEnds == pc # "run" ~> pc = "run"

=============================================================================
