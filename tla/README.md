# A verification project for nxes

nxes is an extensible shell in the line of `es`: commands are values, control
flow and redirection are functions written over primitives, and exceptions do
the work that exit codes do elsewhere.  This directory holds TLA+ modules that
model parts of it, TLC configurations that check them on small instances, and
theorems checked by TLAPS.  All line numbers refer to the C files of this
repository.

## 1. The system

| part | state | operations | what makes it correct |
|---|---|---|---|
| redirection (`fd.c`, `prim-io.c`) | kernel descriptor table, `deftab`, the registered list | `redir` over open, dup, close; `undefer`, `fdmap`, `releasefd`, `closefds` | a command sees the innermost redirection of each number and nothing of the shell's own; leaving restores |
| input sources (`input.c`) | stack of `Input`s, their buffers, `historyfd` | `runfd`, `runstring`, `fill` routines, unget, `loghistory` | each byte is read once, by the right reader; descriptors are closed once |
| children (`proc.c`) | list of `Proc`s | `efork`, `ewait`, `reap`, `dowait` | every child is waited for once, with its own status |
| variables (`var.c`) | dictionary of `Var`s, `pushlist`, `noexport`, `isdirty`, `rebound`, the cached environment | `vardef`, `varpush`, `varpop`, settors, `mkenv` | a command receives the present values; a local leaves no trace |
| exceptions (`except.c`) | handler chain, `pushlist`, root list | `throw`, `fail`, handlers, `newchildcatcher` | the innermost handler gets the exception with the locals undone |
| signals (`signal.c`, `util.c`) | `caught`, `sigcount`, `sigeffect`, `blocked`, `slow`, `interrupted` | `catcher`, `sigchk`, `esignal`, blocking, `eread`, `ewrite` | no signal is lost or delivered twice; none while a catcher runs |
| control primitives (`prim-ctl.c`) | none of their own | `catch`, `throw`, `forever`, `if`, `seq` | blocking balances, retry starts again |
| evaluation (`eval.c`, `closure.c`) | C stack, bindings | `eval`, binding, `forkexec` | lexical scope; external commands through fork and wait |
| pipelines, substitution (`prim-io.c`) | pipes, child ids | `pipe`, `here`, `backquote`, `readfrom`, `writeto` | data reaches its reader, which sees the end of it |
| dictionaries (`dict.c`) | open addressing table | `dictput`, `dictget`, `dictforall` | a finite map |
| lists, words (`list.c`, `split.c`, `glom.c`, `match.c`, `glob.c`) | none | splitting, concatenation, subscripts, patterns | what the manual says they compute |
| here documents (`heredoc.c`) | queue of markers | queue, read | each document goes to its marker |
| collector (`gc.c`) | spaces, root list, disable count | `gcalloc`, `gc`, `gcdisable`, `gcenable` | the object graph is kept |
| parser, lexer (`parse.y`, `token.c`, `syntax.c`, `tree.c`) | lexer statics, lookahead, the tree so far | `yylex`, `parse`, tree rewriting | the tree tells the shell to do what was written |
| printing, conversion (`print.c`, `conv.c`, `closure.c`) | format buffers | `print` and its conversions, `extractbindings` | what is printed is read as the same thing |
| startup (`main.c`, `opt.c`, `dump.c`, `initial.es`) | option flags | `main` | order of initialisation |

How they meet:

* `redir` enters a scope through `pushdefer` and leaves it through `undefer`, on
  return and from its exception handler.  Nothing touches the shell's own
  descriptors 0, 1, 2; the scopes are applied by `closefds`, which `efork` calls
  in a child, or in the shell itself when it is about to exec.
* `Input`s and the history file hold descriptors and are on the same registered
  list as the deferrals, because a user may name the number they sit on.
* `forkexec` asks `mkenv` for the environment in the parent, forks, and waits
  with `ewait`; `catcher` may interrupt that wait by a long jump.
* `varpush` and `varpop` run settors, which are shell code, so that everything
  else may happen inside them; `throw` pops locals, so it runs settors too.
* A function goes to a child as text: `mkenv` prints its closure by `conv.c`, the
  child imports it and reads it back with the lexer and the parser.
* `eval` makes words of trees with `glom`, which keeps their quoting for `glob`
  and `match`.
* Everything is allocated by `gcalloc`, which may move all that is alive; `parse`
  and the list code switch it off while they hold bare pointers.

Hard behaviours: the order in which deferrals over shared numbers are applied;
registered addresses that move when `deftab` grows; failures in the middle of
a move; signals against `wait3`, reads, writes and `sigchk` itself; ids that come
back; two caches kept true by flags that many operations must set in the right
order; settors that run, fail, or start commands in the middle of an operation;
objects that move while spaces are added; text that must mean the same to a
printer and a lexer; quoting kept beside words.  `PROJECT.json` lists them as
hazards with their lines.  Some of them are faults that the code has.  No property
that holds can catch those: it excludes or bounds them, the note of the hazard says
so, and section 4 names the configuration that shows the fault.

## 2. Plan

Done, in this order:

1. `FileTable`, `RedirScopes`, `Redirect`: descriptors and redirection, with the
   abstract scopes they implement; `RedirectProofs`.
2. `Children`: the process list and waiting under signals.
3. `Environment` and `EnvironmentProofs`.
4. `Exceptions`: the handler chain over `pushlist`, `catch` and retry, blocking,
   the depth limit, forks.
5. `Pipeline`: pipe ends held by several processes, end of file, order of waits.
6. `Signals`: `catcher` against everything else, at the grain of loads and stores.
7. `DictMap` and `Dictionary`: the hash tables, and the map they implement.
8. `Collector`: the copying collector and allocation.
9. `Matching`, `Patterns`, `MatchJobs`, `Globbing`, `WordBuilding`, `Splitting`, `Words`:
   from trees and text to words, against reference definitions.
10. `Syntax`, `Lexer`, `Grammar`, `Printing`, `Language`: from text to trees and
    back.
11. `SignalsProofs`, `ChildrenProofs`, `ExceptionsProofs`, and in `RedirectProofs`
    the owners of descriptors, `fdmap` and the refinement of the scopes.
12. `DataProofs`: the searches of dictionaries, the refinement of `DictMap`, what a
    split returns, and what `~` and `~~` find.
13. `PipelineProofs`: the shell's descriptors, and those of every command.
14. In `EnvironmentProofs`, what locals leave behind, in any shell.
15. `CollectorProofs`: the object graph through a collection.

Left:

* code: `here`, `readfrom` and `writeto`; settors that return closures.

## 3. What is modelled

### FileTable, RedirScopes, Redirect

`FileTable` is the kernel's table of one process: a function from numbers to
open files or `Closed`, with the lowest-free rule of `open` and `dup`, and
`mvfd`.  `Redirect` is the code.  `fdt` is that table; `deftab`, `defmax` and
`historyfd` are the variables of that name; `reserved` is the set of addresses
on the registered list, with an address of a `deftab` entry written as the
allocation and the index, so that an entry that moves has a new address;
`frames` is the C stack as far as it holds a ticket (`redir`) or an `Input`
(`runfd`).

| action | code |
|---|---|
| `OpenFile`, `DupFd`, `CloseUser` | the three `redir_` functions with `redir` and `pushdefer`; `Defer` in the parent, `MoveNow` and `MoveFails` when `eval_inchild` is set |
| `LeaveRedir` | `undefer`, on return or by exception |
| `Dot`, `EndOfInput`, `LeaveDot` | `runfd`, `fdfill` at end of file, `fdcleanup` |
| `LogHistory`, `SetHistory` | `loghistory`, `sethistory` |
| `Fork`, `Exec` | `efork(TRUE)` in the child, `efork(FALSE)` |
| `RemapOne`, `CloseReserved` | one turn of `remapfds`; the rest of `closefds` |

The model follows one process: `Fork` goes on as the child, since the parent's
table is not changed by it.  `eval_inchild` is a free choice at each redirection
because `exec` sets it in any scope.  When `remapfds` fails the child is in the
parent's C stack with the parent's handlers; the model stops there (`torn`), and
`Exceptions` goes on from it.  That a scope that was entered is left again by
return or exception is assumed here and shown there (`CleanupExact`), except
after a settor has failed while `throw` unwinds.

`RedirScopes` is what is promised: a base table and a stack of scopes; the view
of a number is the innermost scope that names it.  The refinement mapping hides
the shell's own numbers from the base and reads the scopes off `deftab`;
`RemapOne` settles the outermost scope (one that a number beyond the table has
is settled only if it closes it), and the moves that `releasefd` makes are
stutters.

### Children

`heap`, `allocated` and `proclist` are the list, links included; `kernel` and
`exitStatus` are the kernel's side.  `dowait` is cut at each point where a
signal makes a difference (`Enter`, `Arm`, `Test`, `Wait3`, `Back`, `Jumped`)
and `Signal` is `catcher`, which moves the shell to `Jumped` whenever `slow` is
set.  `owed` and `lost` are history: what the shell has not been told of yet,
and what a signal threw away.

### Environment

`vars` holds one `Var` per name with its value, its cached line and its two
flags; `stack` is `pushlist` with the settors in progress on it.  `Assign`,
`EnterLocal` and `LeaveLocal` are `vardef`, `varpush` and `varpop` up to their
settor, if there is one; `SettorReturns` is the rest of them, `SettorFails` the
exception.  Between the two any action may happen: that is a settor's body.
`StartCommand` is `mkenv`, `Collect` is `VarScan`.  A closure value stands for
any value that has captured the one lexical variable, and its line shows the
captured value.

### Exceptions

`frames` is the C stack, as far as a frame holds a `Handler`, a `Push`, a depth
or a throw in progress; pointers are positions in it.  `EnterEval`,
`EnterLambda`, `EnterScope`, `EnterLocal` and the `Leave` actions are the
constructs, in any order a shell program may nest them.  `EnterScope` is the
handler of `forloop`, `prim_batchloop`, `redir`, `runinput` and the body of
`prim_catch`.  `Throw` and `SigChk` raise; `Unwind` is one turn of the loop in
`throw`, which may call a settor on top of the frames to be left; `CatchOwn`,
`CatchBody`, `Retry`, `PassOn` and `Uncaught` are the jump together with the
`CatchException` part of the handler it goes to.  `Fork` goes on in the process
that `efork` prepares, child or shell; `ForkFails` is an efork whose `closefds`
throws.  `blocked`, `defcount` and `input` are kept only as far as the handlers
change them.  Exceptions are members of a small set: those that some construct
takes as its own, and `error` for the rest.  A pending signal needs no state,
since it may come at any time; only `blocked` decides when it is raised.

### Pipeline

The shell and its children are processes with a table each; a pipe is two open
files, `ReadEnd(k)` and `WriteEnd(k)`, and a count of the items in it.  `Fork`
and `CloseEnds` are one turn of the loop in `prim_pipe`, `Wait` one turn of the
loop after it; with `quoted` set the same actions are `prim_backquote`, and
`ReadBack` is `bqinput`.  A child is set up in one action, since its table is
its own: `Remapped` is `closefds` with the numbers that are registered at that
moment, `InMoved` and `OutMoved` are the moves that follow.  `Read`, `Write`,
`Finish` and `Quit` are external: what any command may do with the two numbers
it was given, and what the kernel answers.  `PipeFails` and `ForkFails` are the two
calls that may fail; the exception leaves the construct at once (`failed`), with
`inpipe` and `p` still open and the commands forked so far still running.  `ReadFails`
is the end of `bqinput` by a read error, which closes the end it read, or by a signal
that its `SIGCHK` throws, which does not; it is not fair, as the other two are not.

### Signals

One thread of control (`pc`, with `idx` and `reg` for the locals of `sigchk`) and
a stack `frames` of calls of `catcher`, which may begin between any two steps of
that thread and of each other, since `sa_mask` is empty.  `++sigcount` and
`--sigcount` are a load and a store.  `CatchMark`, `CatchLoad`, `CatchStore` and
`CatchLeave` are `catcher`; `Sigchk`, `Scan`, `CountDown` and `Take` are `sigchk`;
`CallRead`, `CallWrite`, `Arm`, `SetSlow`, `Test`, `ReadReturns`, `WriteReturns`,
`WriteFails`, `WriteMore` and `EndSlow` are `eread` and `ewrite`; `SetSignals`,
`Fork` and `SetDefaults` are the changes of effects.  `Arrive` and `Deliver` are
the kernel.  `outcome` says how the last call ended, and by what right.

### Dictionary

`dict` is the table, its size and `remain`; `hash` is any function on the names
used.  The one action is `dictput` (a `NULL` value removes), in which `Put`,
`Grown` and `Rm` are `put`, its growth and `rm`.  `dictget` and `dictget2` are
operators.  `DictMap` is the map that `dictput` promises; the mapping reads it off
the slots, whatever order they were filled in.

### Collector

Memory is two halves of objects in order of allocation; an address is a half and
a position, so that moving an object changes every address of it.  `spaces` is
the list that `new` heads, by size and room used, and an object knows which of
them it lies in; a tag that was replaced by a forwarding address is `to`.
`ScanRoot` is one root of `scanroots`; `ScanStart`, `ScanField`, `NextObject`,
`NextSpace` and `Rescan` are the loops of `scanspace`, one field at a time, with
`cursor` for its locals; `Finish` is the rest of `gc`.  `Forward` is `forward`,
with the copy and its allocation, which may add a space; where none can be had
the shell exits (`CopyRefused`).  `AllocPlace`, `AllocExtend` and `AllocCollect`
are the branches of the loop in `gcalloc`; `Gcdisable`, `Gcenable` and
`Gcreserve` are the functions of that name.  `Gcalloc`, `Load`, `Store` and
`Assign` are the program.

A pass of `scanspace` goes from the newest space to those scanned before, and
the last pass is one in which no space was added.  A copy made meanwhile goes to
the newest space, which from the second pass on may have been scanned already:
such an object is never scanned.  `late` remembers that one was put there.  If
one of its fields refers to `old` when `old` is freed, the model stops (`Tear`),
since what the program does from there is undefined; this is what the run
`collector_late` finds.  `id` is the identity of an object, which only the
properties see; garbage loses it together with its fields and keeps its room.

### Words

`Matching` has `match`, `listmatch` and the extractions over strings with their
quoting.  The recursion of the code is on what is left of pattern, quoting and
subject, so `ClassScan`, `MatchFrom` and `Extract` are tables over the positions in
them.  `Patterns` says what a pattern is: a sequence of items, each a set of
characters or a star, that can be laid on a subject by cutting it.  `MatchJobs` tries
patterns on subjects and says what the answers should be; it is a specification of
its own (`MatchSpec`), whose step `RunMatches` takes within `Words`.  `Globbing` has `glob.c` over a small file system, with
directories that cannot be read.  `WordBuilding` has `glom.c` with the list
functions it uses: `glom1` returns words, `glom2` words and their quoting.
`Splitting` has `split.c` with its statics, and is a specification of its own
(`SplitSpec`) whose steps `RunSplits` takes within `Words`; its actions `StartSplit`,
`Feed` and `EndSplit` are the calls, and `Abandon` is an exception between two of
them, which leaves the statics as they are.
`Words` puts a job to one of them and keeps the answer in `out`; beside it stands
what the answer should be: `Expanded` for path names, `Meaning` for trees.

### Language

`Syntax` has the trees of `tree.c` and the rewriting of `syntax.c`; a destructive
change is a new tree, since no two trees share cells there but the placeholder and
the markers of here documents, which have numbers.  `Lexer` has `yylex` and the
here documents over the characters not read yet and the three statics that
outlive a token.  `Grammar` has one operator per nonterminal of `parse.y`, by
descent: `read` reads what a nonterminal stands for, `cmd` and `infix` climb the
precedences that the grammar declares, and `Look` is
the lookahead, which yacc reads only where a production needs it.  A here document
without a literal marker makes an `errornode`: as the outermost redirection it ends the
parse (`redirected`), inside another one the line is read to its end.  `Printing` has
`conv.c`, the closures that `closure.c` reads back, and the import of values and
names from the environment.

`Language` poses jobs.  A command is written out as text together with what it
means, as a record (`Write` and `Means`), and `Mean` reads a tree back the way
`eval` and `initial.es` act on it: `%seq` and `%pipe` are taken apart again,
wrappers like `%create` are redirections of a command.  Comparing the two is
independent of `syntax.c`.  `NextLine` gives the parser one line after another
with what the last left in the statics.

## 4. Runs

| run | states | result | shows |
|---|---|---|---|
| `redirect` | 969,022 | holds | descriptors and deferrals, with one fork and one exec, implement a stack of scopes; user and shell never get each other's descriptors |
| `children` | 451,378 | holds | the process list stays true to the kernel whatever signals interrupt, each status goes to its own child, each wait ends |
| `environment` | 1,469,524 | holds | a command gets the present values, through locals, settors, hiding, captured bindings, collections and failures; a local leaves no trace |
| `exceptions` | 676,425 | holds | handlers, locals, blocking, deferrals, inputs and depth balance over any nesting, unless a settor fails while `throw` unwinds |
| `pipeline` | 392,858 | holds | the commands of a pipeline have their ends of the pipes and nothing more, nobody waits for ever, statuses come in order |
| `signals` | 270,969 | holds | signals at every step of the bookkeeping: no read past `caught`, no jump to a dead frame, none forgotten that comes apart from others, all taken in the end |
| `dictionary` | 66,316 | holds | whatever collides, is removed and grows, the table is a map and its searches end |
| `collector` | 387,968 | holds | moving cannot be seen by the program, whatever the graph and the spaces, unless an object came late; allocations end unless the space is cramped |
| `collector_late` | – | violated | a late object still refers to the old half when it is freed |
| `collector_ends` | – | violated | allocations do not end when it is: a request can be repeated without `minspace` ever growing |
| `words` | 121,649 | holds | matching, extraction, path names, word building, subscripts and splits agree with what patterns, trees and separators mean |
| `language` | 41,290 | holds | commands are parsed to what was written; trees, words, names, values and closures are read back as they were; lines do not touch each other |

More configurations are kept that are not listed as runs.  Each shows what the
code does not keep to; where one names several properties, TLC stops at the first,
and each fails when it is checked alone:

| configuration (module) | fails | because |
|---|---|---|
| `RedirectDoubts.cfg` (`Redirect`) | `FdMapAgrees` | `fdmap` goes on past its match |
| | `ViewKept` | shell descriptors below 3 stay open in children |
| `ChildrenDoubts.cfg` (`Children`) | `NeverDenied` | a reused id breaks the list; without reuse (`Recycle` false), a signal after `wait3` loses a child |
| `EnvironmentDoubts.cfg` (`MCEnvironment`) | `EnvironmentTrue` | a command started by a settor leaves the environment stale (`Commanding`); with `Commanding` false and without settors, the line of an unexported variable outlives a rebinding (`HideSets`) |
| `ExceptionsDoubts.cfg` (`Exceptions`) | `HandlerFound` | a settor that fails whenever `throw` pops its variable uses up every handler, and the assertion of `throw` fails |
| | `ChildContained` | a child goes on in its parent's frames |
| `PipelineDoubts.cfg` (`MCPipeline`) | `StageTables` | a redirection around a pipeline can cut off its last command |
| | `FailureRestores`, `CommandsEnd` | a fork that fails leaves ends of pipes in the shell, so that a command that was forked may wait for ever to write |
| `SignalsDoubts.cfg` (`MCSignals`) | `NoopIgnored`, `SignalsWake` | a signal that is ignored by a slash cuts a write short; one just before `eread` does not wake it |
| | `MaskRestored` | without `sigsetjmp` the mask is not put back by the jump out of `catcher` |
| `WordsDoubts.cfg` (`MCWords`) | `ExtractionNeverAborts`, `ClassesAsInEd`, `CountsFromOne` | two stars at the end of a subject, classes that begin with `]-`, the name `$00` |
| `LanguageDoubts.cfg` (`MCLanguage`) | `ParsesAsWritten` | two here documents on a line are swapped |
| | `EncodingsUndone` | two separators in a row in a value; a newline in a closure's binding |
| | `EachLineAlone` | an error at the newline itself drops the next line |
| | `PrintsBackAlways` | keywords as unquoted words, unprintable names, subscripts of computed names |
| | `LexerFresh` | `dollar` outlives a parse that a signal cut off |
| | `NeverAsserts` | `<{a}~ a` fails an assertion of `treeappend` |
| | `NamesFit` | the name buffer of `initenv` grows one step late |

Some more was met and is in no configuration: the numbers in escapes (`\400`) and
in `>[2=4294967295]` wrap without an error; `Nconv` takes a `__` at the end of a
name together with the terminating zero; `getherevar` and `snarfheredoc` use or
free a buffer that was freed; `glob1` ends the quoting of a component with no zero, so
that a class which is still open at a final `-` is read with flags of an earlier
component (`PathPatternsAssumption` excludes such patterns); a redirection in front of a pipeline applies to all
of it; in `>{b} >x a` the second redirection loses the argument that the first
adds.

Bounds, and why they are enough:

* `Redirect.cfg`: ten descriptors; user numbers 0, 4 (which the shell also
  takes for itself) and 11 (beyond the limit); one user file, since a dup of the
  terminal is a second one; two deferrals with `deftab` growing by one entry, so
  that it grows twice and once with an entry in it; three frames, forks counted
  among them; one fork.  Three deferrals add no new relation between two
  numbers, a source and a target.  After a failed direct move the process only
  unwinds, forks or execs.  Numbers 0 to 2 are not closed in this run: that is
  `RedirectDoubts.cfg`.
  Deadlock is not checked, since a process image and a torn child are ends.
* `Children.cfg`: three children, three ids, two signals: two can exit while the
  third is awaited, and a wait can be interrupted twice.  Unlisted ids are
  interchangeable, so the least stands for all.
* `Environment.cfg`: a variable without settor and a function-like one with one,
  that may hold a plain value or a closure; two lexical values (symmetric);
  three locals or settors in progress, which gives a local, the settor that
  leaves it, and a local inside that settor.  Settors there start no commands and do
  not return closures, and `$noexport` names only the plain variable.  These
  are the exclusions that `EnvironmentDoubts.cfg` is about, but for the closure that a settor returns (see the hazards).
* `Exceptions.cfg`: all constructs and exceptions; five frames when a construct
  is entered (settors, throws and evaluations on top of them come in addition),
  which gives a local inside a scope inside a catch, and a construct entered by
  a settor that a throw runs; an evaluation depth of three, so that the limit is
  met both by commands and by settors during unwinding.  Once a handler has been
  skipped, or a remap has failed, nothing more is entered, since the counters
  would then grow without end; what is on the stack still returns, throws and
  unwinds.  Exits are ends, so deadlock is not checked.
* `Pipeline.cfg`: up to three commands, so that one has a pipe on both sides; one
  redirection around them, of a number or of one that the shell's pipes get
  too; pipes that hold one item and commands that write two, so that writers
  block.  `PipelineDoubts.cfg` narrows the numbers to those of an ordinary
  pipeline.  The end of the pipeline is no deadlock.
* `Signals.cfg`: four numbers for signals; two of them arrive, `SIGINT`, which has
  an effect of its own, and `SIGQUIT`, which an interactive shell ignores; two
  arrivals, so that one `catcher` may run inside another, or the same signal twice;
  one level of blocking; two settings that a program assigns.  Writes are of two
  bytes at most, so that one can be cut after the first.  Whether the two
  signals come apart is chosen at the start, since what `++sigcount` may lose it
  loses only when they do not.  The jump puts the mask back, as with `sigsetjmp`.
* `Dictionary.cfg`: four names over two letters, so that a name also is the
  concatenation of two others, as `dictget2` takes it; two values.  The start of
  a search is any function to 0, 2 and 7, so that all names may collide, at any
  size from 2 to 16.  A table of 16 has room for all, and four `DEAD` entries.
* `Collector.cfg`: two variables, one on the root list twice; sizes in units in
  which a word is 2 and `MIN_minspace` 10, so that two objects of one field fit a
  space, and a plain object of 13 fits none at first; objects of one field and of two,
  so that one copy can come late; at most three that can be reached, three spaces
  that `malloc` grants while collection is off, one level of blocking and five
  steps of the program.  Three objects give a chain, a cycle, a shared object and
  a space that is left and filled.
* `Words.cfg`: patterns of up to three characters and classes of up to three in
  them, quoted nowhere, everywhere or at one place; path patterns of up to four
  characters, and some with classes, over two levels of directories with hidden files
  and one directory that cannot be read; trees of up to three leaves, and subscripts of up to three
  words; texts of up to five characters, in chunks of up to two; a cache
  of three bytes, so that separators of two characters, which would fit with their zero,
  are not kept (`strlen(sep) + 1 < sizeof ifs`).  A job ends, so deadlock is not checked.
* `Language.cfg`: texts of up to three pieces out of 22; commands two operators
  deep and, for those that associate, three; strings of up to four characters;
  names of up to five; values with at most one control character (the rest is in
  `LanguageDoubts.cfg`); closures with up to two bindings; lines of up to two
  characters and some longer ones that end in an error.  A job ends here as well.

Fairness: `Children`, `Pipeline`, `Signals` and `Collector` use it.  In `Pipeline`
the shell and each command are weakly fair, being processes that the kernel
schedules; that a command stops early (`Quit`) or a call fails is not.  In `Children`, steps of
the shell are weakly fair for the same reason, and every child is assumed to exit;
signals and forks are not fair.  `WaitEnds` needs a bound on signals, since a
signal may interrupt each wait once more.  In `Signals`, the steps of the program
and of `catcher` are weakly fair.  Three things are strongly fair, since each is
possible again and again but not all the time: the delivery of a signal that has
arrived, `unblocksignals` in a program that blocks (the code always pairs the two),
and a `SIGCHK` that has a signal to take (the evaluator calls it at every form).
`read` and `write` may wait for ever; `SignalsTaken` therefore promises nothing
unless the program is out of them again and again.  In `Collector` the steps of
`gcalloc` and `gc` are weakly fair, being plain sequential code.

## 5. Proofs

Each proof module has one inductive invariant and one lemma per action.  The
assumptions are the named ones of the modules and, where a theorem needs more, the
ASSUME that it states.

### RedirectProofs

For every table size from 4 up, every set of files and user numbers and all bounds:

* `TypeOK`, `ReservedExact` and `TicketsInOrder` (`Inductive`).  The invariant adds
  to the three that `at` is 0 outside `remapfds` and at the end of it, without
  which `Pending` would not be all of `deftab` when a scope is left.  The ticket
  argument is that the tickets of the frames are exactly the indices of `deftab`,
  in order, so the innermost ticket is the last one.
* `OwnersApart` (`OwnersInvariant`).  `held` maps each live variable (a pending
  deferral, an `Input`, the history) to the number in it; the invariant is that
  each number held is open, is held once, and is not an orphan, and that orphans
  are open.  Steps are then of few shapes: a variable takes a number that was
  free, or closes and leaves its own, or a number is moved from one place to
  another and `held` is shifted accordingly.  A direct move has a source that
  nobody holds yet (`Spare`), which a failure turns into an orphan.
* `FdMapAgreesUnlessReused`.  The scan of `fdmap` has a closed form when no number
  is reused: once past the newest deferral of the number, its result matches no
  older entry any more.
* `ImplementsScopes` and `ViewKept`, under two hypotheses: `Closable` has none of 0,
  1 and 2, and `Room`, two free descriptors, holds throughout.  Both are needed.
  With standard numbers closed, the shell's own files get numbers that children
  keep (`RedirectDoubts.cfg`).  With a full table the dup in `releasefd` fails and
  leaves -1 in the variable of an outer scope, which that scope then has lost: with
  nine descriptors in `Redirect.cfg` TLC finds it.  `Room` is a hypothesis about
  the environment, a table far larger than the nesting of the script; in
  `Redirect.cfg`, with ten descriptors, every state satisfies it.  The invariant adds
  `High`: 0, 1 and 2 are open, so that no variable but the first shell's own
  input holds one of them.  Base and layers are functions of `held`; steps of the
  shell's own leave both alone, a direct move rebases one number, and a turn of
  `remapfds` settles the outermost scope, whatever else it has to move out of the
  way.  `Settle` of `RedirScopes` says that a scope over a number beyond the table
  can only be one that closes it: `remapfds` fails for any other.

### ExceptionsProofs

For any constructs, exceptions and depths, without a further hypothesis:
`StacksExact`, `CleanupExact`, `AbortsExplained` and `ChildEscapes`.  What each
global should be (`tophandler`, `pushlist`, `evaldepth`, `blocked`, `defcount`,
`input`) is a function of the stack, and of every beginning of it.  The invariant is
that the globals have these values for the whole stack, and that each frame has
saved those of the stack that it was put on; so a return and a jump, which put
saved values back after cutting the stack, are the same argument.  The walk of
`throw` over `pushlist` needs two facts more: on top of a throw in progress there
is nothing but the settor that it runs and what that settor has entered, and the
locals that are left to undo are those above the handler that it goes to.

### SignalsProofs

For any numbers of signals, arrivals, settings and levels of blocking, no further
hypothesis: `CatcherSafe`, `CountExact` and `ShortOnlyBySignal`.  `++sigcount` and
`--sigcount` are a load and a store that calls of `catcher` may come between.  The
invariant bounds `sigcount`, and each copy of it that an interrupted call or `sigchk`
will still write, by the marks that are counted at that point of the stack; with
signals that come apart it is an equality.  So the loop of `sigchk` meets a mark
before the end of `caught`.  `slow` is set only while a frame of `eread` or
`ewrite` that can be jumped to is live.

### ChildrenProofs

For any ids, statuses and finite set of structures: `ListExact`, `StatusTrue` and
`NeverDeniedUnlessLost`, under `~Recycle`, that the kernel reuses no id that is
still listed; `ChildrenDoubts.cfg` shows why.  The invariant has the list as a
chain both ways through exactly the allocated structures, one for each process
that is owed, with the kernel's status where one is kept, and what each point of
`ewait` knows of the structure that it has found.

### EnvironmentProofs

`EnvironmentTrue`, for any names, values and depth, under `Tame`: settors start no
commands, settors return no closures, and `$noexport` never names a variable that
holds one.  `EnvironmentDoubts.cfg` shows that the first and the third are needed.  The invariant
says that a cached line is true, or is known to be stale because `rebound` is set
and the variable has bindings; that `sortenv` is the set of the present lines or
a flag is set; that `var_hasbindings` agrees with the value; and that each settor
in progress for an exported variable that will be changed without another
`isdirty` has left it set.

`TypeOK`, `SettorsAbovePush` and `LocalsLeaveNoTrace` without `Tame`, from an
invariant of their own, `UInv`: a saved variable that was not set has no flags,
settors run only where there are any, and a settor of `varpop` sits on the Push that
it is for.  What `x` is outside its locals is what the lowest local of `x` has
saved, so a step can only disturb it below that frame, or by putting in or taking
out the lowest one; `BindingLeavesOuter` and `UnbindingLeavesOuter` are those two
cases, with or without a settor's frame on top.

### DataProofs

#### Dictionaries

For any names, values, hash functions and number of doublings: `SearchesExact` and
`ImplementsMap`.  The invariant (`Good`) says that no slot is empty on the way from
the slot that a name hashes to, to the slot that holds it; that no name is in two
slots; and that `remain` plus the slots in use is `REMAIN(size)`, with at least one
remaining, so that there always is an empty slot to stop at.  The argument has
four parts:

* going round: fewer than `size` steps lead to different slots, and to every slot;
* `put` takes the first slot that is dead or empty, so all slots before it are in use;
* `rm` makes a row of dead slots empty that an empty slot follows.  No other name
  is reached through the row, since it would be reached through that empty
  slot too (`NotThroughFreed`);
* growth puts one slot after the other into a larger table.  What the new table
  holds is what the slots visited so far hold, and the new table never is full on the
  way, because no more than `REMAIN(size) - 1` slots can be in use and twice the size
  has room for more.

What a recursive function computes is used in three places (`strhash2`, growth, the
list of sizes): each time the function is shown to exist by extending a
shorter one, and its values are compared at the least argument where they could
differ, which needs no induction theorem.

#### Splits

`SplitExact`, for any separators, chunks, bound on the text and size of the cache.  The
assumption is `SplittingAssumption`: separators and chunks are sequences of
characters, and neither mark of the model (`Break`, and the `NULL` of a closed buffer)
is a character.  The invariant (`SplitIInv`) says that

* if the cache is valid, `isifs` are the characters of the cached string and the
  terminating zero, also while no split is under way and after one was abandoned;
* while a split is under way its own separators are in `isifs`, and
  `coalesce` and `splitchars` are as its caller asked;
* the open buffer and the words so far are what the text fed until then leaves
  (`Progress`): the words are the pieces that a stop has ended, without the
  empty ones if they coalesce, and the buffer is what has begun behind the
  last stop.  A split of single words stands behind a `Break` between two calls.

`PiecesOf` is not computed along the text but from the positions of its stops, so the
main lemmas (`OneStopMore`, `OneLetterMore`) say how the pieces change
when one character is added: a stop ends the piece that had begun, a letter makes
it longer.  By them the loop of `splitstring` keeps the agreement
character by character (`FedAgrees`, `FedAll`), wherever the pipe has cut the text, and
ending a word does what a `Break` in the text does (`SealAgrees`).
Induction over texts is done without an induction theorem: the set of the sequences for
which a fact holds contains the empty one and is closed under `Append`, hence is
everything (`AllSequences`, from a shortest counterexample).

#### Matching

`MatchExact` and `ExtractExact`, for any characters, patterns, quotings and subjects,
as theorems of `MatchSpec`.  The assumptions are `JobsAssumption`, that a pattern has
a flag for each of its characters or one of the two shared quotings, and
`~ReadsQuoted`, that the bytes behind the constant `"RAW"`, which `rangematch` reads
when a class is longer than it, are not taken for a `q`: what is there is up to the
build, and with a `q` there the brackets of an unquoted class would be quoted.
Classes that begin with `]-` are excluded by the properties themselves
(`WordsDoubts.cfg` has them).  A job is done in one step, so the invariant (`MatchInv`)
is that `out` is empty or the answers of the job; what has to be proved is about
operators.

* The tables of the code and of `Patterns` are recursive functions.  `Recursion`
  shows once that such a function exists, if its values need only those of lower
  rank: one that keeps the equations below rank `n` is changed at rank `n` to keep them
  there as well, and no rank can be the least without such a function.
* A class: `rangematch` moves along the pattern and steps over ranges, `Patterns`
  picks the `-` that are operators from the whole list.  Where the scan stands,
  what it will still find is what the rest of the list holds (`RangematchIs`).
* `Items` of the pattern from a position on are its first item and the items
  behind it (`ItemsAre`), wherever the walk of the code can stand.
* `match` goes from left to right, `Matches` asks for the ends that the first items
  can have.  Both are put in terms of cuts (`CutBegin`, `CutMore`): a subject suits
  items from a position on if it can be cut into one piece for each.  Dropping the
  first item and its piece gives `match`, dropping the last gives `Matches`.  That
  the code tries a star on non-empty rests only, and collapses stars, makes no
  difference because of `CutStar` and `StarEndIs`: behind the stars there is
  something that needs a character.  `MatchIs` is then a downward induction over
  the positions of the pattern.
* `Extract` takes the least end for each star on its way.  The shortest cut is the
  first in the lexicographic order (`ShortestCutIs`), and its rest is the shortest
  cut of the rest (`ShortestMore`), so the parts agree position by position
  (`ClaimElsewhere`, `ClaimAtStar`), including where the assertion fails: a star
  that is not the last item and whose piece in the shortest cut is all that was left.

### PipelineProofs

For any table size, files, numbers, commands, redirections and capacity of the pipes:

* `ShellRestored`, and the types (`TypesCorrect`), without a further hypothesis.  The
  invariant (`SInv`) says which numbers the shell has opened beyond its redirections
  at each point of the loop of `pipefork` (`Own`), that these were free, that
  `inpipe` is the read end of the pipe before and `p` the pipe behind the last fork,
  and how many commands are forked and waited for.
* `TablesSound` (`CommandsHaveTheirEnds`), under `Roomy`: the table has more than six
  entries besides one for each redirection.  That is what a child may hold at once:
  three standard descriptors, three ends of pipes and the deferred files; one entry
  more lets `releasefd` move any of them.  A real table is far larger.  The bound is
  sharp: with two redirections TLC finds a command without its ends in tables of
  seven and eight, none in one of nine.  The invariant adds that a child that has not
  set itself up has its ends and the deferred files open, each at a number of its
  own, and at the other numbers what the shell had before all of them
  (`StartRight`).  What it does from there is one function of that state,
  `Remapped` and `OutMoved`, so the argument is an induction over the deferrals, not
  over steps.  `Placed` is its hypothesis: a set of things that each hold a number
  of their own, and the table that is left when they are gone.  `releasefd` changes
  who holds what number and nothing else; `mvfd` takes one thing out of the set and
  puts its file into the table that is left (`PlacedReleased`, `PlacedMoved`).  After
  the last deferral only the ends are still in the set, and moving them gives
  `Expected`.  The last command registers no variables, so its `inpipe` must not be hit:
  that is what `reused` excludes.

### CollectorProofs

For any roots, identities, sizes of words and objects, numbers of spaces and depth of
blocking, and with no hypothesis beyond the assumptions of `Collector`:
`SpacesSound` (`SpacesAreSound`), `MovingInvisible` (`MovingIsInvisible`), and that the
copy that comes late is the only way in which `scanspace` can leave a pointer into
`old` (`ScanIsComplete`).  The invariant `CInv` is the conjunction of

* `Rest`, when no collection is under way: `old` is empty, no two objects with an
  identity have the same, and whatever is in `new` or in a root refers to one of these;
* `Moving`, during a collection: `old` is such a graph still, for the collector changes
  nothing in it but the tags; tags and copies are one to one; a copy has the fields
  of its original, each of them as it was or replaced by what its target's tag says;
* `Progress`: the roots and fields that the cursor has come past refer to `new`,
  `RootsDone`, `FieldsDone` and, unless an object came late, `ObjectsDone`;
* `Accounts`: no space is overrun, and what is used of them is what the objects take;
* `Control`: who has switched collection off, and that a request that waits for room
  has an identity left to give.

None of these follows from `SpacesSound`, which says nothing at all while objects
move.  The argument for `MovingInvisible` is that every pointer of either half can be
read back to the old one: a copy stands for the object whose tag leads to it.  Read
back, roots and fields are the same after each step as before it, and what is
reached in the mixed graph, read back, is what is reached in the old half
(`OrgReach`), though `Reach` is defined as what lies in every closed set and not as a
search.  So what the program sees is a function of the old half and of where the
roots point in it (`MovingSeen`), and a step of the scan changes neither
(`SeenKept`).  At the end nothing refers to `old`, hence what `new` holds is closed
and is the graph that is seen (`ClosedSeen`), and the halves change places.  For
`Progress`, a step of the scan leaves what was scanned alone, and what it adds is
either ahead of the cursor or late (`FieldAdvances`, `QuietProgress`).  `Total` sums
a sequence by a recursive function; its existence and values are shown by least
counterexamples, as in `DataProofs`.

### Only model-checked

The liveness properties (`WaitEnds`, `PipelineReturns`, `SignalsTaken`,
`AllocationEndsUnlessCramped`), which are beyond the prover; of `Words`, what path
names expand to (`GlobExact`) and what trees give (`WordsExact`); and everything about
`Language`.  `Globbing`, `WordBuilding`, `Syntax`, `Lexer`, `Grammar`, `Printing` and the
modules over them use recursive operators because the code is recursive over paths and
trees; they are checked over bounded inputs only, since what recursive operators
compute is out of the prover's reach.  For the same reason the theorems about splits
and matching are about `SplitSpec` and `MatchSpec`, and not about `Words`, which takes
their steps beside those of the other two.

## 6. What is not modelled

* Of printing, the core of `print.c`: widths, number formats, growing buffers.
  Of input, the character buffers, pushback and prompts.  Of the lexer, the size
  of the token buffer.  The string buffers of `str.c` and `vec.c`.
* `here`, `readfrom` and `writeto` as processes (the handler that `writeto` pops is a
  hazard in `PROJECT.json`).
* Lexical lookup, application and tail calls in `eval`; `Environment` and
  `Exceptions` have the bindings and the handlers that they make.
* List cells that are shared and relinked in place: lists are values here, so
  `prim_openfile` changing its argument list cannot be seen (a hazard).
* `newfd` and the listing primitives, which only read; the primitives that are
  one system call; option parsing; the dump of the initial state; `initial.es`,
  apart from how it defines the words that the parser's trees call.
* The debugging variants of the collector (`GCPROTECT`, `GCALWAYS`), and how much
  memory a space really takes.
* Resource usage, the messages about background processes, the wording of
  errors, and memory exhaustion, at which the shell exits (but for that in `gcalloc`).
