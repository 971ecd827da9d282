# A verification of mereo

mereo is a small language for freestanding Linux programs. `mereoc.py` turns a
`.mereo` program into one C function without calls, heap or library, and
decides at compile time where every resource of the program is released. This
directory holds TLA+ models of the parts where that can go wrong, the TLC runs
that check them on small instances, and TLAPS proofs for every instance.

    tlc -config MCTower.cfg MCProcess       # a run
    tlapm ProcessProofs.tla                 # the proofs

## 1. What the system consists of

| Component | State | Operations | Hard behaviour | Correct when |
|---|---|---|---|---|
| Loader (`load`) | files loaded, stack of files being loaded | depth-first `include` | shared dependencies, cycles | each file once, dependencies first, a cycle is refused |
| Parser (`parse`, `close_scope`) | definitions, slots, steps, stack of open scopes | one line each; a dedent closes scopes | the last `repeat NAME` of a body becomes the back-edge, found only at the dedent | every scope opened is closed, in order |
| Names (`lookup`, `deref`, `_namespace_fold`) | namespaces | resolve a dotted or bare name | a bare name may belong to several namespaces | one meaning, or a refusal |
| **Elaboration** (`elaborate_classes`) | per class: layers, cleanup | compose bases, parts, own lifecycle | several acquiring calls and several bases make several layers | layers base first, one owner of each thing |
| **Splicer** (`expand_procedures`, `inline_procedure`) | steps, slots, a call id | replace a template call by its body, to a fixpoint | renaming, ports that are the caller's own names, recursion, what of the call is lost | the body means there what the call meant |
| **Analysis passes** (`hoist_guard_bounds`; `check_*`, ...) | none kept | refuse or rewrite steps | rewriting under aliasing | no accepted program changes its meaning |
| **Lifetime planner** (`plan`) | `live`, `tower_order`, `enclosing`, scope stacks, `plan_steps` | plan one step | nested scopes, jumps out of them, half-built layers, alternatives | every release list and failure target is right on every path |
| **Generated program: tower** (`transpile`) | where it is, what it holds | the steps, error blocks, floors, the exit landmark | every combination of failure and jump | releases newest first, nothing twice, nothing left |
| **Generated program: signals** (`signal_prologue`, `SIGSTUB`, `SYS_*`) | dispositions, mask, descriptors 0-2, `mereo_signo`, `_dying`, `_status` | prologue, stub, error blocks, `_reraise` | a signal at any moment; closed descriptors; EINTR and EPIPE | shutdown releases everything and is reported truthfully |
| Helpers in C (`WRITE_VALUE`, `_scan`) | registers | print a number, scan bytes | LONG_MIN, tails of blocks | the same as the obvious loop |
| Register words and bit views | one word | masked read and write | offsets at the edge of the word | neighbours untouched |
| `core.mereo`, **`linux.mereo`** | resource fields | text, numbers, files, terminals, sockets | short reads and writes | `fill` is short only at the end of the stream |
| **`programs/`** (HTTP, JSON, SQLite, TLS) | buffers, phases, cursors | resumable parsers, table walk, gathering of records, handshake | input cut anywhere, files that are not sound | pieces give what the whole gives; a walk gives every row once |
| **Language server** (`mereolsp.py`) | open buffers, pending paths | message loop and diagnosing loop, two threads | an edit during a diagnosis | the last edit is eventually diagnosed |
| `mereocheck.py`, `mereodis.py`, `mereoraii.py` | none kept | analyse a binary or a trace | | |

How they interact: `transpile` parses the loaded sources, `plan` elaborates
and splices and then walks one flat list of steps with a single `live` set,
and `transpile` writes the planned steps out as straight C with labels. There
is nothing of the planner at run time: no flag records what is held. Whether a
program releases correctly is therefore a property of two things together,
what `plan` chose and the order `transpile` emits it in, and it is checked and
proved of the two together. The kernel is the other party: it answers calls,
hands out the lowest free descriptor and delivers signals. Before `plan` walks
the list, the splicer and the passes have rewritten it, and what they keep of
its meaning is checked beside it, in `Splice` and `BoundHoist`. The library and
the programs are mereo themselves; where they keep state from one call to the
next (`rows.step`, `chunked.step`, `read_record`) they are state machines of
their own. The language server runs the compiler in a worker and shares
unlocked maps between its two threads. Components that are modelled at least
in part are in bold.

`PROJECT.json` lists the components with what is modelled of each, the hazards
of the code at their lines with the properties aimed at them, and the lines
behind every definition.

## 2. The modules

| Module | Models | Uses |
|---|---|---|
| `Planner` | `plan_one`, `record_live`, `releases_for`, the parser's `close_scope`, the cascade | |
| `Process` | the emitted program as laid out by `transpile` | extends `Planner` |
| `Raii` | the promise: a stack of owned things, given back newest first, nothing left | instanced by `Process` |
| `Citizen` | the emitted program's prologue, error blocks and end, and the kernel | |
| `Elaborate` | `elaborate_classes`, and what an instance takes and gives back | |
| `Splice` | `expand_procedures`, `inline_procedure`, and the flat program they make | |
| `BoundHoist` | `hoist_guard_bounds`, and the program it rewrites | |
| `LanguageServer` | the diagnostics of `mereolsp.py`, two threads | |
| `TableWalk` | `rows.step` of `programs/sqlite/read.mereo` | |
| `Transfer` | `file.fill` and checked writes of `linux.mereo`, `read_record` of `programs/tls/client.mereo`, a stream | |
| `Chunked` | `chunked.step` of `programs/http/parse.mereo` and its caller | |
| `MCProcess`, `MCCitizen`, `MCElaborate`, `MCSplice`, `MCHoist`, `MCServer`, `MCTable`, `MCChunked` | the values of the constants for the runs | extend the above |
| `ProcessProofs` (with those of the planning), `CitizenProofs`, `ElaborateProofs`, `SpliceProofs`, `BoundHoistProofs`, `LanguageServerProofs`, `TableWalkProofs`, `StreamProofs` (of `Transfer` and `Chunked`) | theorems | extend the above |

### Planner

The variables are the planner's own: `live`, `tower_order`, `enclosing`, the
open scopes (the parser's `scope_kinds` with `loop_stack` and `block_entries`,
which nest as one stack), the labels emitted and the planned steps. One action
plans one source step, and the source program is whatever sequence of actions
happens; the guards are the planner's own refusals. Three things differ in
form only. The source keeps names in `live` and expands a layered resource
when it emits its releases; the model keeps the rungs (layers) themselves. A
planned step carries `held`, the live set it was planned against: the code
reads it to choose the step's target and keeps only the target. And loop
conditions, guards and results are left open, for they are run-time values.

`SplicedCall` is what a call of a multi-step template leaves: a primitive,
inside the named scope of the splice, whose receiver's name is gone. A class
whose acquire takes several calls with one `acquired` marker is a layered
class in the code too; its layers without a release are not modelled, and
neither is a construction without lifecycle, which touches no planner state.

Bounds: `MaxSteps` steps (dedents not counted, so every program begun can be
finished) and `MaxDepth` open scopes.

### Process

`pc` is a position in the code: first the planned steps, then the floors, then
the landmark. `Address` resolves a label, `FallsThrough` is the emitter's
comparison of a floor's chain with the next floor, `ExitStep` the jump past
floors that are dead at the end. `held` is what the process really holds,
which no variable of the program records. A release's result is not looked at,
as in the code. Program and planner are composed by running the process on
what was planned: `Compile` is the planner's next-state relation, and `Start`
waits for `done`.

### Raii

The abstract specification, after the promise that every program's resources
are released in reverse order on every path. `Process` implements it with
`held` as the stack owned and `mode` as the phase, planning being a stutter.

### Citizen

A program that owns something (`owns`: it has a cascade, so the code installs
the stub, the descriptor repair and the re-raise) or not, and that can fail
(`checks`: it has an error block, so the code ignores SIGPIPE) or not. `pc`
moves through the prologue, a body of calls, guards and scope ends in any
order, the tower, `_reraise` and the exit. A call is `calling` until it waits
and `blocked` from then on; only a `blocked` call is cut short with EINTR,
which is exactly the kernel's rule and the reason a signal between two calls
is not noticed. Alternatives, repairs and error blocks follow in the order the
emitter gives them. The tower is one release at a time, always the newest,
which is what `Process` establishes.

The process may be started with the shutdown signals blocked, a mask it
inherits through `execve` and does not touch until the stub or `_reraise`
does, and a blocked call may end with EINTR after a stop and continue
(`Resume`), without the stub having run and with `mereo_signo` still 0.

Kernel and senders are external: `Send`, `Deliver`, `Discard`, the default
action, results of calls, the lowest free descriptor, an exit status of eight
bits. A query of a disposition and its installation are one step, because
nobody else writes dispositions and a delivery between the two acts on the
same disposition as one before them. Bounds: `MaxHeld` descriptors held and
`MaxSent` times each signal is sent.

### Elaborate

`frames` is the call stack of `elab`, each call with its class, whether it is at
the bases or at the parts, and at which; `done` and the classes of the frames
are the code's two sets. `built` is the definitions as elaboration rewrites
them: `Merge` is what happens once the bases are done, `Finish` the rest, and
the order in which the text lists the classes is left open. A thing is named by
the class that says how it is acquired or released, behind the part it is
reached through. What an instance does (`Floors`, `Taken`, `GivenBack`) is the
planner's layered construction and cascade read off the result: the inits in
order, and the floors from any layer down. Left out: borrowed parts, delegation,
layouts of bytes and bits, and the checks of single methods.

### Splice

A behaviour splices a program and then runs it. `rest` and `steps` are
`one_pass`'s input and `out`, one action per step of a pass, and `EndPass` is
the loop over passes with its cap. `made` is what the code keeps only in the
names it writes: `f_1_x` is the local `x` of the first splice, the pair
`<<1, x>>` here. `Renaming` is `rmap`: ports become the caller's names, already
renamed, locals become the splice's own. A scope is the template's name with
the splice's number, opened in front of the locals' first values, so that
`repeat` of the template's name sets them again and a call in a loop does too.

What a call promises is run beside it, from the same steps: `promise` has a
cell for each port, which is a copy of the actual when the template and those
it calls only read the port (`Writes`), the caller's own cell otherwise, and
cells for the locals, new at each entry. `env` is the flat program's. The two
take the same jumps as long as they read the same, which is the property.

Left out: an actual that is an expression (section 6), a body's own loops,
which are renamed as its locals are, receivers and their fields, and what
`Planner` has of a splice. The cap is 3 passes in the runs and 64 in the code;
the assumption `Cardinality(Template) < Cap` says nesting alone does not reach
it, which a program of 64 templates each calling the next would refute. The
other assumptions are the parser's: templates and locals are finitely many, and
no local has a port's name (`locals_ -= set(meth["params"])`).

### BoundHoist

A behaviour writes any program of `MaxSteps` steps, hoists its bounds, and
runs the rewritten program. `home` is the pass's result: for each guard the
loop its bound is read before, or 0. `Dirty` is the code's list `WRITES`, and
`AssignedIn` its `assigned_in`; a step of type `afstore` (`HOST.FIELD is V`) is
in neither, and `Attached` says which names are such fields. A guard compares
with `EmittedBound`; `SourceBound` is what its line says, read where it stands.
A guarded scope is for the pass a scope left at its first step.

### LanguageServer

`mpc` and `dpc` are the two threads, and a step is what lies between two calls
at which the interpreter may switch. `schedule`, `clear` and the diagnosing
loop take the order of the code: add, stamp, wake; wait, debounce, clear, list,
swap, then per path compile, publish, retract, store. Time is one bit: `quiet`,
DEBOUNCE has passed since the last stamp. `Host` says through which program a
file is compiled, and `Refusal` where the error of a program is, given the texts
of the files: it is any function of all of them, since a name may be declared
twice and the plan is made out of everything. The error names a file, or none
(`Unnamed`: whatever is refused after the parse loop, mereoc.py:8259, a cycle of
includes, a crash), and one without a file is shown on the path diagnosed, which
may be a library in order (mereolsp.py:1407, `Where`). `shown` is the editor's
side of the notifications. `seen` and `spoilt` are history and no thread reads them. Bound:
`MaxSent` messages.

### TableWalk

`nest` and `depth` are the caller's stack, two words a level, and one action is
one pass of the loop `walk`. A page holds whatever a file may hold, and nothing
says it is a tree: pages may be shared, missing or beneath themselves. A row is
its leaf and place. The whole table, `RowsAt`, is defined by recursion on the
levels and is the reference the cursor is held against. Bounds: `MaxRows` rows
of a leaf, `MaxKeys` cells of an interior page.

### Transfer

A byte is its place in the stream. The kernel takes bytes over one at a time
(`Accept`) and hands out any number of those that have arrived (`Get`), so
every way of cutting the stream occurs; a write fails on a short count, which
leaves part of a record behind, and either side may fail. The reader is
`read_record`, header and then body in the caller's buffer, or a caller of
`file.fill`. A header may declare more than the buffer holds. Bounds:
`Records`, `Longest`.

### Chunked

The variables are the decoder's fields: an offset, a phase and what is left of
a chunk. One action is one call of `step` in one phase with one outcome: it
goes on, refuses, or asks for more. The caller reads some more bytes or stops.
`Automaton` is the reference: the grammar read symbol by symbol, which no code
of the repository is. `Half` is the least size a signed word cannot hold. In the
run, digits are of base two, a size has three at the most, and `Half` is 4.

## 3. The runs

| Run | Question | Bounds | Result |
|---|---|---|---|
| `MCTower` | do scopes, loops, jumps, failures and the exit release in reverse order and leave nothing, with a one-layer and a two-layer resource | 5 steps, 2 scopes deep, 2 scope names | holds, 1.7 million states |
| `MCPromise` | does the program implement `Raii`, fairness included, does the tower end, does a call find its receiver held | 4 steps, three resources, one of them adopted, an alternative, one name | holds, 600 thousand |
| `MCCitizen` | the prologue, signals at any moment, statuses | 3 signals twice each, 2 descriptors, 1 alternative, 2 codes | holds, 1.2 million |
| `MCElaborate` | are layers base first and once each, do the floors mirror them, are cycles found and nothing else | 4 classes in 7 shapes with up to 5 lifecycles each, a part, a name borne twice | holds, 150 thousand |
| `MCSplice` | does the flat program read what the calls promise, do jumps stay at home, is recursion refused and nothing else | 2 templates, 2 ports, a local, 3 passes; 21,000 programs | holds, 330 thousand |
| `MCHoist` | does a guard decide on the bound its source reads | 4 steps, 2 scopes deep, 2 names, 2 values | holds, 1.4 million |
| `MCServer` | do the two threads lose a wake-up, strand a diagnostic or undo the last one | 3 messages, a program and its library, 2 texts; of their 4 pairs one is refused in the program and one in no file | holds, 300 thousand |
| `MCTable` | does the walk give every row once, in order, within its stack | every file of 3 pages, 3 levels, 2 rows, 1 key | holds, 110 thousand |
| `MCTransfer` | are records and buffersful whole, whatever the pieces | 3 records of up to 5 bytes, header 2, buffer 4 | holds, 51 thousand |
| `MCChunked` | is a body fed in pieces decoded as it is symbol by symbol | 4 bodies and every body one symbol away from them | holds, 55 thousand |

Four or five steps are enough for the cases that matter in a tower: two
resources taken in two nested scopes with a jump out of the inner one (a floor
that must be skipped), a resource in a scope followed by another outside it, a
failure between two layers, a loop whose second pass acquires again. Dedents
come on top of the bound. Two scopes deep is the least at which `leave` of the
outer scope releases what both took. Two signals of each kind is the least at
which one is pending when the program lets signals through again. Four
classes are the least with a diamond, and with a ring that one more class leads
into; an acquire of two calls has its marker first or last. Two
templates are the least with a call inside a spliced body, a port handed on and
a ring; a third pass is the one that finds nothing more. Four steps hold a
guard, a write and a jump over either in a loop. Three messages are the least
for an edit, a second one and a close during its diagnosis. Three pages give a
root with two children, a leaf shared by both sides and a page beneath itself;
three levels the first refusal for depth. A buffer of four is smaller than the
longest record and larger than two of the shortest.

The two scope names of `MCTower` and the two names of `MCHoist` are
interchangeable and no property names them, so symmetry is used there, and
only there, for invariants.

`CHECK_DEADLOCK` is FALSE where the system really rests: a server whose editor
sends nothing more, and a hoisted program that has ended or failed. Everywhere
else a process that is over stutters explicitly, and nothing may stop before.

Each module has a type invariant. Those of `Process`, `Citizen`, `Splice`,
`BoundHoist` and `LanguageServer` are proved (section 5) and no run repeats
them; the others are in their module's run. The properties besides:

- `ReleasesTheNewest`: whatever is released next, in a scope's end, a jump or a
  floor, is held and is the newest thing held. A wrong slice of the live set or
  a floor falling through where it should jump breaks it.
- `NothingHeldAtExit`: however the landmark is reached.
- `AcquiresAfresh`: no loop or restart takes again what is still held.
- `ReceiverIsHeld`: no call accepted as a call works on a released receiver.
- `KeepsPromise`, `UnwindingEnds`: the refinement and the end of the tower.
- `NothingOwnedIsStandard`: no file the program opens is descriptor 0, 1 or 2.
- `KilledEmptyHanded`: a shutdown signal kills only a program that has
  released everything.
- `IgnoredStaysIgnored`: an inherited ignore is never overridden.
- `FailureIsReported`, `NonzeroMeansFailure`, `InterruptedDiesOfIt`: record,
  exit status and wait status agree with what happened, a signal arriving at
  the same time or not.
- `TowerIsLeft`: signals do not keep the program from ending.
- `BasesFirst`: an instance takes each thing of the classes it extends once,
  after those below it. Classes reached along two ways are set apart (the code
  gives them two layers), and so are views of layered classes: see section 4.
- `TowerMirrors`: at whatever layer a construction stops, the tower gives back
  what was taken, newest first. It is claimed where no part has a release.
- `CyclesAreNamed`, `ElaborationEnds`: a class composed of itself is refused,
  nothing else is refused as one, and the recursion ends.
- `SameReads`: the spliced program reads at every step what the calls promise,
  and leaves the program's variables as they would. Calls with one name in two
  ports, one of which is handed on, are set apart: see section 4.
- `JumpsLandHome`: a jump of a splice stands inside the one scope it names.
- `RecursionIsNamed`, `SplicingEnds`: the splicer comes to a verdict, and
  refuses as recursive only a ring of templates.
- `SameCheck`: a hoisted guard decides on what its source would have read.
- `WakeIsNotLost`, `PendingIsTaken`: no path stays pending with both threads
  asleep, and the diagnosing thread comes round to it.
- `NoOrphan`: a diagnostic the editor shows is remembered, or about to be
  remembered or cleared, whatever the threads do to `published` at once.
- `LastDiagnosisStands`: at rest, the last diagnosis was made of the texts as
  they are, its error is shown where it belongs and the file it was made of shows
  no other; what else is shown is remembered for another file. That such a
  remainder may be stale is in section 4.
- `StackIsPath`, `NothingSkipped`, `StepAnswers`: the caller's stack is a path
  of the pages; rows given, row at hand and rows left are the table at every
  step; every call answers, also on a file with cycles.
- `RecordsAreWhole`, `FilledInOrder`, `ShortMeansEnd`, `TransferEnds`: the
  transfers, and that a short count means the end of the stream.
- `AsSymbolBySymbol`, `VerdictIsDue`, `DecodingEnds`: the decoder's fields and
  its verdicts are the grammar's, wherever the body was cut.

### Fairness

`Process`: weak fairness of the running program as a whole, that is, the
processor keeps executing it. Conditions are open, so a loop may turn for
ever; only a program in its tower is claimed to end, and the tower has no
condition. `Citizen`: weak fairness of signal delivery and of the program
once it is in its tower. A call of the body may block for ever, nobody is
obliged to send a signal, and the prologue and the body carry no fairness.
Releases are `close` calls and the like, which return.

`Elaborate`, `Splice`: the compiler keeps running; the program `Splice` makes
carries none.
`LanguageServer`: both threads and the clock go on; the editor owes nothing. A
thread waiting for its event or for the pause is not enabled, so weak fairness
asks nothing of it. `TableWalk`: a call once begun is carried on; the caller is
free. `Transfer`: the writer comes to an end of its writing or fails and
closes, and the reader reads on. `Chunked`: the caller reads until it has a
verdict or the connection ends. `BoundHoist` claims no liveness and has none.

## 4. Where the code and its documentation disagree

Each of these runs checks one sentence of the source and is expected to find
it violated. The proofs and the passing runs hold beside them.

| Run | Sentence | What the code does |
|---|---|---|
| `MCSpliceAliased` | mereoc.py:5936 "Reject rather than answer wrongly." | one name in two ports is refused when the body assigns one of them itself, and accepted when it hands it to a template that does; the other port then reads what was written |
| `MCElaborateView` | mereoc.py:3557 "A single base with no added lifecycle is a pure VIEW that" inherits the base's | a view of a class that acquires in several calls acquires twice and releases one thing twice; a view of a layered class loses the layers below the topmost |

Compiled programs show both as well.

The following have no run of their own; put alone in the file named, with the
constants given, each is violated. `SameCheck` is a property of the runs, which
fails for fields attached to a block (a compiled program shows it too); the
others are definitions of their modules that stand apart under a comment with
the sentence.

| Definition | File | Sentence | What the code does |
|---|---|---|---|
| `NothingNamedAfterRelease` | `MCPromise.cfg`, INVARIANT | docs/resources.md:255 "Naming it afterwards is refused" | a template call on a released resource is accepted: the splice rewrote the receiver before the check looks for its name |
| `RepairIsHonoured` | `MCPromise.cfg`, PROPERTY | docs/syntax-summary.md:275 "`or continue` ... carry on with these values instead" | the splice drops the repair of a template call |
| `TriesEveryAlternative` | `MCPromise.cfg`, PROPERTY, with `Alternatives <- ConsoleHasAlternative` | docs/syntax-summary.md:279 "or try a different construction" | alternatives of a layered construction are never read |
| `SecondSignalChangesNothing` | `MCCitizen.cfg`, INVARIANT | mereoc.py:457 "the wait status the parent reads is then the one it would have read had mereo never caught the signal at all" | a different second signal is delivered when `_reraise` unmasks, masks the death again, and the program exits 0 |
| `InterruptIsTold` | `MCCitizen.cfg`, INVARIANT, with `MaxSent = 0` | docs/citizen.md:107 "a wait status of 0 would tell a shell loop, `xargs`, `make` and any supervisor that the work finished" | a call that answers EINTR after a stop and continue is taken for a shutdown no signal asked for: the program exits 0 without a record |
| `InterruptIsNotLost` | `MCCitizen.cfg`, PROPERTY | README.md:33 "An interrupted program now dies of the signal once the tower has run" | a signal between two calls is recorded, masks its successors and is never looked at |
| `EINTRWindsDown` | `MCCitizen.cfg`, PROPERTY | docs/citizen.md:163 "EINTR means wind down, not retry" | an interrupted call with an alternative is retried, one with a repair carries on |
| `NotKilledBySigpipe` | `MCCitizen.cfg`, INVARIANT | docs/citizen.md:28 "SIGPIPE is always ignored" | not when every write is repaired: nothing is fallible then |
| `FailedEnsureIsNonzero` | `MCCitizen.cfg`, INVARIANT | docs/errors.md:60 "a failed `ensure` returns non-zero, with a record" | a value of -4 or -32 is taken for EINTR or EPIPE |
| `SameCheck` | `MCHoist.cfg`, INVARIANT, with `Attached = {p}` and no symmetry | mereoc.py:6991 "Same check, same error block, same safety." | a value given to a field attached to a block (`afstore`) is not in the pass's lists, so a loop that moves the field keeps the bound it read before the loop |
| `OnlyRefusalsAreShown` | `MCServer.cfg`, INVARIANT, with `MayFail = FALSE` | mereolsp.py:18 "mereoc's own refusals, on the line they name, as you type" | an edit schedules the file edited and no other: an error of two files that was met in the diagnosis of one (or in both, when it names no file) and is repaired in the other stays shown |
| `LastEditIsDiagnosed` | `MCServer.cfg`, INVARIANT, with `MayFail = FALSE` | mereolsp.py:18, as above | a path made pending between the listing of the map and its replacement is dropped, and its last edit not diagnosed |
| `ExhaustedIsAll` | `MCTable.cfg`, INVARIANT, with `MaxRows = 1` | programs/sqlite/read.mereo:314 "0 the table is exhausted" | a leaf that is used up answers 0 with the rest of the table to come |

A session with the server shows `OnlyRefusalsAreShown` violated too. The passing
properties leave these cases aside: `InterruptedDiesOfIt` speaks of a program
that was sent one of the signals only, no property of the run speaks of an EINTR
nobody sent, and `LastDiagnosisStands` speaks neither of a path that was dropped
nor of what is remembered for another file.

And these edges have no definition, being outside what the models tell apart:

- A part that has a release is released with its whole though nothing acquires
  it (an acquire cannot name a part any more), and twice by a layer on that whole.
- A failure code that is a multiple of 256 is not refused and reaches the
  parent as 0; the codes of the runs are below 256.
- An actual that is an expression is spliced as text without parentheses:
  `v * 2` with `v is x + 1` becomes `x + 1 * 2`. It is also read anew at every
  use, so what a template assigns through another port changes it.
- A template that calls itself twice doubles its calls with each pass and is
  never refused in practice: the cap is 64 passes.
- `ensure i < [p : 8] || j > 3` takes everything right of `<` for the bound.
- A hoisted bound is loaded before the loop even when the loop would have left
  before the guard, at an address nothing has checked.
- A chunk size of sixteen hexadecimal digits from 8 up is negative in the
  signed word that counts what remains.
- The language server's key for a cached `Doc` of a buffer is its length and
  first 64 characters.

## 5. What is proved

Three hypotheses stand in the statements. `SingleLayerAdoption`, of the planner's
and the process's theorems: an adopted resource is of a class with one layer.
It is needed: the code gives an adopted instance of a layered class the floors
of all its layers although adopting runs no acquire, so its tower releases what
was never taken, and `ReleasesTheNewest` fails there. The documentation leaves
open what such an adoption should mean. `Attached = {}`, of
`ChecksAreTheSame`: without it the property fails (section 4). And `SizesFit`,
of `Chunked`'s theorems: no size in a body is one a signed word cannot hold.
The decoder takes sixteen digits and does not check, and a size beyond `Half`
counts down from below nothing (section 4). What is proved of it is proved of
bodies of any length, cut anywhere, with any base, any number of digits and any
`Half`.
Everything else is for all values of the constants under their assumptions.

| Theorem | States |
|---|---|
| `PlansRight` | `PlanSpec => []PlanInv` |
| `ProcessTypes` | `ProcessSpec => []TypeOK` |
| `ReleasesInReverse` | `ProcessSpec => []ReleasesTheNewest` |
| `NothingLeaks` | `ProcessSpec => []NothingHeldAtExit` |
| `NothingTakenTwice` | `ProcessSpec => []AcquiresAfresh` |
| `CallsHaveReceivers` | `ProcessSpec => []ReceiverIsHeld` |
| `KeepsPromiseSafely` | every step of the program is a step of `Raii` or a stutter |
| `CitizenTypes`, `OpensAboveStandard`, `ReleasesBeforeDeath`, `FailuresAreReported`, `SilenceIsSuccess`, `DiesOfItsSignal`, `IgnoredIsKept` | every safety and action property of `Citizen` |
| `TypeCorrect`, `CyclesNamed`, `TowerMirrored`, `BasesComeFirst` | every safety property of `Elaborate`: `TypeOK`, `CyclesAreNamed`, `TowerMirrors`, `BasesFirst` |
| `Ordered`, `Elaborated` | `Elaborate`'s inductive invariant |
| `HoistTypes`, `ChecksAreTheSame` | `TypeOK` and `SameCheck` of `BoundHoist` |
| `ServerTypes`, `WakeIsNeverLost`, `NothingIsOrphaned`, `SettlesOnTheTexts` | every safety property of `LanguageServer`: `TypeOK`, `WakeIsNotLost`, `NoOrphan`, `LastDiagnosisStands` |
| `StaysInTheStack`, `TheStackIsAPath`, `TableInOrder` | every safety property of `TableWalk`: `TypeOK`, `StackIsPath`, `NothingSkipped` |
| `TransferTypes`, `RecordsArriveWhole`, `FillsInOrder`, `ShortIsTheEnd` | every safety property of `Transfer` |
| `ChunkedTypes`, `DecodesSymbolBySymbol`, `VerdictsAreDue` | every safety property of `Chunked`: `ChunkedTypeOK`, `AsSymbolBySymbol`, `VerdictIsDue`, if `SizesFit` |
| `SpliceTypes`, `JumpsStayHome`, `RecursionIsReal`, `SplicesKeepPromises` | every safety property of `Splice`: `TypeOK`, `JumpsLandHome`, `RecursionIsNamed`, `SameReads` |

### Planner and process

None of the safety properties is inductive: what a jump releases
depends on what the planner believed was held, and that belief is right only
if it was right for every step before, along every path. The planner plans in
text order, while the program runs in any order of jumps, so the invariant has
to say of every label what is held there.

`PlanInv` says it of the plan. `StepsFollow`: each step's `held` is what the
step before leaves. `StepsOK`: each step's releases are the newest of its
`held`, each failure goes to the floor of the newest, and each jump `LandsRight`:
what it leaves held is what is live where it lands, which is a placed label, the
end of a scope still open (where it will be the scope's entry set), the
program's beginning, or the tower. `ScopesNested`, `EndsFresh`,
`LabelsNumbered` and `LabelsPlaced` make the label of a scope's end come to be
placed exactly once, where that entry set is live. `EveryHeldChained` and
`TowerComplete` make every `held` unwindable: each rung has a floor, which
chains to the rung before it.

`RunInv` says it of the process: while running, `held` is what the current
step was planned against less what the step has released; while unwinding, the
process is at the floor of the newest thing held, or at the landmark with
nothing. `IInv == PlanInv /\ RunInv` is inductive, and TLC checked it on the
small instances before it was proved. Every safety theorem follows from it
without further induction. The refinement's steps follow from it one action at
a time: an acquisition is a `Take` because the rung is not owned
(`AcquiresAfresh`), a release is a `GiveBack` because it is of the newest
(`ReleasesTheNewest`), the exit is an `Exit` because nothing is held.

### Citizen

The properties speak of a process that is gone, and the invariant says how it
comes to be. `Accounts`: at each point of the program, `cause`, `records`,
`_status` and `_dying` are what the way there leaves. `Guarded`: through its
body and its tower, a program that owns something has no shutdown signal at its
default, and lets one through at the end only if it is dying of it. `Opened`:
from the repair on all three standard descriptors are open, and the descriptors
held follow them in a row, the k-th being k + 2, so the lowest free one is
above them. `Dying`: on the last steps the signal to die of has its default
disposition back, the mask is lifted and the signal is pending. The four, with
the type invariant and the properties themselves, are inductive.

### Elaborate

The invariant has four parts, each inductive with those before it. `Shape` is
types. `Order` is about the recursion: no class is on the stack twice or
elaborated while on it (`Apart`), a call has waited for what it is past
(`Waited`), the stack is a path of the composition (`Descends`), and what is
elaborated is composed of elaborated classes only and of none of them in a ring
(`Grounded`). `CyclesAreNamed` follows: a class found under way is on the
path to itself, and at the end everything is grounded. `Merge` adds the parts
of the bases to a class, so the composition grows while it is walked; that it
adds nothing new to what is reached from a class already elaborated is where
`Grounded` is needed again. `Contents` says what a class has: before its merge
what is written, after it the lifecycle of the class itself or, along a chain of
views, of one of its family, and no parts but its family's.

`Towered` says that each floor of an elaborated class without releases in its
parts takes one thing and gives back that one, or does neither (`Good`): an
acquire in several calls has its cleanup at the call that is marked, and
`SourcesAssumption`, that a call is marked, is used there. `TowerMirrors`
follows by induction over the floors, for both sides take a further floor at
opposite ends. `BasesFirst` is inductive as it stands over the classes
elaborated (`Listed`), with two facts about a class as it is finished: what its
floors take is what those of its bases take, one base after another, and then
its own thing (`TakesInOrder`), and the families of its bases have nothing in
common (`FamiliesApart`), which is what `Plain` is for.

The provers cannot instantiate an operator of the induction theorems, but they
can instantiate a set: from the well-foundedness of `<` follows that a set of
numbers that is not empty has a least member, and from it induction over sets
of numbers (`EveryNumber`) and of sequences (`EverySequence`). With these the
recursion behind `FlattenSeq` is unfolded once, and its laws are lemmas, here and
in `TableWalkProofs`.

### BoundHoist

`IInv` is `TypeOK` with the nesting of scopes (`OpenNest`, `ClosedNest`),
`JumpsOut` (a jump names a scope it stands in), `Named` (which steps name a
variable), and `Hoisted` (each bound has a home the pass allows). `Loaded` adds
that while the program is within a home's scope, the copy is what the source
would read. The steps inside keep it because the pass chose no scope with a
step that could change the bound, an attached field apart; and every way into
the scope is through the load, for no jump leads into a scope from outside:
this is where `JumpsOut` and the nesting are needed.

### LanguageServer

`WakeIsNotLost` is inductive by itself. `NoOrphan` needs `Retracted`: when the
diagnosing thread is at its store, nothing that the path was remembered for is
still shown, unless this diagnosis found it again.

`LastDiagnosisStands` speaks of a server at rest, and the way there has to be
accounted for, for any compiler and any grouping of files into programs.
`Undisturbed` keeps what a diagnosis has come to so far, step by step: after its
publishing its error is shown, after its retracting nothing else is shown on its
file, after its store that is what is remembered for the file. `Timely` says that
the diagnosis under way or made last is of the texts as they are, unless another
one is due; `AnyDue` follows an edit from the handler that was told of it, over
`pending`, to the list the diagnosing thread works off, and no step between two
of these drops it. At rest nothing is due; with `NoOrphan`, whatever else is
shown is remembered for another file.

### TableWalk

`TypeOK /\ StackIsPath` is inductive: a child is pushed as its parent's count is
raised, and a pop uncovers a level that already was a path. `Walking` adds what
`NothingSkipped` needs, that a call under way has no answer yet. The reference
is recursive, and pages may lie beneath themselves, so the first lemmas are that
it is defined: from the deepest level up, each level has its rows (`RowsExist`,
`RowsType`). Then the reference is taken apart where the walk takes its steps: a
leaf gives its next row and the rest (`LeafFirst`), an interior page what is
beneath its next child and the rest (`ChildFirst`), a page that is used up
nothing (`NothingFrom`), and a stack what its deepest level gives and then the
others (`StackedFirst`). Each step of the loop is one of these.

### Transfer

`Place` adds what each
loop of the reader knows of how far it is: `total` is the length of the record
the buffer has begun and fits the buffer, and a bufferful is full or the stream
is at its end. With it the buffer being filled begins where the bytes handed over
end, which is a multiple of `Capacity`.

### Chunked

The three properties, with one more conjunct, are inductive: a body that was
refused is given up (`result = -1 => pc = "stop"`), so a verdict is never carried
over to a longer text. What takes the proof is that the code and the reference
read at different paces: one call reads a whole line again from its start, and
the automaton takes one symbol at a time. So the lemmas run the automaton over
what a call reads. Digits are counted and summed as `value` does it (`SizeScan`,
by induction over the digits, both sides being recursive functions that are
shown to exist first: `Feeding`, `Valuing`); a line goes on up to its CR
(`LineScan`); a piece of data becomes that many places of the body
(`DataScan`). From them follows what the automaton knows at the end of a size
line and of a trailer line, or wherever the bytes at hand end within one
(`SizeLineEnd`, `TrailerLineEnd`). That a body refused or over stays so (`Stays`)
turns a refusal met in the line into one of all that has arrived, keeps phase 4
right while more arrives, and says that a text not refused was not refused a
symbol earlier, which is what asking for more needs. A call then ends in one of
three ways, each with a lemma that says what the automaton must know for the
invariant to be kept: `RefuseKeeps`, `WantKeeps`, `AdvanceKeeps`. `Knowledge`,
which the automaton never leaves, has the two facts the phases rest on: a chunk
in its data owes something, and a size without digits is nothing yet.

`Transfer` and `Chunked`, the two that read a stream in pieces, have their
theorems in one module, so `Chunked`'s specification has names of its own
(`ChunkedInit`, `ChunkedSpec`).

### Splice

`SpliceInv` speaks of the whole program of a pass, what it has done and what is
before it. Every step is of a splice that was made, and speaks of that splice's
symbols and of no scope but its own and the program's (`Sound`). Every jump
stands between the two marks of its scope (`Home`): a splice takes the place of
a call, which is no mark and no jump, so what stood between two marks still
does, and the marks it brings have a number no step had. `DepthInv` explains the
verdict: a call that a pass still has before it was reached through as many
templates as passes are done, so at the cap there is a chain of `Cap - 1` calls
with a further call at its end. With fewer templates than `Cap` one of them
comes twice, and the templates between are a ring.

`ReadsInv` carries the promise. The splices are a tree: `up` says of each which
one its call stood in, `live` which ones it stands in, and both are quantified,
since the code keeps neither. `Laid` says that the steps follow the tree: a
step finds the program in the scope that the one before left it in, and a
scope's start is followed by a reset of each local. `Inherits` says how a splice
came by its names: a port has a name of the caller's, and its promised cell is
the caller's cell or a copy of its own. The heart is `Alike`, between a splice
and every splice it stands in: two symbols with one promised cell have one name,
and a symbol that the splice may write through (`Written`) has no second cell
under its name. The second half is what the refusal of a clobbered port buys,
and it is false once `relayed`: that is where section 4 has its counterexample. It
needs the least set that `Writes` is, that what is written is assigned or handed
on. From these `Meets` is inductive: in every splice the program stands in, each
name holds what its cell does, but for locals still to be reset, whose cells are
promised 0 already (`Unset`). Leaving a scope stands in fewer splices, repeating
one takes back the locals only, and an assignment changes a name and its cell
in all of them or in none.

### Only model-checked

Liveness (`UnwindingEnds`, the fairness of `KeepsPromise`, `TowerIsLeft`,
`ElaborationEnds`, `SplicingEnds`, `PendingIsTaken`, `StepAnswers`, `TransferEnds`,
`DecodingEnds`), which the prover cannot treat. Every safety property
of the runs is proved, but for the two that the code violates (section 4).

## 6. What is not modelled

Values, expressions, views, buffers, conditions and messages of programs,
beyond the single cells of `Splice` and `BoundHoist`; the text of diagnostics;
layout for hot and cold code. In `Elaborate`: borrowed parts, delegation and
layouts. In `Planner`: assignments, stores, atomics and
fences, which change nothing the planner keeps. In `Citizen`: a `poll` of the
three standard descriptors that fails, and descriptors adopted from outside. In
`Splice`: expressions as actuals, a body's own loops, receivers. In `BoundHoist`:
guards that compare with more than one cell, and addresses that cannot be read.
In `LanguageServer`: hover, completion and the other requests, which only read,
the document cache, and the choice of the host program, which is a constant (in
the code a scan at most every 5 seconds, of texts that may change). In `Citizen`
the stub is one step; a signal within it runs a stub inside the stub, and both
leave the same mask. In `TableWalk`: page numbers past the end of the file, which
the cursor reads unchecked. In `Chunked`: sizes
from `Half` up, which `SizesFit` excludes; the run's bodies have none, which TLC
checks (`ChunkedSizes`). The
handshake of the TLS client is one straight sequence and its arithmetic out of
the model checker's reach; the other HTTP and JSON parsers take the whole text
in one call; SQLite's varints and records are decoding within one call.

The loader, the resolution of names, the record's number writer, register words, the byte scanner and the
core library are each a function of one call that keeps nothing and meets
nobody; they are left to the tests. The disassembler, the layout gate and the
strace audits look at binaries and traces.

`attic/` holds past prototypes and experiments in C and C++ that nothing
builds, runs or documents as part of mereo. The compiler, its library, its
programs and its language server are Python and mereo, and all the definitions
here translate those; none translates the attic.

## 7. What is left

In the order of what it would add:

1. `Splice` composed with `Planner` in place of `SplicedCall`, with receivers
   and repairs.
2. `Elaborate` composed with `Planner`, in place of the constant `Layers`.
3. `Load`: the include graph.
4. Pure modules with references: `WRITE_VALUE`, `register_read` and
   `register_write` over small words.
