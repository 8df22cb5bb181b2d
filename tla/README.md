# A TLA+ model of probabilistic-lua

probabilistic-lua is a probabilistic programming library for Lua: a program is
an ordinary Lua function that calls random primitives (`flip`, `multinomial`,
`gaussian`, ...), `factor` and `condition`, and inference runs it again and
again under Markov chain Monte Carlo, keeping in a *trace* what it chose. The
library relies on a LuaJIT whose `debug.getinfo` tells, for every stack frame,
the function prototype and the bytecode position: that is how a random choice
is recognised from one execution to the next. The repository holds that LuaJIT
too (2.0.1, in `LuaJIT-2.0.1`), and every part of the library stands on it:
its tables, its collector, and its trace compiler, which decides what of a
program's accesses to tables is still carried out.

This directory holds TLA+ models of the library's core and of these parts
of LuaJIT, the configurations that check them with TLC, and theorems about them
that TLAPS checks.

## 1. Inventory

### The library

| Component | Source (`src/probabilistic/`) | State | Operations |
|---|---|---|---|
| Execution traces | `trace.lua` | per trace: records of variables in `vars` (by name) and `varlist` (in order of execution, the same Lua tables), the position in that list, `logprob`, `newlogprob`, `oldlogprob`, loop counters, `conditionsSatisfied`, `returnValue` | `new` (with rejection initialisation), `deepcopy`, `freeVarNames`, `varDiff`, `lpDiff`, `traceUpdate`, `proposeChange`, `currentName`, `lookup`, `addFactor`, `conditionOn` |
| The singleton trace | `trace.lua:109,114-160,284-311` | the trace of the running execution | set and reset by `traceUpdate`; read by `lookupVariableValue`, `factor`, `condition` |
| Random walk kernel | `inference.lua:63-110` | which variables it may change; proposals made and accepted | `next` |
| LARJ kernel | `inference.lua:113-294` | counters of jumps, diffusions, annealing steps | `next`, `jumpStep`; interpolation traces |
| MCMC | `inference.lua:297-331` | current trace, samples | `mcmc`, `traceMH`, `LARJMH` |
| Queries | `inference.lua:9-60` | none | `distrib`, `mean`, `expectation`, `MAP`, `rejectionSample` |
| Random primitives | `erp.lua` | none | sampling, log probability, proposal, proposal log probability, per distribution |
| Memoization | `memoize.lua`, `dump.lua` (third party) | cache of each memoized function | call |
| Control | `control.lua` | none | `ntimes`, `replicate`, `foreach`, `whilst` |
| Math tracing | `mathtracing.lua` | the global `math` table, expression nodes | `on`, `off`, operators |
| Helpers | `util.lua` | none | table functions, `randomChoice` |

**Interactions.** A kernel asks a trace for a proposal; `proposeChange` copies
the trace, changes one record and calls `traceUpdate` on the copy, which makes
it the singleton trace and calls the program. The program calls back: each
random primitive ends in `lookup` on the singleton trace, which gives it a
value, old or new. When the program returns, the trace clears what was not
reached, and the kernel compares log probabilities and keeps one of the two
traces. A program may itself run a query (`rejectionSample`), under a trace of
its own.

**What is hard.** There are no threads; what is hard is that a trace is state
that one execution leaves and the next, with a different control flow, reads.
Everything cached in it can be stale: a record's log probability and
parameters, the flat list and the position in it, variables that are no longer
reached, loop counters. The same record is held twice, in `vars` and in
`varlist`. The programs are arbitrary callbacks that re-enter the trace. And
the acceptance ratio is made of terms that different parts of one proposal
accumulate (new variables, lost variables, numbers of free variables), which
no test of a mean over 150 samples tells apart.

**What makes each component correct.**
- Traces: after an update, a trace is exactly what executing the program from
  its own choices would give; `vars` and `varlist` hold the same records.
- Proposals: the two probabilities returned are those of the move made and of
  its reverse.
- Lookup by position (`structureIsFixed`): finds what lookup by name would.
- Kernels: never move to a world that is impossible or violates a condition;
  count what they do.
- MCMC: the samples are those of every `lag`-th state of the chain; it ends.
- Singleton trace: an execution ends with the trace with which it began.
- Primitives: samples and proposals are values of positive probability, and a
  proposal's log probability is that of the way it was drawn.
- Memoization: equal arguments, one execution of the function.

### LuaJIT

| Component | Source (`src/LuaJIT-2.0.1/src/`) | State | Operations |
|---|---|---|---|
| Garbage collector | `lj_gc.c`, `lj_gc.h`; upvalues in `lj_func.c`, threads in `lj_state.c` | per object: its color; the phase, the current white, the lists `gray`, `grayagain`, `weak`, `mmudata`, the positions of the sweeps | a step (`gc_onestep`), a full collection (`lj_gc_fullgc`), the barriers, closing an upvalue, calling a finalizer |
| Tables | `lj_tab.c` | array part, nodes with their chains, `freetop` | `lj_tab_get*`, `lj_tab_set*`, `lj_tab_newkey`, `rehashtab`, `lj_tab_reasize`, `lj_tab_next`, `lj_tab_len` |
| Interned strings | `lj_str.c` | the string table | `lj_str_new` |
| Trace compiler, control | `lj_trace.c`, the ends of recording in `lj_record.c`, switches in `lj_dispatch.c` | the bytecode (patched in place), the traces by number, their chains, exit counters, the trace under recording, a pending patch, the penalty cache | hot count, exit, `trace_start`, `trace_stop`, `trace_abort`, flushes, `jit.on` and `jit.off`, freeing of traces |
| Recorder and memory optimizer, accesses to tables | `lj_record.c`, `lj_opt_mem.c`, the rules of `lj_opt_fold.c` for tables | of the trace under recording: its instructions with a chain per opcode, the references that hold the variables, snapshots | recording a load, a store, a length, an allocation, `setmetatable`; alias analysis, forwarding, elimination of dead stores |
| Other instructions, loops, assemblers | the rest of `lj_record.c` and `lj_opt_fold.c`, `lj_opt_loop.c`, `lj_asm*`, ... | the IR of one trace | translations |
| Parser, bytecode files, debug information | `lj_lex.c`, `lj_parse.c`, `lj_bcread.c`, `lj_debug.c`, ... | none kept | translations |
| Interpreter, errors, libraries, FFI | `vm_*.dasc`, `lj_err.c`, `lib_*.c`, `lj_c*.c`, `lj_alloc.c` | stacks | the language |
| Build tools, `jit.*` modules | `host/`, `../dynasm`, `jit/` | none | run at build time, or print |

**Interactions.** The interpreter allocates, and on a backward branch or call
takes a step of the collector when the debt says so: the collector's steps fall
between any two instructions, and the only thing that keeps its colors true is
the barrier each store has to run into. Tables keep the keys of removed entries
without keeping them alive, so that strings are freed while nodes still refer to
them. Counters in loops, calls and exits call the trace compiler, which patches
the bytecode and the exits of traces to enter traces by number; traces are
objects of the collector, which gives numbers back. The recorder follows one run
of the program, looking at the values the interpreter has; what it emits is
folded at once against what it emitted before, and is then executed in other
runs, in which other variables may hold the same table.

**What is hard.** The collector and the program interleave at the grain of an
instruction. An object can come back: an interned string that is dead, a
userdata in its finalizer, an upvalue that is found open, a weak table's value.
Numbers and addresses come back, too: a trace number or a string's address
that is used again is still held by somebody. Nodes of a table are moved while
their chain is relinked. Recording is a protocol of small steps which an error,
a flush or a return into a function that is switched off can leave anywhere.
Whether an access is left out depends on what may have happened between two
instructions in *any* run: on which references may be to the same slot, on
whether a new key moved the parts of the table, on what allocations have
escaped. A wrong answer shows only when two variables happen to hold one table.

**What makes each component correct.**
- Collector: what a program can reach is never freed; garbage is freed by a full
  collection; a finalizer runs once; black objects never refer to white ones.
- Tables: a table is a map from keys to values, a traversal visits each entry
  once while entries are changed or removed, the length is a border, and no
  call runs for ever.
- Strings: equal strings are one object.
- Trace compiler: bytecode enters the trace that was compiled for it, what may
  run is kept, numbers are not lost, no exit is compiled twice, and taking an
  instruction out of compilation leaves it the instruction it is.
- Memory optimizer: in every run, up to the guard that fails, a trace leaves the
  heap and the variables as the interpreter would.

The hazards of the code, line by line, are listed in `PROJECT.json`.

## 2. The modules

| Module | What it models |
|---|---|
| `LogProb` | log probabilities as Lua numbers: integers, the two infinities and NaN, with sums, differences and the comparison with `math.log(math.random())` |
| `ExecutionTrace` | the operations of `RandomExecutionTrace`, as operators on trace records |
| `RandomWalk` | `mcmc` with a `RandomWalkKernel`: one action per call of the executing program, per end of an execution, and per step of the kernel; type, safety and liveness properties |
| `TraceUpdate` | `traceUpdate` as one step: the traces that an execution can leave, made of the same operations |
| `LARJ` | `mcmc` with a `LARJKernel`: one action per step of the kernel (diffusion, jump, annealing step, decision), executions atomic |
| `ProgramExecutions` | the executions of a program, call by call, without trace, list or cache: what the traces are compared with |
| `SampleChain` | what a chain of samples promises: the abstract specification, in which executions are atomic; annealing changes no structural choice |
| `RandomWalkChain`, `LARJChain` | `RandomWalk` and `LARJ` against `SampleChain` and `ProgramExecutions`: the refinements, and the properties that need the executions of the program |
| `RandomPrimitives` | `flip`, `multinomial`, `uniform`, `gaussian`: samplers and proposals draw by draw, and the probabilities declared for them |
| `Programs` | the programs and primitives of the runs |
| `Collector` | a collection phase by phase and object by object, full collections, finalizers and barriers, under a program of loads, stores, closures and coroutines |
| `HashTable` | a table's array part and chained nodes under assignments, traversal, resizing, and strings that take over a freed string's address |
| `Dictionary` | what a program may rely on of a table: the abstract specification that `HashTable` implements |
| `TraceCompiler` | the life of traces: recording and every way it can end, patches, exits, chains, penalties, flushes, freeing and numbering |
| `MemOpt` | the recording of accesses to tables, the optimization of what is recorded, and the execution of the result, against the interpreter |
| `ExecutionTraceProofs`, `ProgramExecutionProofs` | lemmas: what each operation on a trace keeps well formed; a trace in the course of an update is an execution under way |
| `RandomWalkProofs`, `LARJProofs` | theorems about `RandomWalk` with its chain, and about `LARJ` |
| `CollectorProofs` | theorems about `Collector`: finalizers, the marking operators, the collector's steps; the program's steps, and the invariants |
| `HashTableProofs` | theorems about `HashTable`: chains, stores, rehashing and traversals over tables of any size |
| `RandomPrimitivesProofs` | theorems about `RandomPrimitives`: counting draws, for any number of outcomes |
| `TraceCompilerProofs` | theorems about `TraceCompiler`: recursion, linked lists and reachability over any number of traces; the steps, and the invariants |
| `MCRandomWalk`, `MCLARJ`, `MCRandomPrimitives`, `MCCollector`, `MCHashTable`, `MCTraceCompiler`, `MCMemOpt` | give the constants their values |

### Correspondence to the code

A trace (`ExecutionTrace`) is a record with the fields of the Lua object.
Because `vars` and `varlist` hold references to the same tables, the records
live in `recs` and both hold indices into it: an assignment through one is seen
through the other, and a record dropped from one may stay in the other.
`rootframe` and `computation` are constants of an execution and are left out.

The program is a function of what its calls returned so far: `Computation(p,
h)` is the next call of program `p` after results `h`. A call of a primitive
carries the stack of frames it is made from, so `CurrentName` follows
`currentName`: a name is the frames from the root, each with its loop counter,
and only the counter of the topmost frame is incremented. Names are nested
tuples instead of strings. Primitives are given by four operators (support,
proposals, log probability, proposal log probability).

| Code | Model |
|---|---|
| `RandomExecutionTrace:new`, rejection loop | `Attempt`, `EndAttempt`, `Initialised` |
| `traceUpdate` before and after the computation | `BeginUpdate`, `EndUpdate` |
| `lookup`: record at the list position, found by name, created | `LookupListed`, `LookupNamed`, `LookupNew` |
| `factor`, `condition`, a nested query | `CallFactor`, `CallCondition`, `CallNested` |
| `RandomWalkKernel:next` with a free variable | `Propose`, the calls, `EndProposal`, then `Accept` or `Reject` |
| `RandomWalkKernel:next` without | `Rerun`, the calls, `EndRerun` |
| the loop of `mcmc` | `NextReturns` (part of the actions that end an iteration), `Finish` |
| `LARJKernel:next`: nothing free, diffuse, jump | `Rerun`; `DiffuseAccept`, `DiffuseReject`, `DiffuseRerun`; `Jump` |
| `jumpStep`: an iteration of the annealing loop, with `LARJInterpolationTrace` | `AnnealAccept`, `AnnealReject` |
| `jumpStep`: the decision | `JumpAccept`, `JumpReject` |
| errors of `jumpStep` (nil record, `assert(not var.structural)`, no `traceUpdate` on an interpolation trace) | `JumpFails`, `AnnealFails`, `DecideFails` |

In `ClearVars` only `vars` is cleared by the code, and the update that follows
clears `varlist`; the model drops the unreachable records at once.

In `LARJ` the weights of an interpolation are fractions of `AnnealSteps - 1`.
While a jump is under way the model multiplies log probabilities by that number
(`Scale`), which changes no comparison and keeps them integers; `0 * infinity`
is NaN (`Times`), and so is everything with a single annealing step, where
alpha is 0/0. `LARJInterpolationTrace`'s `returnValue` names a variable that
does not exist and would raise an error; nothing reads it, and it is left out.
The parameters of the kernel belong to the program (`Kernel`: annealing steps
and jump frequency), so that one run has programs under different kernels.

**Collector.** `marked` is the object's color (or "free"), `fields` what it
refers to, `gc` the collector's part of `global_State`. The types of a
program's objects are chosen at the beginning (`kind`). The lists are sets: in
what order a gray object, a string chain or the root list is worked off is left
open, except for `mmudata`, whose order is that of the finalizers.

| Code | Model |
|---|---|
| `gc_onestep`, by phase | `MarkStart`, `Propagate`, `EndPropagate`, `Atomic`, `SweepString`, `SweepRoot`, `Finalize`, `EndFinalize` |
| `atomic` | `Atomic`: open upvalues, weak tables, the running thread, `grayagain`, userdata to finalize, clearing, in this order |
| `gc_sweep` of a thread, `lj_state_free` | `Sweep`: its open upvalues with it; those that survive a dead thread are closed |
| `lj_gc_fullgc` | `FullGC`, then steps, `FullCycle`, then steps, `FullReturns`; a finalizer runs in between |
| `gc_call_finalizer` | `Finalize` until `FinalizerReturns`; the program runs in it; an error also leaves `lj_gc_fullgc` |
| barriers | `BarrierF`, `BarrierBack`, `BarrierT`, `CloseUpval` |
| `lj_str_new`, `func_finduv`, `lj_func_newL_gc`, `lj_func_closeuv` | `Intern`, `Closure`, `InnerClosure`, `CloseUpvals` |
| `lj_meta_tset`, `lua_rawseti`, `lua_setmetatable`, `USETV`, `lua_setupvalue` | `Store`, `StoreInt`, `SetEnv`, `SetUpval`, `DebugSetUpval` |

A table has one entry, enough for a key, a value and the dead key that a removed
entry leaves; a function has one upvalue. `called` and `doomed` are history: how
often an object's finalizer was called, and the garbage there was when a full
collection's own cycle began.

**Tables.** Slot `i` of the array part is `array[i + 1]`; `node` is a function
on 0 to `hmask`; pointers to nodes are their indices, and the shared `nilnode`
is a hash part of one node without room. Keys hash by `NumHash` and, for
strings, by the hash of the string that is at the address now (`strhash`). The
value stored under a key is the key itself, so that a value in the wrong place
shows. `Reuse` is the collector freeing a string whose last references are dead
keys, and another string being allocated in its place. `fits` turns false when
an insertion finds no room right after a rehash (which would rehash without
end), or no predecessor of a colliding node.

**Trace compiler.** The whole state is the record `jit`, because most functions
of `lj_trace.c` call each other and several can happen within one event. The
bytecode is an opcode of four kinds (the instruction itself, its `I` form, its
`J` form with a trace number, and anything else) per place where root traces
start. `Hot`, `TraceExit`, `Record`, `Call`, `Atomic` and `Sweep` are the
events: a counter of the interpreter, an exit of a trace, an instruction while
recording, a call of the `jit` library, and the collector. What the recorder
does with an instruction is left open: it goes on, ends with one of the links
that the recorder can choose (`Links`: itself or its root, a compiled loop or
function, the interpreter), or aborts with an error, with one of
the errors that have effects of their own (a flush, down-recursion), and the
same of the assembler (`Finish`).

**Memory optimizer.** A program is a sequence of statements on local variables
(`x.k`, `x.k = v`, `#x`, a new table, `setmetatable`), chosen one by one. `runs`
has, for each of several initial states, the interpreter's state before every
statement, `actual` is the run that is recorded, and `J` the recorder:
instructions (numbered from 1, constants negative), `slot` (the reference of each
variable), a snapshot of the slots per statement.

| Code | Model |
|---|---|
| `lj_record_idx`, `rec_idx_key`, `lj_record_mm_lookup` | `RecordGet`, `RecordSet` (`RecordAdd`, `RecordReplace`), `RecIdxKey` and `HashKey`, `RecordNoMetamethod` |
| `lj_opt_fold` and the rules for these instructions | `Fold`, `FoldCompare`, `AbcK`, `LoadTabAh`, `FwdSize` |
| `aa_table`, `aa_escape`, `aa_ahref`, `aa_fref` | `AaTable`, `Escapes`, `AaAhref`, `AaFref` |
| `fwd_ahload`, `lj_opt_fwd_hrefk`, `lj_opt_fwd_href_nokey`, `lj_opt_fwd_tptr`, `lj_opt_fwd_fload`, `lj_opt_fwd_tab_len` | `FwdAhload`, `FwdHrefk`, `NoKey`, `NoNewref`, `FwdFload`, `FwdTabLen` |
| `lj_opt_dse_ahstore`, `lj_opt_dse_fstore`, `lj_opt_fwd_wasnonnil` | `Eliminate`, `WasNonNil` |

The chain of an opcode is the set of its instructions; a walk along a chain is
the youngest instruction that ends it. What the instructions do (`Execute`,
`Trace`) is the machine code the assembler makes of them, which is not modelled:
they are executed in order, a pointer into a table carries the number of times
its parts had been reallocated, and an access through an older one, or a store
to the shared nil, is `bad`. A guard that fails leaves the trace for the
snapshot of its statement. The tables are those of `HashTable`.

## 3. The runs

The library's programs are those of `test.lua` with discrete primitives and
short loops (`Programs` quotes the lines): branches whose choice is marked
structural or not, a recursive power law, loops over one call site, a call site
reached directly or through a function, observed variables, factors, an
impossible world, a program with nothing to change, nested queries. The log
probabilities are integers chosen so that different sums differ: a term left
out of a sum, or counted twice, shows.

| Run | Question |
|---|---|
| `traceMH` | `traceMH` on the unmarked programs, and the kernel of `LARJMH` that keeps the structure fixed on those that mark their structural choices; two iterations per sample. Lookups by position agree with lookups by name (`FlatListAgrees`), every trace held between executions is an execution of the program from its own choices (`TracesAreExecutions`), `vars` and `varlist` agree (`FlatListsAreDatabases`), proposals come with the probabilities of the move and of its reverse (`ProposalProbabilities`), conditions hold (`ConditionsHold`), nothing impossible is accepted (`AcceptsOnlyPossible`), types (`TypeOK`), the chain of traces refines the chain of samples (`ImplementsChain`), and under fair draws `mcmc` returns with all its samples (`ChainCompletes`) |
| `larj` | `LARJMH` without annealing, with a jump frequency of 50 % and with the default one, and with three annealing steps and the default frequency, as `test.lua:28-33` run it: the acceptance threshold of a jump with the constant frequency is the ratio for the move and its reverse (`JumpReversible`); jumps, annealing and diffusions together refine the chain of samples (`ImplementsChain`); the traces annealed are executions of the program (`TracesAreExecutions`) and agree on shared variables (`SharedValuesAgree`); no step raises an error on the programs that mark their structural choices (`NeverFails`); the counters add up (`CountersAddUp`); no violating or impossible trace is accepted; types |
| `primitives` | `flip`, `multinomial`, `uniform`: a value is drawn as often as its log probability says (`SamplesAsWeighted`), a proposal as often as its log proposal probability says (`ProposesAsDeclared`) |
| `collector` | the collector and a program in every interleaving: nothing reachable is freed (`NoDangling`), no black object refers to a white one (`TriColor`), a gray object waits in one list (`GrayListed`), all is white between cycles (`WhiteBetween`), a finalizer is called once (`FinalizedOnce`), a full collection frees the garbage there was (`FullFreesGarbage`) |
| `tables` | a table is a dictionary (`ImplementsDictionary`), every entry is found in its node (`EntriesFound`), a traversal does not lose its key (`TraversalGoesOn`), chains and rehashes end (`CallsEnd`), the length is a border (`LengthIsBorder`), types |
| `traces` | bytecode enters its own trace (`EntersItsTrace`), what may run is kept (`RunningKept`), numbers are not lost (`NumbersFound`), side traces are chained, counted and compiled once (`SidesChained`), instructions stay what they are (`InstructionsKept`), types |
| `memopt` | short programs over tables, each recorded in one run and executed in all of them: the trace leaves heap and variables as the interpreter does (`TraceAgrees`), and the run that was recorded does not leave it (`RecordedRunStays`) |
| `gaussianDrift`, `setupvalue`, `resurrectedKeys`, `nojitReturn`, `movedKeys` | five places where the code and what it says of itself disagree; see section 6 |

### Bounds

*Library.* Four iterations of the chain, a sample every second one: an update needs
one earlier execution to inherit stale state from, and a variable that was
dropped needs a second one to come back and a third one to be sampled. Programs
make at most six calls (`MaxCalls`, `CallBound`), among them up to four random
choices, enough for a variable to appear, disappear and reappear and for a loop
to revisit its call site; values are 0 to 3, sites four, stacks at most two
frames deep. `MCHistories` holds, per program, every sequence of results its
calls can have. `LARJ` runs take two or three iterations: a jump, then a second
one back from what the first one left, two samples in all. Three annealing steps give the weights 0,
1/2 and 1. The constant `Settled` names the programs of which `NeverFails` is
claimed: those whose structure changes only by choices marked structural
(`KeepsStructure`), and whose names are marked in one way (`MarksChoices`). The
others (a branch on an unmarked flip, structure from a nested query, a
structural choice reached only through an unmarked one) can end in
an error of the kernel, and do, in `AnnealFails` and `DecideFails`.

`primitives` puts a draw of `math.random()` on a grid: flip's probability is in
fifths; a multinomial has up to three outcomes of weight 0 to 2, not all zero,
and a draw is the middle of one of as many equal parts as there is weight, or 0
for draws below the initial accumulator. Three outcomes put a weightless one
first, between others, and last. The continuous distributions are on the
integers 0 to 4; the Gaussian's density is the table `Bell`.

*Collector.* Eight heaps of two or three objects beside the main thread, each
object of a chosen type and free to be allocated, freed and allocated again
without limit; two stack slots per thread. A violation of a barrier takes the
object stored to, the object stored and a way to hold one of them; the heap of
closure, upvalue and thread adds the owner of the stack an upvalue is open in.
Cycles are not bounded: 659 000 states.

*Tables.* Integer keys 1, 2, 4 (next to each other, and with a hole that needs
the larger array part), two strings that collide with each other and with
integers, one reuse of an address. Three numbers and two strings fill and
overflow hash parts of one, two and four nodes, and move entries between the
parts in both directions. `resurrectedKeys` needs a chain of five and two
reuses. `MaxAbits` is 5, so that no key is too large for an array part, and `MaxInt`
(`INT_MAX`) is 9, so that the doubling of `unbound_search` overflows when 1, 2 and
4 are all in the hash part; the theorems hold for every value of both.

*Trace compiler.* Programs with one place for a root trace of each kind (a loop
in one prototype, which is switched off and on, a function and a return in another)
and two trace numbers, or three numbers (a root, a side trace, and one more) and
the loop alone, or a return and a loop in a third prototype that it links to. One
exit per trace; hot at the first exit and one further attempt (`HotExit`,
`TrySide`); one side trace per root (`MaxSide`); one place in the penalty cache
with blacklisting at the second penalty; side traces of side traces down to
`MaxDepth` 2. The numbers are the smallest with which every limit is reached and
passed: 729 000 states.

*Memory optimizer.* Nine scenes, each with two to four runs and every program of
three to six of its statements: accesses to array parts at `i`, `i+1` and
constants; to hash parts with constant and variable keys, where the same key is
in different nodes; new keys that move the parts of a table; new tables and
copies of a template, their contents, and their escape through another table;
an integer moved between the parts; metatables set, replaced and shared; stores
of nil under a metatable; lengths. The runs of a scene differ in which variables
hold the same table and the same key, which is what alias analysis must not
guess wrong: a wrong step needs an access that makes a fact known, one that
makes it untrue in another run, and one that still relies on it, three
statements. A program allocates at most two tables; the integers are 1 to 3, and
the two strings used as keys collide. The scene of `movedKeys` is a table with
room for four integers, to which a key of another kind is added.

### Fairness

`FairSpec` of `RandomWalk`. `WF_vars(Next)`: nothing but an error stops a Lua
program between two calls. For the rejection loop, `SF_vars(PromisingDraw(k))`
for every length `k`: attempts draw with independent `math.random()`, so if
attempts reach, again and again, a k-th call that is a draw and from which a
satisfying execution is still possible, then again and again the draw keeps it
possible. Nothing is assumed about proposals or about acceptance: every
iteration ends whatever they do.

The models of LuaJIT state no fairness. The collector advances when a program
allocates, and a program need not; a trace is compiled when something is hot.
What must end is inside one step there (`CallsEnd`, `FlushProto`).

### Mutants

`PROJECT.json` names for every property a plausible bug that it catches, as
operators of the modules (comments `Mutant:` and `A bug:`).

## 4. What is proved

`RandomWalkProofs`, for every program, primitive, chain length and choice of
variables to change, under the assumptions named in the modules
(`SpecialsAssumption`, `NoneAssumption`, `ComputationAssumption`,
`ErpAssumption`, `KernelAssumption`: the calls of programs and the results of
primitives have the types that the Lua functions take and return).

- `TypeCorrect`: `Spec => []TypeOK`. The inductive invariant `IInv` adds to
  the types what makes `proposeChange` safe: a proposal picks a variable of the
  current trace and looks it up in a copy made from the flat list alone, so
  every record in `vars` must be in the flat list, under its own name, whenever
  a trace is held between executions (`HeldOK`). During an update this is so of
  the active records only (`UpdatedOK`), and the clean-up at its end removes
  the others. One lemma per operation of a trace shows that it keeps these, one
  per action that it keeps `IInv`.
- `NeverAcceptsImpossible`: `Spec => AcceptsOnlyPossible`. Minus infinity and
  NaN survive every further sum (`PlusImpossible`), and a threshold that is
  either is never passed.

The same module, with the lemmas of `ExecutionTraceProofs` and
`ProgramExecutionProofs`, for every program under a kernel that may change the
structure (`traceMH`), and under the kernel of `LARJMH` that keeps it fixed for
every program that keeps its structure (`FixedAssumption`, below):

- `ListsAreDatabases`, `ListingsAgree` and `UpdatesAreExecutions`:
  `FlatListsAreDatabases`, `FlatListAgrees` and `TracesAreExecutions` hold throughout. Neither says anything of a trace while it
  is updated, so neither is inductive. The invariant `Chained` follows the update
  call by call: the active records are the choices of an execution that is under
  way (`Follows`), in the order of the flat list, each under a name that was not
  taken before because the counter of its topmost frame grows; their cached log
  probabilities are those of their values and parameters (`Cached`), the trace's is the
  sum, and what the inactive records hold is what the assignment that the update
  started from gives the names not yet reached (`Moves`). That assignment is
  that of the current trace with one proposed value (`Proposed`), or none in the
  rejection loop. At the end the clean-up drops the inactive
  records, and what is left is the execution's choices, whatever the execution
  before it had been: no record, parameter, log probability, list position or
  counter of it shows. With the structure fixed nothing is cleaned up and lookups go
  by position: there the invariant says that the records met and those not yet met
  make up the choices that the program makes in this structure, in order
  (`Planned`, `MetSoFar`), so that the record at the position is the one for the name.
- `SatisfiesConditions`: `ConditionsHold` throughout. A proposal or an attempt is
  taken only if it satisfies the conditions, but without a free variable
  `RandomWalkKernel:next` executes the program again and looks at nothing
  (`inference.lua:89`). The hypothesis `RerunsHold` is about this rerun alone:
  where an assignment leaves nothing to change and one execution from it satisfies
  the conditions, they all do. A condition on the outcome of a nested query can
  break it, and with it `ConditionsHold`. `RerunsAreSame` proves it for programs
  without nested queries, which have one execution from a full assignment; in the
  runs, the one program of `traceMH` with a nested query has no condition.
- `ChainImplemented`: `ImplementsChain`, under the same hypothesis. The first
  execution, an acceptance and a rerun map to a `Step` of `SampleChain`, all the
  rest to stuttering; a rejection is a step that goes nowhere. The operators of
  the instance are shown equal to those of `ProgramExecutions` (`SameExecutions`).

*Structure.* That a program keeps its structure is a property of many executions,
not of one. `KeepsStructure(p)` says what an update with `structureIsFixed` relies
on: two executions under way that have made the same choices, with the same values
where the choice is structural and not observed (`Outlines`), make the same next
choice, or both return. `MarksChoices(p)`: a name always stands for the same
primitive, marked in the same way. Both are stated about the program alone
(`ProgramExecutions`), not about traces; TLC evaluates the assumptions on the
programs of the runs, where the programs that they exclude are those with an
unmarked branch, structure from a nested query, or a structural choice that an
unmarked one leads to.

`Chained` was checked by TLC on the programs of `traceMH` before it was proved.
Executions are a recursive function of the number of calls (`After`); the provers
know nothing of recursion, so `ProgramExecutionProofs`
derives what the proofs need of it (`AfterSteps`) from well-foundedness.

`LARJProofs`, for every program, annealing length and jump frequency
(`LARJAssumption`, and those of the traces):

- `CountersCorrect`: `Spec => []CountersAddUp`. While no jump is annealed the
  kernel's own counters are sums (`Balanced`). During the annealing they are not:
  its steps are counted at once but added to the annealing counters only at its
  end, so the invariant (`Ahead`) says by how much they are ahead, and that what
  was accepted before the jump is noted in it.
- `TypeCorrect`: `Spec => []TypeOK`. The inductive invariant `TypeInv` says of the
  current trace and of both traces that are annealed that they are well held
  (`HeldOK`, as for the random walk), and while annealing that a step is left
  (`JumpOK`). A trace in `LARJ` is left by a whole
  update in one step (`TraceUpdates`); `UpdatedInCalls` takes it apart into the
  calls of the program, each of which keeps what is needed (`CallKeeps`,
  `UpdateHeld`), and `FinitelyMany` shows that the numbers of variables that
  enter the threshold are numbers.
- `NeverAcceptsImpossible`: `Spec => AcceptsOnlyPossible`. Neither the ratio that
  the annealing has collected nor the proposals can make up for a new trace that
  is impossible (`JumpThreshImpossible`).

The same module, for the settled programs (`SettledAssumption`: they keep their
structure and mark their choices), under every kernel:

- `UpdatesAreExecutions`, `SharedAgreesAlways`, `SettledNeverFail`:
  `[]TracesAreExecutions`, `[]SharedValuesAgree`, `[]NeverFails`. The three support
  each other in the invariant `Chained`: the current trace and both traces of a jump
  are held executions (`Held`), the traces of the jump agree on the variables they
  share, the variable that the jump changed is in both, there is something to anneal
  while annealing goes on, and the new trace has the structural values of the current
  one, but for that variable (`KeepsStructural`); before the first annealing step it is
  what the change of this one variable leads to (`Proposed`). `UpdateExecutes` puts
  the lemmas on calls together for an update in one step (`TraceUpdates`). An
  annealing step changes a variable that is structural in neither trace
  (`LerpNonstructural`, from `MarksChoices`), so both updates keep their trace's
  structure (`FixedMoveExecutes`), and with it its free variables (`SameFree`), and
  change no shared value but that one, in both traces alike (`AnnealExecutes`,
  `AnnealedAgree`).
- `SatisfiesConditions`: `ConditionsHold` throughout. Under this kernel the program
  is executed again, and its conditions not looked at, also when an iteration is to
  diffuse and there is nothing to diffuse (`inference.lua:89`). The hypothesis
  `RerunsSettle` says of both cases that executing the program again from all its
  choices satisfies the conditions again, and, in place of a diffusion, gives the same
  execution. `RerunsAreSame` proves it when no settled program has a nested query; TLC
  confirmed it for the executions of the programs of `larj`, one of which has one.
- `ChainImplemented`: `ImplementsChain`, under `RerunsSettle` and `DrawsPossible`: a
  value that is not impossible can be drawn. A diffusion and a jump without annealing
  change one choice (`MoveRefines`), as in a random walk. The trace of an annealed jump
  is any execution with the structural choices kept: `AnnealRefines` takes it
  from `Chained`, and `Redrawn` shows that whatever values annealing has given its
  other choices, an execution could have drawn them. Jumps, annealing steps and errors
  stutter.

`Chained` was checked by TLC on the programs of `larj` before it was proved.

The proof of `TypeCorrect` corrected the model's `TypeOK`, which had also claimed
that the trace with the old structure keeps the variable of the jump. It does not
where a structural choice depends on an unmarked one: an annealing
step can then take the variable away. TLC confirms it on the program
`hidden choice`, which the run `larj` now has among its unsettled ones.

`CollectorProofs`, for every finite heap and every program (`HeapAssumption`):

- `FinalizersOnce`: `Spec => []FinalizedOnce`. The invariant `FinalizerInv`
  follows a userdata through its separation: those that wait for their finalizer
  are in the list once, are remembered as finalized, have not been called, and
  are not among the objects to be swept, because sweeping one would free its
  place for another userdata; whoever has been called is remembered as long as
  the object lives. A finalized userdata that is freed is forgotten and called
  zero times again in one step.

The same module, for every finite heap and every program that does not call
`debug.setupvalue` (`kind \notin Debug`; the violation run `setupvalue` shows that the theorems are false without this
hypothesis):

- `NothingDangles`, `BlackIsDone`, `GrayIsListed`, `AllWhiteBetween`:
  `[]NoDangling`, `[]TriColor`, `[]GrayListed`, `[]WhiteBetween`. None of the four
  is inductive: whether the program can reach a freed object depends on paths of
  any length, and it decides what is black only by what the lists hold. The
  invariant `SafeInv` speaks of single references instead and has five parts.
  `TypeInv` and `FieldsInv` say what the fields of each kind of object can hold, in
  particular that an open upvalue belongs to a thread that is not freed. `LiveInv`
  says that what is live (not freed, and not a dead white that is still to be swept)
  refers only to what is live, and so do the roots: with it, what the program
  reaches is live by the shape of a path (`IsLive` is closed). `PhaseInv`
  says what each phase adds. In the mark phase it is `MarkInv`: nothing is dead,
  what a black object refers to is marked (waived for userdata that wait for
  their finalizer, which are marked afresh), only some kinds of objects can be
  gray or black, and the lists hold the gray ones that are traversed. During the
  sweep (`SweepInv`) whatever does not have the current white is still to be
  swept, and between cycles everything has it. `FinalizerInv` is needed because
  what waits for its finalizer is swept apart. First comes
  what the marking operators keep, among them that `atomic` marks all that is
  live, then one lemma per step of the collector, and one per step of the
  program, with its barrier.
- `FullCollectionsFree`: `[]FullFreesGarbage`. `DoomedInv` follows what was garbage
  when the last cycle of a full collection began: it is white, no finalizer is
  due for it, and nothing outside of it keeps it alive (`Garbage`), so no step of
  the mark phase reaches it (`Spares`), `atomic` leaves it dead, and the sweep
  ends only when it is freed.

`SafeInv` was checked by TLC on the eight heaps of `collector` before it was proved.

`HashTableProofs`, for every set of keys, every hash function and tables of any
size (`TableAssumption`: integer keys are natural numbers and no strings, hashes
are natural numbers, `Nil` and `Done` are not keys):

- `TypeCorrect`: `[]TypeOK`, also when addresses of strings are used again: the
  repair of a chain (`Rechain`) may then link what it likes, but no link leaves
  the nodes, and an entry has a key.
- `LengthsAreBorders`: `[]LengthIsBorder`, also with addresses used again, since
  lengths need no chains to be right but only that the shared `nilnode` of a table without
  a hash part stays empty (`LengthInv`). `BisectIs` shows that a halving search ends
  between a value and a nil. The doubling of `unbound_search` ends
  (`DoublingEnds`) because every step has found one more value, and a table has
  no more integers with values than slots (`IntsFinite`: each sits in a slot of its
  own); so does the linear search that an overflow falls back to (`SomeIntIsNil`).
- `EntriesAreFound`, `CallsAlwaysEnd`, `TraversalsGoOn`: `EntriesFound`,
  `CallsEnd` and `TraversalGoesOn` hold throughout as long as no address of a
  removed string is used again (`reused = 0`). The violation run
  `resurrectedKeys` shows that `EntriesFound` is false without this. The invariant
  `EntriesInv` says of the nodes (`Chains`): no chain runs in a circle (`Ends`: a
  set of nodes has one that leads out of it), a node has one predecessor, every
  key is in one node, in the chain that begins at its main node (`Reached`), and
  not in the array part. Two of its parts are what moving a colliding node relies on:
  a chain begins with a key that belongs there (`Rooted`), so a node that does not
  has a predecessor in its own chain, and no chain leads to a free node
  (`FreeUnlinked`). `ChainsInserted` and `ChainsMoved` show the two ways of taking in a
  key to keep the chains, and nothing is rechained (`RechainNothing`).
  `ResizeKeeps` follows `resizetab` slot by slot (`FilledUpTo`): the nodes in use
  are no more than the entries stored so far. That there is room for all of them and for
  the key that caused the rehash (`RehashRoom`) is counted from what `bestasize`
  leaves to the hash part; with it the retried insertion succeeds at once.
- `DictionaryImplemented`: `ImplementsDictionary`, in runs that use no address
  again. `SetStores` says what every lookup gives after a store, through moves and
  rehashes. For traversals the invariant (`Traversed`) says that what was visited is
  what has an index up to that of the current key: `NextIs` shows that `lj_tab_next`
  comes to the next entry, and `SameIndex` that a store over an entry moves no key.

`RandomPrimitivesProofs`, for all parameters, any number of outcomes of a multinomial,
any grid, interval, mean and bell (`PrimitivesAssumption`: the weights are natural
numbers, the points of the grid integers):

- `SamplesWeighted`: `[]SamplesAsWeighted`. The probability of a value is
  counted from the draws that the sampler turns into it. For a multinomial,
  `LoopEndsIs` and `SampleIs` show where the loop of `multinomial_sample` stops: at
  outcome `v` exactly for the draws from the sum of the weights before `v` up to that sum
  with the weight of `v`, so that neither the comparison nor the index is off by one and
  outcomes of weight zero are never drawn. `PartsCount` counts these draws.
  The sums are folds over sets, so `SumsTakeOut` is proved first: whichever term
  the fold takes out, the rest has the same sum.
- `ProposalsDeclared`: `[]ProposesAsDeclared`, among primitives without `gaussian`: with
  the current value's weight projected out for the multinomial, by flipping,
  and by sampling the prior for uniform. The
  violation run `gaussianDrift` shows that it is false of `gaussian`.

`TraceCompilerProofs`, for every set of bytecodes, prototypes,
programs and exits, any number of traces and all parameters of the compiler
(`CompilerAssumption`: the bytecodes of the kinds are distinct, the parameters
natural, the numbers of traces bounded, `Null` and `Cur` not traces):

- `Consistent`: `[]Inv(jit)`, and from it `Typed`, `EntersItsTraces`,
  `KeepsRunning`, `FindsNumbers` and `ChainsSides`: `[]TypeOK`,
  `[]EntersItsTrace`, `[]RunningKept`, `[]NumbersFound`, `[]SidesChained`. The
  five support each other, so the invariant has a part for each reference
  between traces, bytecode and chains. `ChainInv`: the chain of a prototype is a
  finite list without repetition (`ListOf`) of root traces that start in it and
  have not been found dead; without it a flush, which unlinks one trace, could
  lose others or never end. `EntryInv`: the trace that an instruction enters, or
  will enter when the pending patch is made, is in that chain and starts there,
  so that flushing a chain takes back every instruction. `TreeInv`: side
  traces form a tree (their nodes have ages), live and die with their root, and an
  exit that has one is done counting. `LinkInv`: what a live trace refers to is
  live. `SideInv`: the side traces of a live root are the list it heads, and are
  counted. `FreeInv`: below `freetrace` no number is free. `PatchInv` and
  `CurrentOnly`: the patched instruction is the plain one meanwhile, and the number
  being recorded is the only one that is taken and has no trace. These hold between the parts of a step
  (`Core`); a recording adds (`Recording`) that its instruction still is the one to
  patch, its parent is marked, and its exit has no side trace yet. That the
  collector keeps what runs follows from two closures: what runs is marked
  (`RunningMarked`), because a side trace is in the list of a root which is in
  a chain, and what is marked is live (`MarkedFacts`). There is a lemma per
  function of `lj_trace.c` and one per action.
- `KeepsInstructions`: `[]InstructionsKept` when no function whose returns start
  root traces is ever switched off (`NoReturnSwitched`). The violation run
  `nojitReturn` shows that it is false without this hypothesis.

`Inv` was checked by TLC on the programs of `traces` before it was proved. The
chains are walked by recursive functions over `0..MaxTrace`. What the proofs need
of these is derived from well-foundedness: a set of numbers has a
least member (`Least`), and so a property that is handed on holds throughout an interval
(`Induction`) and a recursive function exists (`Recursion`); the properties
are given as sets, since the provers cannot instantiate operators.

Only model-checked: `ProposalProbabilities` and `JumpReversible`, which equate
sums that the code and `MoveLP` take in different orders and which infinities
enter; `ChainCompletes`, because liveness under fairness is
out of their reach; all properties of `HashTable` but its types and lengths once an
address is used again; and the properties of `MemOpt`, which compare two executions
that are defined by recursion over the program. `oldlogprob` is a fold over a
set, which would need induction over data, and is left out of the types.

## 5. Not modelled

- Rounding. Log probabilities are integers; sums are exact.
- Errors raised inside a program, and the singleton trace across nested
  queries: a nested query is one step.
- The numerical samplers and densities of `erp.lua`, from `gamma` on, and the
  Gaussian's beyond a table. In `RandomWalk` and `LARJ` primitives are parameters.
- Memoization, queries on samples, math tracing. Printing (`stats`), exports
  (`init.lua`), third-party code (`dump.lua`).
- The interpreter itself (assembler): the stack of call sites is an input of
  `ExecutionTrace`, the instructions are an input of `Collector` and
  `TraceCompiler`.
- Collector: userdata without finalizers, a full collection called from within a
  finalizer, cdata, prototypes and traces as objects, shrinking of stacks and of
  the string table, the debt that decides when a step is taken, and the
  collection at exit.
- Tables: `lj_tab_dup`, numbers that are not integers and keys of other types,
  which hash and chain alike, the error when a hash part would be too large
  (`LJ_MAX_HBITS`), and the cache of missing metamethods.
- Trace compiler: recording and optimization of anything but accesses to tables,
  and the assemblers; vmevents, hooks and
  profilers (an abort by one is an error outcome); the patch of `FORI`, which goes
  with that of its `FORL` (every loop may be such a loop for a trace that enters it,
  `EntersLoop`); machine code and its protection.
- Memory optimizer: traces with a loop, whose body is copied and whose variables
  become `PHI`s (`abc_fwd`, `abc_invar`, `fwd_aload_reassoc` work on those);
  loads and stores of upvalues and cdata; write barriers; swapping of operands;
  metamethods that are called and errors (such a run has left the path:
  `Left`); the cache of missing metamethods; nil, 0 and NaN as keys. The heaps are
  compared by the contents and metatables of tables, not by the order of their
  nodes.
- Parser, bytecode files, libraries and FFI: translations and calls without state
  of their own.

## 6. Where the code and what it says of itself disagree

1. *The Gaussian's drift kernel is never drawn from* (`gaussianDrift`). It is
   named `propval`, so proposals are inherited and come from the prior, with
   the log proposal probability of a drift from the current value.
2. *`debug.setupvalue` and a shared upvalue* (`setupvalue`). The barrier is for
   the function that was passed, not for the upvalue that was stored to. When
   another closure of the same upvalue has been marked, and this one has not,
   the value is freed while it can be reached.
3. *Two resurrected keys in one chain* (`resurrectedKeys`). When a colliding node
   moves, string keys whose main node it was are taken out of the rest of its
   chain. With two strings that took over the addresses of freed ones, the
   second anchored at the node of the first, the move cuts the second off; no
   lookup finds the entry any more.
4. *A return into a function that is switched off* (`nojitReturn`). Down-recursion
   restarts recording at a return of a lower frame, whose function may be
   `jit.off`. Its instruction is then "blacklisted" like a loop's, which makes
   another instruction of it.
5. *An integer key moved to the hash part* (`movedKeys`). In a table that the
   trace allocates with an array part, a store to an integer key is an `ASTORE`.
   A new key of another kind rehashes the table, and the integer may end in the
   hash part, where the next load of it is an `HLOAD`. Only stores of its own kind
   are searched, so the load is folded to the contents of the allocation, which
   the assertion of `lj_opt_mem.c:182` excludes. The code looks for keys that
   move in the other direction only.

### Known limits without a run of their own

The library:
- Cleared variables come back: an update with fixed structure drops unreached
  variables from `vars` but keeps them in the flat list; the next `deepcopy`,
  made from the flat list, stores them again (`trace.lua:125`).
- The likelihood of a variable that is observed when first met is added to
  `newlogprob` and cancels out of the acceptance ratio (`trace.lua:237`).
- Without free variables the current trace is updated in place and not checked:
  a rerun may violate the conditions (`inference.lua:89`).
- By default a kernel jumps with a probability that depends on the numbers of
  free variables, and a jump changes them; that choice is not in the ratio
  (`inference.lua:213`), so jumps as `test.lua:28` makes them are not reversible.
  `JumpReversible` is a property of a constant `jumpFreq`.
- The new trace of a jump may violate a condition when annealing begins; the
  annealing can leave such a trace but never reach one (`inference.lua:241`).
- A lookup by position looks at neither name nor primitive, so with an unmarked
  choice of branch (`test.lua:254-263`) under the diffusion kernel the variable
  of one branch is given to the other; `FlatListAgrees` is therefore checked on
  the programs that mark their choices.
- A call site that uses two primitives replaces a record whose log probability
  is then missing from `oldlogprob` (`trace.lua:230-240`);
  `ProposalProbabilities` is checked on programs without such a site.
- With one annealing step every jump that anneals is rejected (alpha is 0/0), and
  so is every jump whose new trace is impossible when annealing begins.
- `binomial_logprob` excludes the largest value, which the sampler can return
  (`erp.lua:327`); `mathtracing.on()` twice loses the original `math` table.

LuaJIT:
- `jit.flush(n)` of a trace that was flushed before, after its loop was compiled
  again, takes the new trace's patch away (the assertion of `lj_trace.c:190`
  would fail); the new trace is merely not entered any more.
- A flush from a hook while bytecode is unpatched for the time of a recording, or
  from the handler of the "start" vmevent, finds the compiler in the middle of
  its work; neither is modelled.
- `jit.flush(func)` raises an error (`lib_jit.c:73-83`) although
  `doc/ext_jit.html:85-95` documents it.
- The counter of an exit is eight bits wide, with 255 for a compiled one: the
  parameters `hotexit` and `tryside` are not checked against it.
- A finalizer that sets the metatable of a userdata which is waiting for its own
  runs into the assertion of `lj_gc.c:744`.
- Elimination of dead stores looks for guards and explicit loads only, and the
  call of `lj_tab_len` is neither: after `t[3] = 1; n = #t; t[3] = 2` the first store
  may be dropped (`lj_opt_mem.c:348`). The scene of lengths has no such store.
- `lj_opt_fwd_wasnonnil` compares the type of a `KSLOT` with that of a plain key
  (`lj_opt_mem.c:874-882`), so a store of nil under a variable string key counts as
  one to another place than a constant key's; the check of the metatable is then
  skipped. The scenes that store nil under a metatable have constant string keys.
- The length of a table with several borders may differ between trace and
  interpreter; the scene of lengths has tables without holes.
- A parent trace is not marked while its side trace is recorded; it is kept by
  what leads to it (`RunningKept`).

## 7. Plan

1. Done: the traces and the random walk (`LogProb`, `ExecutionTrace`,
   `RandomWalk`, `SampleChain`, `RandomWalkChain`).
2. Done: `TraceUpdate`, `LARJ`, `LARJChain`; `RandomPrimitives`.
3. Done: the parts of LuaJIT with state of their own: `Collector`, `HashTable`
   with `Dictionary`, `TraceCompiler`, and the optimizer of accesses to tables,
   `MemOpt`.
4. Open in the library: `SingletonTrace` (`traceUpdate` as a stack discipline over
   nested queries, with an error at any call), `Memoize`, `MathTracing`, the
   queries on samples, `binomial` and `poisson`.
5. Open in LuaJIT: loops, upvalues and cdata in `MemOpt`; the arithmetic rules of
   `lj_opt_fold.c` as rewriting on words of a small width; finalizers of cdata; the buffering of `lj_bcread.c`.
6. Theorems. Done: the invariants of `Collector`, of `TraceCompiler` and of
   `HashTable`, the chains of `traceMH` and of the LARJ kernel, the refinements
   of `SampleChain` and `Dictionary`, and the probabilities of `RandomPrimitives`. Next: what a table still promises when
   one address is used again; `ProposalProbabilities`.
