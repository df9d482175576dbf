# A TLA+ model of the Visuall compiler, its runtime and its tools

Visuall is a compiled language: a C++ compiler that produces LLVM code, a C
runtime library with a garbage collector and a goroutine scheduler, a package
manager (`vslpkg`) and a language server. This directory holds TLA+ modules that
model them, the TLC configurations that check the modules, and proofs for TLAPS.

* Parse a module: `tlasany M.tla`; check a run: `tlc -config run.cfg M` (module
  and cfg of every run are in `PROJECT.json`); check the proofs: `tlapm M.tla` for
  each module `...Proofs` and for `FiniteInduction`.
* `PROJECT.json` maps every definition to the source lines it models, lists the
  hazards of the code with the properties aimed at them, and for each property a
  mutated definition under which TLC refutes it. Operators commented "Mutant" in
  the modules are these; nothing else uses them.

## 1. Inventory

### 1.1 Run time

| Component | State | Operations | Hard behaviour | What makes it correct |
|---|---|---|---|---|
| Scheduler, `stdlib/scheduler.c` | `ready_head/tail`, `sched_initialised`, two worker threads | `go_create`, `worker_loop`, `sched_enqueue`, `sched_dequeue`, `sched_init` | threads; one `next` field in lists under different locks | a task is in one place; a ready task runs |
| Channels, same file | ring buffer, `closed`, two queues of blocked tasks, a lock each | `chan_create`, `send`, `recv`, `close` | `recv` releases and retakes its lock; `close` holds it over calls; blocked callers resume by repeating the call | first in, first out; nothing lost; nobody waits without need |
| Collector, `stdlib/gc.c` | heap list, free lists by size class, heap bounds, counters, global roots, mark bits | `alloc`, `alloc_object`, `collect`, `register_global`, `register_thread`, `shutdown` | conservative stacks, other threads running, out of memory | reachable objects survive; blocks and bytes are accounted for |
| Pointer map, same file | open-addressing table | insert, lookup, remove, rebuild | probing, deletion without tombstones, growth and shrinking | finds exactly the blocks of the heap |
| Chunk table, same file | hash table from address chunks to blocks | init, add, grow, find, free | chunk boundaries, allocation failures in the middle | an inner address leads to its block or nowhere |
| Runtime library, `stdlib/runtime.c` | lists, tuples, dicts, sets, stacks, queues, generators, the traceback | the `__visuall_*` functions | tombstones, capacities, sentinels, slices, exceptions | maps behave as maps; limits are respected |

### 1.2 Compiler

| Component | State | Operations | Hard behaviour | What makes it correct |
|---|---|---|---|---|
| Lexer | position, line-start flag, indentation stack | `normalizeIndentation`, `tokenize`, `handleIndentation` | blank lines, comments, dedents over several levels, recovery | INDENT and DEDENT are the block structure |
| Parser | position | recursive descent, `synchronize` | recovery makes progress | ends on every input |
| Type checker | scopes, class table | tree walk | unions, generics, narrowing, subclasses | what it accepts can be compiled as it was typed |
| Capture, class, escape analyzers | sets of names, field lists, allocation sites | tree walks | nested functions, inheritance, aliases | captures resolve; fields of a base keep their place; what outlives a frame is not in it |
| Code generator, statements | scopes, loop and try contexts, generator frames | one function per node | finally on every way out, locals across `yield` | generated control flow is the language's |
| Code generator, expressions | cells, static classes and strings by name, instances of generics | one function per node | one static type, several representations | every value is read as what it was stored |
| Module loader | aliases, cache | `registerAlias`, `resolve`, `load`, `takeAllLLVMModules`, imports | order of imports, names kept and renamed | a call reaches the function it names |
| Linker, driver, paths, builtins, AST printer | none that lasts | merging, command lines, tables, printing | clashing names | it links, or says why not |

### 1.3 Tools

| Component | State | Operations | Hard behaviour | What makes it correct |
|---|---|---|---|---|
| Resolver, `src/vsl_resolver.cpp` | work list, chosen versions, aliases | `resolveDeps`, `buildLock` | cycles, unordered maps | minimal version selection; ends |
| `vslpkg install`, `tools/vslpkg`, `src/vsl_manifest.cpp` | clones, temporary manifests, package directories, `vsl.lock` | `cmd_install`, `fetchManifest`, `fetchPackage`, `writeLock` | concurrent processes, git failures, kills | directories and lockfile are complete |
| Language server | running flag, shutdown flag, open documents, index | read, dispatch, respond; open, change, close | batched incremental edits, stale index, end of input | both sides hold the same text; every request is answered |

The components meet as follows. Generated code calls `chan_*` and `go_create` of
the scheduler; workers call generated code. Both call `alloc`, which may
collect; the collector walks the scheduler's queues (`mark_roots`) and uses the
pointer map and the chunk table to resolve words it finds. `main` takes a file
through lexer, parser, the analyzers, the type checker, the code generator with
the module loader, and the linker. The module loader reads the `vsl.lock` and the
directories that `vslpkg install` writes; `install` runs the resolver, whose
`fetcher` callback is `fetchManifest`. The language server runs lexer, parser and
type checker on every text an editor sends.

## 2. The modules

| Module | Models | Composed with |
|---|---|---|
| `FifoChannel` | abstract: a channel is a bounded queue, or a direct handoff | - |
| `Scheduler` | tasks, workers, channels, by critical sections | `Fifo == INSTANCE FifoChannel WITH queue <- ...` |
| `SchedulerProofs` | types, places of tasks, handoff; `Scheduler` implements `FifoChannel`; what becomes of a value that is sent | EXTENDS `Scheduler` |
| `TaskLists` | the linked lists under the queues, by pointer accesses | history variable `queue` is the abstraction `Scheduler` uses |
| `TaskListsProofs` | pointers spell queues | EXTENDS `TaskLists` |
| `GcHeap` | allocator, marking, sweeping, by phases | `MCLiveness`, beside `Scheduler` |
| `GcHeapProofs` | the allocator's books; marking | EXTENDS `GcHeap`, `FiniteInduction` |
| `PtrMap`, `ChunkTable` | the collector's tables | `MCStructures` |
| `AddressTableProofs` | probes end and find the heap, also after a removal; interior pointers lead to their blocks | EXTENDS `PtrMap`, `ChunkTable`, `FiniteInduction` |
| `Collections` | the collections of the language, slices | `MCStructures`, beside an abstract value `abs` |
| `CollectionsProofs` | arrays and tables stand for their values | EXTENDS `Collections`, `FiniteInduction` |
| `Source` | statements and their meaning: the reference | `Compiler` |
| `Machine` | the LLVM blocks the generator emits, and their execution with unwinder and generator frames | `Lowering`, `Compiler` |
| `Lowering` | the statement half of `codegen.cpp`, a function from a tree and the kind of body to blocks | `Compiler` |
| `Compiler` | a function is lowered, verified, called and run | compared with `Source` |
| `Expressions` | the trees of `ast.h` | all of the following |
| `TypeChecker`, `Analyzers` | `typechecker.cpp`; the capture, class and escape analyzers | `Frontend` |
| `Representation` | the expression and declaration half of `codegen.cpp`, by the LLVM type of each value | `Frontend` |
| `Lifetimes` | reference: which allocations of a function outlive it | `Frontend` |
| `Frontend` | the passes of `main.cpp` over one program | INSTANCEs the five above |
| `Lexer` | layout: leading whitespace, indentation stack, comments | `MCCompiler`, `MCLexer` |
| `LanguageServer` | message loop, documents, index, diagnostics, and an editor | `MCCompiler` |
| `LanguageServerProofs` | the server ends with the editor's documents, and with an answer to each request | EXTENDS `LanguageServer`, `FiniteInduction` |
| `ModuleLoader` | aliases, resolution, cache, imports, renaming, linking, over files that change | `Workspace` |
| `PackageResolver` | resolution, each loop iteration a step | `MCTools` |
| `PackageStore` | installs, each git command or file operation a step | `Workspace` |
| `Workspace` | a build of one project while any project installs | EXTENDS `PackageStore`, `ModuleLoader`; used by `MCTools` |
| `PackageProofs` | a lock is the minimal version selection; installs are complete; calls reach their functions; builds use the locked sources | EXTENDS `Workspace`, `PackageResolver`, `FiniteInduction` |
| `FiniteInduction` | least elements, minimal sets, sums over finite sets, folds | - |
| `MCPrograms` | programs, files and texts to run the compiler on | `MCCompiler`, `MCEscapes`, `MCLexer` |
| other `MC...` | constants, compositions, symmetry and views for TLC | EXTEND or INSTANCE their modules |

### 2.1 Scheduler and TaskLists

A thread is a worker or the main program. `pc` is its control point, `arg` the
arguments of the channel call it is in, `wake` the local variable with a task
it is about to enqueue, `cur` the task a worker executes. `saved[t]` stands for
the resume point of a state machine: the call that a resumed task repeats.
Each action is one critical section of the channel lock, or one `sched_enqueue`
or `sched_dequeue`. Where the code gives the lock up in the middle of a call
(`recv` lines 277-295, the direct handoff of `send`, every round of `close`),
control passes to another value of `pc` and every other thread may step in.

Compiled programs currently pass `NULL` continuations (`codegenChanSendStmt`,
`codegenChanRecvExpr`); the API that `scheduler.h` states also admits
continuations. The model lets every call of a task choose; the main program can
only pass `NULL`. A task that passes a continuation saves its position before
the call and returns to the worker when the call has queued it, which is the
contract of `scheduler.h`. `sends`, `recvs`, `accepted`, `delivered`, `returned` and
`dropped` are observation only. A sent value is its number, so values are
distinct and order is visible.

The steps of `TaskLists` are the single reads and writes of `next`, `head`,
`tail` in `sched_enqueue_locked`, `sched_dequeue_locked`, `blocked_enqueue` and
`blocked_dequeue`. `Scheduler` uses sequences; this module shows that the lists
spell those sequences although one field serves lists under different locks.
The collector's walk takes no lock, as in `mark_roots`.

### 2.2 GcHeap

A block has a size, a tag and pointer fields; addresses are abstracted to an
order, and a pointer is to the base or to the inside of a block. The tracer
`Traced` follows for each tag what `mark_internal` follows. `phase` is the place
of the holder of `gc_lock`: allocation first tries the free list, may collect
at the threshold, calls `malloc`, may collect and retry, and installs the block;
a collection marks from the roots, object by object, and sweeps block by block.
The other thread only stops when it allocates, as in the code. `Interior = TRUE`
lets a program hold on to an inner pointer alone, as optimised code does. A program
stores to a global and loads from it whether it is registered as a root or not: compiled
programs register none, C programs may (`RegisterGlobal`, which only warns when the table is
full). `lost` is history: a collection has freed an object to which a global that is no root
refers. Deep recursion of `mark_internal` is not modelled.

### 2.3 PtrMap, ChunkTable, Collections

`PtrMap` starts from every placement of its keys (`ptr_hash` is a variable that
never changes), so every pattern of collisions and wrap-around in a small
table is met. `ChunkTable` starts from every ordered choice of disjoint blocks
of a pool that holds the boundary cases, lets any allocation fail, and looks every
address up at the end; `lost` records what could not be stored. Both are written with the
bucket counts themselves where the code keeps their logarithms and masks. `Collections` is
one collection of some kind and the value it should stand for; an operation
changes both, the array as the C function does and the value as the language
means. Slices are compared with the selection that Python's rule makes.

### 2.4 Statements: Source, Machine, Lowering, Compiler

`Source` has the statements and runs them: effects in a trace, how a list ended
(`return`, `throw`, `break`...), and an allowance of loop iterations. `Lowering` is
`codegen.cpp` read as a function: its state record holds the blocks built so
far, the insertion point, the scopes, and the loop, landing pad and generator
contexts that the class has as members, saved and restored where the code does
so. `Machine` runs blocks: branches, a call that throws goes to the landing pad of
the `invoke`, `resume` leaves the function, `switch` of a generator dispatches on
the saved state, and cells that are not part of the generator's frame have no
value after a `yield`. `Compiler` lowers a body, lets LLVM verify the function, and
calls it; a generator is asked until it says that it ended, and twice more. A body has a
kind: a function, `main`, a generator, or `bare`, which is what methods, static methods, inits and
instances of generics are (`LowerBare`): they put no name on the traceback, and their returns
take one off it like every other. Of the traceback the machine keeps the number of names
(`tb`); the call finds those of its callers there, one or as many as there is room for. The calls
that a body makes are of functions of the runtime, which put no name there.

### 2.5 Programs: Expressions, TypeChecker, Analyzers, Representation, Frontend

A program is a tree, and a visitor a function of a node and of the object whose
members it changes; `Then(v, F)` passes what one visit returned to what follows it,
in the order of the C++ code. `TypeChecker` walks the tree with its scopes and notes for every
operation the types it was done with (`uses`); an error is the abstract fact that
there is one. `Representation` walks it again and gives every value the LLVM type
the generator gives it; what LLVM would refuse goes to `bad`, a value read
as another type than it was stored goes to `mis`, and `shown` has the types of
what is printed. `Analyzers` computes captures, fields and the allocation sites
that may be on the stack. `Lifetimes` computes from the language's meaning which
sites outlive their function, and by which way. `Frontend` performs the passes one
after the other, as `main` does, and ends where one fails.

### 2.6 Lexer and LanguageServer

A line of `Lexer` is its leading whitespace and a few pieces: code, the start of a
line comment, a block comment mark. `Tabs` is `normalizeIndentation`; an action is one
turn of the loop of `tokenize`. The reference is the block structure that the
indentation shows, defined on the lines and not on the tokens.

`LanguageServer` has both ends of the pipe. The editor keeps a text of characters,
edits it by ranges, gathers edits into a message, and may ask, close, shut down,
say nonsense or hang up at any time. The server keeps bytes, applies the edits
by line and column, analyses, indexes and publishes. Characters of two bytes are
in the model because the two sides count columns differently. `Bytes` is what the editor
puts on the wire; a `wide` character is two of them.

### 2.7 ModuleLoader, PackageResolver, PackageStore, Workspace

`ModuleLoader` compiles a main file with imports and calls: what is registered, found,
cached, exported, renamed and linked, and what each call becomes. Its files may change under
it at any step (`FilesChange`); `steady` records that none has since the compilation began,
which only the promise about where a module was found needs. A world of
`PackageResolver` gives the root manifest and the manifest of each version of each
package. The dependency maps of the code are unordered, so dependencies are
enqueued in every order. In `PackageStore` a process performs `install` step by
step on a disk it shares with the others; git may fail and a process may be
killed at any step, which `faults` counts. `Workspace` puts a compilation next to installs:
`StoreDirs` and `StoreLock` are what the compiler sees of the disk of `PackageStore`, after
each step of an install. The modules of a project's own are left out of it, as no property
that it adds is about them.

## 3. The runs

### 3.1 Runs that pass

| Run | Shows | Bounds |
|---|---|---|
| `sched` | no task in two places; no value lost, sent twice or overtaken; a receiver waits only at an empty buffer; the refinement of `FifoChannel` | 2 tasks, 2 workers and the main program, an unbuffered channel and one of 2 slots, 3 sends, 2 receives, 1 close |
| `liveness` | ready tasks run; a close releases blocked senders; collections end beside a second thread, and leave the allocator consistent | scheduler: 2 tasks, 1 slot, 2 sends, 2 receives, 1 close; collector: 2 blocks, 2 threads, class instances, interior pointers |
| `gc_heap` | nothing reachable is freed, but for what an unregistered global refers to; marks are exact; blocks, bytes and bounds are right | 3 blocks, 2 stack slots, 1 global, registered or not, one block per free list, out of memory |
| `structures` | task lists spell their queues and scans end; the tables of the collector and the collections of the language stand for their abstract values; slices | 3 tasks, 2 threads, one channel; 4 keys, 4 hash values, capacity 4 to 8; up to 3 blocks of 7, chunks of 4 addresses; collections of up to 4 elements, dicts of 4 keys in 16 places |
| `compiler` | layout, control flow, types and representations, captures, fields, lifetimes, and the documents of the language server | files of 3 lines; some 5000 bodies of statements two deep, each as a function, main, a method and a generator, called with one name on a traceback of two and with two; a family of some thousand programs; one document, texts of 3 characters, 2 edits, 3 messages |
| `tools` | the lock is the maximum of the minimums and resolution ends; installs are complete; a build beside them uses the locked sources; calls reach their functions and modules link | 3 packages of up to 3 versions with diamonds and cycles; 2 projects that share a repository and a package, one fault anywhere, 1 build; main files of two imports and a call over two modules in up to three places |

A run is several models side by side where one question covers them; the
behaviours of one part leave the others at rest.

Why these bounds are enough to be interesting: two workers and the main program are
the code's own thread count; two tasks and the main program give every pair of
roles on a channel, and three tasks give a list a middle. Three sends through two
slots make an index wrap. Three blocks allow a cycle, a chain and a free block at once;
the limit of one block per free list makes it overflow. Blocks beyond every size class, a root table that
is full and several roots are within the constants of the proofs, and not of these runs. Capacity 8 from 4 makes the pointer map grow and
shrink, and the hash values 0, 3, 6, 7 collide in both sizes and wrap at the end.
Blocks that end at, start at and span the boundaries of chunks cover each case of the
division. A traceback of two is full when two callers are on it. Two statements around a jump are an
inner and an outer finally, loop or handler, which is what its contexts can confuse.
Three lines are a block, its end and what stands in between (four lines were checked
once as well). Two edits in one message shift each other. One fault is enough for a partial
clone, a partial directory and an interrupted wipe to be met by a later install (two were
checked once as well).

Bounds are constants with names: `MaxSends`, `MaxRecvs`, `MaxCloses`, `MaxMapCap`,
`MaxLen`, `TRACE_DEPTH`, `SourceFuel`, `MachineFuel`, `MaxLines`, `MaxText`, `MaxEdits`,
`MaxSent`, `MaxFaults`, `MaxBuilds`, and the finite sets. `Symmetry` permutes tasks and
workers, or stack slots and globals, which no definition tells apart, and is used in runs
without liveness only. `View` in `MCGcHeap` hides the header of blocks that are not on the
heap list, which nothing reads before `Install` overwrites it.

`CHECK_DEADLOCK FALSE` appears where the system may rightly stop: all calls the
bounds allow are made and workers are idle, every block is handed out or the
process has exited, the algorithm has returned, the program is compiled.

### 3.2 Where code and text disagree

Six runs refute a statement that a comment or the changelog makes, quoted in
`PROJECT.json`.

| Run | The code |
|---|---|
| `sched_close_receivers` | a receiver that waits when the channel is closed is woken, and blocks again: `recv` never tests `closed`, though `scheduler.c:322` says it can "observe closed" |
| `lists_walk` | the collector walks the ready queue without its lock, and can leave the list with a task that a worker takes; it then misses the tasks behind it, which nobody has taken out, though `gc.c:1049` says each "must survive GC" |
| `gc_globals` | what only a module variable refers to is freed, so the next function that reads it has a dangling pointer: nothing that the generator emits registers a global, though it makes them "so other functions see the new value" (`codegen.cpp:3168`) and `gc.c:15` counts registered globals among the roots |
| `gc_go_args` | the argument array of `go` has the tag of a task "for GC tracing" (`codegen.cpp:2911`), but a task is traced by its second word only |
| `escapes` | a list that a function puts into a field, a list or a container under its name, and that its caller still reaches, is built in the frame of the function, though `escape_analyzer.h:22` says a field store "forces heap allocation" and `escape_analyzer.cpp:217` that what is assigned to an element "escapes into a container" |
| `space_indented` | a line indented by spaces behind a blank line is an error: `normalizeIndentation` takes the newline of the blank line for the first character of its text; `lexer.cpp:78` says it "lets users write space-indented code without hitting IndentationError" |

The models contain further behaviour that a reader of the source should know of. No
run is about it, and the passing runs are set up, or their properties worded, so that
they claim nothing beyond it.

*Scheduler and collector*

* `recv` on an unbuffered channel wakes a sender and may block itself; the sender
  repeats its call and may block too. A value that is taken by a receiver's second attempt
  frees a slot without waking a sender (`scheduler.c:277-304`).
* A call with a `NULL` continuation never blocks: `send` drops the value, `recv` returns
  0 (`scheduler.c:247`, `313`). `dropped` and the 0 in `returned` stand for this.
* An interior pointer leads to the header of its object, but `mark_internal` is
  called with the pointer itself and marks the bytes before it (`gc.c:794`; `scribbled`).
* Only the stack of the collecting thread is scanned, up to the bottom recorded for
  the main thread (`gc.c:1191`; `RootWords`).
* Boxes are not traced although captured variables in them may be pointers
  (`gc.c:907`; `Traced` and `PointerFields` differ there).
* `alloc_object` does not round up to a size class, but its blocks are cached in one
  (`gc.c:719`, `141`). After a failed `malloc` the free list is not tried again (`651`).
* One `calloc` of `ptr_map_rebuild` is not tested (`gc.c:306`; phase `"crash"`).

So `gc_heap` has one thread, base pointers, and closures, whose tracer is complete, and
`NoDangling` says what holds until an object is lost to an unregistered global (`lost`), which is
what `gc_globals` shows to happen; the properties of the pointer map speak of a process that has not crashed.

*Collections* (`runtime.c`)

* A dict that grows frees its old entries, also those of a literal in a stack frame, which
  the collector allocated (`256`, `codegen.cpp:4849`; `FreeForeign`).
* A list slice that runs backwards from its length or beyond reads behind its elements; a
  stop before the start counts as 0; step 0 is 1 for a list and an error for a string (`154-176`).
* The sentinel of an ended generator, `INT64_MIN`, can also be yielded (`1641`).

*Statements* (`codegen.cpp`; one predicate each in `Compiler`, excluded by its properties)

* `continue` of a counted `for` skips the increment; `return`, `break` and `continue` leave a
  try or with without its finally or `__exit__`, and a catch without ending it; typed clauses
  compare the thrown class with the bases of their own; `throw` alone throws a new
  exception; what a catch throws passes its finally; a cleanup resumes out of the function,
  past outer handlers; a `yield` in the else of a loop only is not seen; generators do not
  save the index of a counted `for`, break flags or with contexts.
* Every return takes a name off the traceback (`2135`), but only `codegenFuncDef` puts one on it
  (`957`): after a call of a method, a static method, an init, an instance of a generic or a
  generator the name of a caller is missing (`1281`, `1217`, `1449`, `5965`, `6252`; `PopsWithoutPush`).
  At the limit a push does nothing, where the "ring-buffer" of the comment (`runtime.c:1386`) would
  give up the oldest name; its pop then removes the name of a caller (`TracebackFull`). A
  function that an exception leaves pops nothing: that is what the traceback prints, but when
  the exception is caught the name stays. `HandlersAndTracebackBalanced` speaks of returns, and gives
  all names back only outside these cases. Methods, inits and instances are not searched for
  `yield` (`YieldsInBare`).
* Not in the model: a void function drops a call in its `return`; in `main`, `gc_shutdown`
  runs before the return expression (`2165`); contexts are not saved for nested functions.

*Programs* (`Frontend`: `Unsupported`, `TextParameter`, `Converted`, `Lost`, `NotOwn`, `Hidden`)

* The checker accepts indexing, `in`, `??` and bitwise operators on operands that the
  generator has no code for; parameters of type str are not treated as strings.
* A variable of the file has a stack cell and a global that drift apart; names that held
  a text or an object in one function are taken for one in the next; an object that
  may live on the stack is not initialised (`Class__init` is looked up, `Class_init` was
  defined: `3978`, `1409`); a method of a parameter of class type compiles to 0 (`4266`).
* Lambdas capture functions and `print` like variables; nested lambdas have no cells.
* A variable that is assigned twice, or from inside another expression, is not followed by the
  escape analysis.

*Lexer and language server*

* Code behind a block comment that ends on its line takes no part in the indentation.
* A text with a lexing error leaves no tokens, and the parser reads the first one all the same
  (`document_store.cpp:98`): the process dies, though the comment there says "error-tolerant".
  A parse error is one diagnostic without a place, and no symbols.
* Columns are taken for bytes, so an edit behind a wide character is misplaced (`skewed`), and one whose
  end then lies before its start replaces the rest of the text (`did_change.cpp:42`).
  Requests after `shutdown` are still served; a message of length 0 ends the server.

*Tools*

* Aliases of transitive packages are the keys of the package that requires them, not
  package names; two root aliases for two majors of one url are a conflict
  (`vsl_resolver.cpp:94`, `141`).
* An existing package directory is taken for the package, whatever a failed checkout
  left in it; directories are named by alias and version only; all installs of a
  repository share a temporary manifest; `vsl.lock` is rewritten in place
  (`fetcher.cpp:183`, `243`, `285`; `vsl_manifest.cpp:168`). So the projects of the run do not
  give one alias to two repositories, a complete install without `--force` is promised only
  until something has failed, and a directory that two projects share may still be in the
  hands of the other one when an install ends.
* Imports inside a module are ignored, so the check for circular imports is never
  reached; private functions, methods and a module's `main` keep their bare names and
  clash at link time; a call `m.f` of what `m` does not export, or before its import, is 0.

### 3.3 Fairness

`Scheduler!Fairness`: a worker that can take a task takes one (workers loop for
ever), the function of a goroutine returns or makes its next call, and a thread
inside the runtime continues. Nothing obliges a program to send, receive, close or
create tasks. `TaskLists!Fairness`: a thread in the middle of a list operation goes on.
`GcHeap!FairSpec`: the thread in the collector goes on. `MCLiveness` takes the scheduler's and the
collector's fairness together, for behaviours of either. `PackageResolver!Step`: the
loop goes on. All of it is what the operating system gives a runnable thread; none uses
strong fairness. The lock waits inside a step are held by threads that never
block while they hold them, except for `close`, whose lock is visible in the model.

## 4. Proofs

| Module | Theorem | States |
|---|---|---|
| `SchedulerProofs` | `TypeCorrect` | `Spec => []TypeOK`; no index leaves a ring buffer |
| | `TaskInOnePlace` | `Spec => []OneQueue` |
| | `HandoffOnlyPastEmptyBuffer` | `Spec => []ReceiverMeansEmpty` |
| | `ChannelsAreFifo` | `Spec => FifoSpec`: the scheduler implements `FifoChannel` |
| | `SendsHappenOnce` | `Spec => []SentOnce` |
| | `DeliveredIsNotLost` | `Spec => []NoDeliveredValueLost` |
| `TaskListsProofs` | `ListsStandForQueues` | `Spec => []ListsRepresentQueues` |
| `GcHeapProofs` | `AllocatorStaysConsistent` | `Spec => []AllocatorConsistent` |
| | `NothingDangles` | `Sequential` implies `Spec => []NoDangling` |
| | `MarkingIsExact` | `Sequential` implies `Spec => []MarkIsExact` |
| `AddressTableProofs` | `ProbesAlwaysEnd` | `PtrMapSpec => []ProbesEnd` |
| | `MapFindsHeap` | `PtrMapSpec => []PointerMapExact` |
| | `ChunkTableAlways` | `ChunkSpec => []ChunkTableExact` |
| `CollectionsProofs` | `CollectionsAlways` | `CollectionSpec => []CollectionsExact` |
| | `SlicesAlways` | `CollectionSpec => []SlicesSelect` |
| `LanguageServerProofs` | `DocumentsAlwaysAgree` | `SessionSpec => []DocumentsAgree` |
| | `AnalysisAlwaysCurrent` | `SessionSpec => []AnalysisIsCurrent` |
| `PackageProofs` | `LockIsExact` | `ResolverSpec => []LockIsMaxOfMinimums` |
| | `MajorsNeverMix` | `ResolverSpec => []MajorsAgree` |
| | `TypeCorrect` | `Spec => []TypeOK` |
| | `InstallsAreComplete` | `NoCollision => (Spec => InstallIsComplete)` |
| | `CallsAlwaysReach` | `LoaderSpec => []CallsReachTheirFunctions` |
| | `OnlyHiddenNamesClash` | `LoaderSpec => []LinkFailsOnHiddenNames` |
| | `BuildsAreLocked` | `NoCollision` and `OneAlias` imply `WorkspaceSpec => []BuildsUseLockedSources` |
| | `BuildsAreCompilations` | `WorkspaceSpec => LoaderSpec` |

### 4.1 What is assumed

Each is for every value of the constants that its module's named assumption admits.

* `ConstantsAssumption` (scheduler): the main program is no worker, `NULL` neither a task nor
  a thread; bounds and capacities are naturals, and a capacity may be 0.
* `ListsAssumption`: the ready list is not a blocked list, and `NULL` names nothing.
* `GcAssumption`: finitely many blocks, sizes and limits that are naturals, a header that is
  not empty, `NULL` is not a pointer. Finiteness is what makes `heap_bytes` a sum at all.
* `PtrMapAssumption`: hashes are naturals, `NULL` is neither a pointer nor a table, the initial
  capacity is at least 4 (it is 512) and the table is shrunk only below half full (`Sparse` is 8).
* `ChunkAssumption`: a heap list holds blocks that do not overlap, and `chunk_hash` gives a
  natural for each of their chunks and for those of the addresses looked up. The sizes of chunks
  and of the first table are any positive numbers.
* `CollectionsAssumption`: hashes lie below the span of the integer they are computed in (2^64),
  and every capacity of a dict divides it, as powers of two do: `dict_remove` adds the step
  before it reduces, and would probe other slots than `dict_find_slot` under another capacity.
  The capacities are closed under the doublings that `MaxLen` elements can cause. Values and keys
  may be any sets.
* `SessionAssumption`: the texts that are written and inserted are sequences, and `NULL`, which
  stands for no document, no range and no answer's id, is none of those. Which characters
  there are does not matter, besides those that the module gives a meaning; nor how many
  documents, nor what bounds.
* `ResolverAssumption`: a manifest has finitely many dependencies and the universe finitely
  many packages; a version is a pair of naturals or one that `parseSemver` rejects.
* `StoreAssumption`: every project has at least one package.
* `LoaderAssumption`: the search path is a sequence, and `Nothing` is no position and no result.
  Files, main files, lockfiles and the names in them may be any.
* `WorkspaceAssumption`: the project that is built is one of those that install, and neither its
  directory nor one of the search path is a directory of the store.

Two theorems about the collector need `Sequential` as well: one thread, no interior pointer
as the only one to an object, no request for a box or a task. These are the conditions of the
run `gc_heap`, and each stands for one statement of section 3.2: the collector scans one
stack, it marks the wrong bytes for an interior pointer, and it does not trace boxes and the
arguments of `go`. Drop any one of them and `NoDangling` is false of the code. What is left
is programs of one thread over the other tags, with pointers where compiled code puts
them (`PointerFields`), however they link their objects and whenever they collect. Module variables
are among them, and they are not safe: compiled code keeps objects in globals that nobody
registers. So `NoDangling` is `lost \/ PointersValid`, and `NothingDangles` says that the freeing of an
object that such a global refers to is where the first dangling pointer comes from, and no
other step of the collector or the program is. In a program that registers a global before it assigns it, `lost` stays FALSE.
`AllocatorStaysConsistent` needs none of them. `InstallsAreComplete` needs `NoCollision` (no two
packages have one directory name) where a checkout by one project stands for that of another;
the code does not ensure it. `BuildsAreLocked` needs it for the same reason, and `OneAlias`: no
two packages of the project that is built have one alias. Within one manifest keys are distinct,
but a package that only another package requires brings its key in that one's manifest, and
`resolveDeps` compares none of them. With two packages of one alias `registerAlias` keeps the
last, and both imports get its modules.

### 4.2 The arguments

*Scheduler, types.* `TypeOK` is not inductive alone: that `send` indexes an existing
channel needs to know that a thread inside a call has one in `arg`, and that a wake
finds a task in `wake`. `ControlOK` says so, and `TypeInv == TypeOK /\ ControlOK`
is inductive, one lemma per action. Ring indices stay below the capacity because
of `%`, and the count because of the guards on room and on emptiness.

*One place.* `OneQueue` speaks of queues and executing workers. The inductive
invariant is `QueueInv == TypeInv /\ Unique /\ HeldCreated /\ QueuesDistinct`:
a task is held by at most one place; only created tasks are held, which is what makes
a new task fresh; no queue holds one twice. The argument is the same for every
action, so it is a lemma: `Transfer` says that if a step moves one task from a place
to another and leaves the rest, `Unique` and `HeldCreated` are kept. Each
action's lemma shows which task it moves and from where.

*Handoff.* `ReceiverMeansEmpty` is inductive over `TypeInv`: a receiver is queued
only in the critical section that saw an empty buffer, and a sender puts a value into
the buffer only in one that saw no receiver.

*Channels are FIFO.* The abstract queue is the ring read from `head`: `Ring(b, h, k, n)`.
Lemmas say what `(head + count) % cap` and `(head + 1) % cap` do to it: append and drop the
first. With them each action is an abstract send, receive, handoff or close, or leaves the
abstract variables alone. `FifoInv` adds what the mapping needs: what a task has saved is the call its thread is in
(`CallsSaved`), values are numbered by `sends` (`Numbered`), `tail` is where `head` and
`count` say (`RingOrder`), so that a push writes behind what is buffered, and
`ReceiverMeansEmpty`, without which a handoff would overtake.

*Sent once.* A resumed task repeats its call, so one value is carried by a call, by a saved
call, and by a call again. `OneCarrier`: a value that is not settled has at most one carrier,
a thread in `chan_send` or a parked task that nobody executes, and what is carried has not been
accepted or dropped. It rests on `QueueInv`: two threads with one task would be two carriers.

*Not lost.* A delivered value is `returned`, or in `recv_value` of exactly one task with
`has_recv` that is in no queue of receivers (`Delivery`). That a new delivery is of a value
not delivered before comes from `SentOnce` and `Conserved`: accepted is delivered followed by
what is buffered. Two facts are needed that no property mentions. `HandedCreated`: only created tasks have
`has_recv`, so `go_create` cannot clear a set one. `Unhanded`: while `recv` is between its
two critical sections nothing has been handed to its task.

*Lists.* In the middle of an operation a list spells something other than its queue: after
`head` moved, the tail of it; before `ready_tail` moved, the queue and the new task.
`Stands(l, s)` says which sequence the pointers of `l` should spell with the current `pc` of
the thread that holds its lock, and `Spelled` and `Tails` say that they do. The one field `next`
in lists under different locks is the difficulty: a write to `t.next` must not be seen by another
list. `OnePlace` (a task is in one queue, or in one thread's hands, or new) gives that, and
`Locks` that one thread works on a list. A task that is being taken
still counts as the first of its queue until its field is cleared (`Taking`), so that write
touches no other list either.

*Allocator.* `Partition`: a block has memory if and only if it is on the heap list or on a free
list, never on both, and it has one place on one free list. `Accounts`: `heap_bytes` is the sum over the heap, and the bounds enclose it. That a sum
over a finite set grows by what is added (`SumOver`) is proved in `FiniteInduction`.

*Marking.* `MarkIsExact` and `NoDangling` speak of a least closed set, the reachable blocks.
While marking, everything the roots or a marked block point to is gray or marked, and gray and
marked blocks are in every closed set. When no block is gray the marked set is closed
itself, hence the least. While sweeping, `Surviving` (marked, or not looked at yet) stays
closed, so a block that is released is one that no surviving block, no stack slot and no root points to;
if an unregistered global does, `lost` is set, and nothing more is claimed. Between
collections `PointersValid` follows, while nothing is lost: what the program can follow is in the heap, and
it can only write pointers it has.

*Pointer map.* `Chain`: the slots that a search for a stored key passes hold other keys, around the
end of the table; hence no key is in two slots (`OneSlot`). In such a table with an empty slot a
search ends, at the key or at a slot that shows that the key is not there (`SearchFinds`), and
insertion keeps `Chain`. Growth, refill and shrinking are folds; along a fold the table is a
`Chain` and holds the keys seen, and fewer keys than slots leave an empty one (`GapRemains`, the
pigeonhole). The invariant (`PtrMapInv`) adds that the capacity is a doubling of the initial one and
that there are fewer keys than slots: an insertion is made below three quarters, and a table is
halved only when less than half of it is used. For removal the circle is cut open at an
empty slot: there the slots are a line, each key stands at or behind its home without a gap before it
(`Line`), and the loop is a scan with one hole that moves to the right; after every round no key
already passed has the hole on its way (`Settled`, `InOrder`), and at the end no key has.

*Chunk table.* `WellPlaced`: each record is in the bucket of its chunk, alone of that chunk. Pushing a
record of a new chunk adds it to the records of the table, so the two nested folds of
`chunk_table_grow` keep the set of records; whatever order the chains get, what is held (`Held`, the
pairs of a block and a chunk) is the same. The invariant is that the table holds exactly the pairs
entered so far (`EnteredOf`: all chunks of the blocks done, and those below `cid` of the block in
work) and not lost. A new pair is never lost already, since blocks that do not overlap are different. An
address in a payload is in a chunk of the block, because division is monotone, and the first
record of the chunk is its only one: the lookup finds a pair that is held, if there is one.

*Collections.* A list, tuple, stack or queue spells its value from `front` to `length`
(`Spells`), a set has distinct elements in an array, and every write of an operation is to a slot
that `ArrayInv` places below the capacity. A dict satisfies `IsDict`: a search for a stored key
passes no slot that was never used (`Reached`), and no key is in two slots. Here tombstones differ
from the removal of `PtrMap`: what was used once never becomes empty again, so a
removal cannot break `Reached`, and an insertion breaks none as it makes nothing empty; its own key
is reached because the search stopped only at the key, at a slot never used or at the end
(`FindSlotIs`). A search therefore gives the slot of a key that is there, and for one that is not a
free slot reachable from its home, or -1 if all slots are used (`DictSearch`). `dict_resize` is a
fold over the old slots (`ResizeUnrolls`): after each step the new table is a dict with exactly the
keys and values seen (`Content`), less full than it is large. `Maps` relates the entries to the
abstract map, and `length` is the number of used slots, whichever step wrote last.
`dict_remove` computes another formula than the search; that both probe the same slots
(`RemoveProbeAt`) is where the span of the hash and the capacity must fit.

*Slices.* The visited positions are an arithmetic progression; `SteppedUp` and `SteppedDown` give the set and
the order of its members, for steps up to three, and the clamped bounds are Python's in the cases that
`SlicesSelect` admits.

*Language server, documents.* Between the editor and the server are messages that the server has
not seen and edits that the editor has not sent. `Followed` says where this leads: there is a sequence
of stores, from the server's documents by one message on the pipe to the next, whose last
agrees with the editor, but for the edits still in `batch` (`Unsent`), which must turn the bytes
there into those of the editor's text. Taking a message drops the first store; sending appends
one; an edit grows the batch, by what `Changed` does with one edit more. The difficulty is
that last one: the server must cut the bytes where the editor cut the text. `BreaksOfBytes` gives
the places of the line breaks in the bytes, `FirstLines` that the first `l` of them are those with
fewer than `l` before them, so `offsetOf` finds the start of the line the editor counted, wide
characters in other lines or not; `OffsetOfPosition` adds the column, and needs that no
character before it in this line is wide, which is where `skewed` comes from. `EditedBytes` is then the
bytes of the edited text. After `ended` there is nothing to follow, so `SessionInv` has this part
only while the server runs.

*Language server, analysis.* `Current`: what is shown and indexed of a document is computed from the stored
content after every message, as `Store` writes all of it or dies. `Requests`: the ids answered lie
below those on the pipe, each in order, and every id asked is in one place or the other, so an
empty pipe leaves all of them answered once.

*Resolution.* `Required`, the reference, is computed in rounds over the universe.
`RequiredIsLeast` shows that the last round is the least set that holds the requirements of the
root and of every package in it: each round that adds something reaches another package, and
there are only so many. The invariant is that of a graph search: the requirements met or waiting
hold those of the root and of all that are met, and all of them are required (`Explored`);
`resolved` is the highest of the requirements met, and has the major of each (`Highest`, which
`MergedHighest` keeps). An empty queue closes the set met, so it is `Required`, and both
properties can be read off `Highest`. The order of the queue does not occur in the argument.

*Package store, types.* A process that writes entries indexes its project by the
length of its lockfile. `LockPrefix` says that this file is a proper prefix of the project
meanwhile; with `TypeOK` it is inductive, and it also gives the first half of
`InstallIsComplete`: the last entry completes the file.

*Complete installs.* At the end of an install the checkouts are long past, so the invariant
has to say who is responsible for a directory in between. `Kept`: without faults, a package
that a process is done with is stored, or some process is in its directory. The step that could break it
is reuse: a process finds the directory there and goes on. `Made` covers it: without faults, a directory
that is neither absent nor its package is being filled by a process, and that is
another one than the one that reuses it. `Forced` and `Emptied` are the
same for a forced install of an unshared package, where the past does not count: the
wipe leaves the directory absent, nobody else makes it again, so `--force` never reuses.

*Module loader.* The invariant (`LoaderInv`) relates four pieces of state that different
statements write. `ImportsSoFar`: a name stands for the module of the last `from` import of it
(`FromsOf`) among the statements done; this is the reference of the property, so a call finds in
`symbols` the module that `Means` gives. `Caches`: what is imported and what a name stands for is
loaded, and a loaded module is never replaced, so what a call became stays true when files change
or more is loaded (`CallsAdvance`). `AliasesKnown` and `Places` hold while `steady`:
`Registered` leaves of every alias the last entry (`PackageIs`), and the first candidate of
`resolve` that has a module is its first place (`PlaceFirst`). For calls of a name that is loaded but
no function, `CallsBound` says what the code does instead.

*Linking.* A symbol of a module is a renamed one, which has the module's name in it, or one of a
hidden name (`DefinedNames`); two modules can then only meet in the second kind.

*Builds next to installs.* The difficulty is that the compiler reads the lockfile once and the
directories later, while both change. `DiskInv` has what never changes for worse: a
lockfile that was written names packages of its project, whole or a prefix of them, and a
directory of the store holds nothing, a part, or the package it is named after (`StoreHolds`, by
`NoCollision`), however installs interleave and wherever they stop. In the model a part has no
modules (on the disk it may have some of them, whole or cut off; a module cut off is not
modelled); so whatever is loaded is the text of the package (`PlaceIsPackage`), and
from then on the cache keeps it (`LoadedHold`). Every
step of `Workspace` is a step of `ModuleLoader` (`BuildsAreCompilations`), so `LoaderInv` comes
from there.

*Induction.* The library's induction theorems have an operator as parameter, which the installed
provers cannot instantiate. `FiniteInduction` has theorems about sets instead, so that the
step where an induction would use its hypothesis is one about a least counterexample:
`LeastElement` (a set of naturals that is not empty has a least one), `MinimalSubset` (a family of finite sets has a
minimal one), and what follows from them about sums and about folds: a fold over a sequence is
the last of a chain of values, each one step from the one before (`FoldsExist`, `FoldPrefix`).

### 4.3 What is only model-checked

* Liveness and `ENABLED`: the temporal properties of `liveness`, `ScanEnds`, `ResolutionEnds`.
* The compiler: its passes are RECURSIVE operators over trees, of which the
  provers have no theory; the properties of `MCCompiler` with them.
* The layout half of the lexer: its reference counts lines, marks and levels over the whole file,
  and relates sorted sets of lines to the tokens; a proof needs an induction over lines for each
  of these, which has not been done.
* Steps of slices larger than three: the provers have no arithmetic of division by a variable,
  so the steps the run checks are those of the theorem.

## 5. What could come next

1. Proof: the layout of the lexer, from its indentation stack being the depths of `Enclosing`.
2. Several processes in one project directory; the temporary manifest composed with the
   resolution that reads it.
3. `GcHeap` composed with the stacks of workers and the lists of the scheduler.
4. The parser's recovery (`synchronize`) over token sequences.

## 6. Not modelled

* The parser, the AST printer and the pure queries of the language server: functions of
  their input without state but a position. The models start from trees.
* What lines are made of (names, numbers, strings); enums, interfaces' defaults, `async`, foreign
  declarations; channel operations inside generators; the exhaustiveness of `match` over enums.
* Of the runtime library all that formats, parses, prints or does input and output; the library
  modules written in Visuall, which wrap it.
* Optimisation, object files, the command line of the external linker, the parsing of the
  driver's command line and the search for the stdlib directory.
* The text formats of `vsl.toml` and `vsl.lock`, patch versions, and path dependencies.
* The race on `sched_init`'s flag, the tracing of channels, the statistics of the collector.

The hazards that this leaves open have a note in `PROJECT.json`.
