# Ne-Znayu in TLA+

Ne-Znayu (`NeZnayu [path]`) is a dynamically typed language with closures and
actors, compiled in one pass to 16-bit bytecode and run by a stack machine with a
mark-and-sweep collector. This directory holds models of the parts where a mistake
is hard to provoke in a test, TLC runs that check them on small instances, and
machine-checked proofs for instances of any size: of the collector, the hash table,
the stack with its upvalues, the rooting of objects, the names of the compiler,
the global variables, the scanner, and what the parser leaves behind after an error.

Contents: [the system](#the-system) · [modules](#the-modules) · [runs](#the-runs) ·
[disagreements](#where-the-code-disagrees) · [proofs](#what-is-proved) ·
[limits](#what-is-not-modelled) · [plan](#plan)

## The system

One process, one thread. `main` makes the one global `vm`, then calls `interpret`
once for a file or once for each line of the REPL. `interpret` compiles the source
to an `ObjFunction`, wraps it in a closure and runs it. Nothing is concurrent, but
any allocation may run the collector in the middle of whatever is going on, and a
closure may outlive the call, the block and the stack its variables lived in.

| Component | Files | State | Operations | What makes it correct |
|---|---|---|---|---|
| Memory manager, collector | `memory.c`, `object.c` | `vm.objects`, marks, gray stack, `bytes_allocated`, `next_gc` | `reallocate`, `allocate_object`, `collect_garbage`, `free_objects` | frees what the roots do not reach, no more and no less; ends |
| Hash table, interning | `table.c`, `object.c` | entries, count, capacity | get, set, delete, add_all, find_string, remove_white | a dictionary; each search ends; one string object for each text |
| Value stack, frames, upvalues | `vm.c` | stack (reallocated as it grows), frames, open upvalues | push, pop, call, return, capture, close, `clear_stack` | lexical scope: a captured variable is one box, alive as long as a closure has it |
| Rooting | `vm.c`, `object.c`, `chunk.c`, `compiler.c` | what is on the stack, in globals, under compilation, in C locals | every function that allocates | what is in use is reachable from a root whenever an allocation happens |
| Compiler: scopes | `compiler.c` | chain of compilers, locals, upvalues, depths | declare, define, resolve, begin/end scope and function | the code for a name accesses the declaration the name means |
| Compiler: parser, code | `compiler.c`, `chunk.c` | tokens, panic mode, chunk | expressions, statements, jumps, recovery | accepts the grammar; always ends; the code does what the source says; an error leaves nothing open |
| Globals | `global_vars.c` | an array of 65535 | set, set_at, find | a name means its last definition; constants stay |
| Instruction loop | `vm.c` | frame, ip | the other opcodes | each leaves the stack as the compiler expects |
| Scanner | `scanner.c` | position, line | `scan_token` | the longest lexeme at each place; reaches the end of every text |
| Session | `main.c` | exit code | REPL, file | each line starts from a sound machine |
| Natives, disassembler | `vm.c`, `debug.c` | | clock, sqrt, printing | |

How they interact. The compiler and the VM allocate through `reallocate`, which may
call `collect_garbage`; that reads the roots of the VM (stack, frames, open
upvalues, globals, `init_string`) and of the compiler (`mark_compiler_roots`), and
prunes `vm.strings`. `copy_string` and `string_concat` intern through the table,
and everything that compares strings (tables, globals, `==`) compares addresses.
The compiler fixes the slot of each local by counting; the VM trusts it. Growth of
the stack moves it, so every address into the stack must follow.

The hard behaviours are therefore: a collection between any two steps, growth of
the stack or of a table in the middle of an operation, tombstones, upvalues that
outlive their slot, runtime errors that leave the REPL with a half-torn machine,
names resolved through several functions under compilation, sources that are wrong at any
token, and code that is laid out in another order than it runs. PROJECT.json lists
these hazards, line by line, with the properties that cover them.

## The modules

Each detailed module begins with the correspondence to the code; each definition
names the function or opcode it translates. In every module the "slips" are
altered definitions (a dropped guard, a swapped order), used only to show that
the property next to them in PROJECT.json would notice.

* **`Reachability`** the least set of objects closed under pointers: what
  `mark_roots`, `blacken_object` and `trace_references` compute.
* **`ManagedHeap`** (abstract) a heap in which an allocation may first make all that
  is unreachable disappear in one step; the table of strings is weak.
* **`Collector`** `reallocate` and all it calls, each loop split into iterations.
  `objects`/`kept` are `vm.objects` after and before sweep's cursor, `marked` the
  `is_marked` flags, `gray` the gray stack, `fresh` what only C locals point to,
  `pc` the position in `reallocate`. The mutator (`Root`, `Link`, `Intern`, ...)
  is any sequence of pointer updates. Refines `ManagedHeap`: a collection happens
  when sweep begins.
* **`CollectorProofs`** theorems about `Collector`.
* **`Dictionary`** (abstract) a partial function, with the result of each operation. A key
  leaves it by `Delete` only; in the table of strings (`weak`) a collection first says which keys
  are `garbage`, then drops each of those, and no operation comes before all are gone.
* **`HashTable`** `table.c`. `interning`, chosen in Init, tells a table of fields or
  messages from `vm.strings`; in the second a collection may come when the table is
  idle or inside the allocation of its own growth. `white` are the strings it has not marked, the
  `garbage` of `Dictionary`. Growth is a stutter of `Dictionary`, so it may not lose an entry.
  `table_add_all` has no caller
  yet ("Required for inheriting methods"); it is the bulk form of `Set`.
* **`ProofLemmas`** facts about numbers, sequences, ranges and cardinalities that the
  proof modules share.
* **`HashTableProofs`** theorems about `HashTable`.
* **`LexicalScope`** (abstract) variables are boxes: a call's scope is a sequence of
  values and boxes, a closure has the boxes it captures.
* **`Upvalues`** the stack with its address and capacity, frames, the open list,
  `OP_CLOSURE` one capture at a time, `OP_CLOSE_UPVALUE`, `OP_RETURN`, `clear_stack`.
  The program is any code the compiler could emit for it: `locals` of a frame says
  how many variables are in scope and which of them some closure captures.
  `Bases` are the addresses `realloc` may return; `stale` remembers the upvalues
  that were open when the stack moved or was freed. Refines `LexicalScope`.
* **`UpvaluesProofs`** theorems about `Upvalues`, and the proof that it implements
  `LexicalScope`.
* **`Runtime`** which objects the roots and the C locals hold at each allocation of
  the compiler and the VM. `Allocated` is the heap after `reallocate`: collected or
  not (`Collector` shows that a collection amounts to that). A C function that
  allocates is split there; `hand` is the object it will go on to use.
* **`RuntimeProofs`** theorems about `Runtime`.
* **`Scopes`** `compiler.c`'s handling of names. The program is any sequence of
  declarations, blocks, functions, actors, messages and uses of names the grammar
  allows. `height` counts the values that the code leaves in the window of the call.
* **`ScopesProofs`** theorems about `Scopes`.
* **`Grammar`** (reference) the syntax as a grammar whose symbols carry their context. `return` is
  not allowed at the top level nor `this` outside an actor, as `test/return/at_top_level.nz` and
  `test/this/` have it. The parser refuses three more forms, and `Refusals` says which of them
  the language is taken to be without: a `return` in a message, `.` outside an actor, the call of a
  property. `After` gives what is left of the grammar after a token, so a parser can be compared
  with it token by token.
* **`Compiler`** the recursive descent of `compiler.c`. `Procedure` is the table of the
  bodies, as sequences of items (`Consume`, `Match`, `Emit`, `Jump`, ...); `frames` is the C
  stack, and a step executes one item of the innermost procedure. `panic`, `hadError`,
  `current`, `previous` are the parser's, `compilers` and `actors` the chains of compilers,
  `code` the words of each chunk. Jump distances are cut into two words, `Word` being
  65536 scaled down. Names are left to `Scopes`, the protection of constants to `Runtime`.
  `derivations` is what the grammar still expects; an error makes it `Lost`, and when the
  compiler is back at the top level it is `MoreDeclarations`, so that later errors are judged too.
* **`Execution`** composes the compiler with `run` of `vm.c`: the code is executed,
  instruction by instruction. A value is known by the expression it comes from and by
  whether it is truthy, which is chosen when the program first gets it. A property may be missing,
  and an instruction that can report a runtime error (`MayFail`) may do so. `Meaning` is
  the reference: what the syntax tree does, with no code, jumps or stack; `Text` prints a tree
  with the fewest parentheses, so precedence and grouping are checked as well. `Visits` walks
  over the code of a function and finds the heights of the stack at each instruction.
* **`Variables`** (abstract) each name means its last definition.
* **`Globals`** the array of `global_vars.c`, the three instructions that use it, and
  `main`'s two kinds of session around it, with the exit code. Refines `Variables`.
* **`SessionProofs`** theorems about `Globals`, and about `Compiler`: the variables of a
  session, and the state in which its parser is between declarations. `Globals` calls its
  specification `GlobalsSpec`, so that both fit in one module.
* **`Lexicon`** (reference) the lexical grammar as classes of texts; a token is the longest
  lexeme at its place. `Readings` are the prefixes of a text that end with a lexeme, each
  with its line and the tokens up to it.
* **`Scanner`** `scanner.c` character by character: a step is one turn of `skip_whitespace`
  or the rest of a call of `scan_token`. `Trie` has the prefixes that the switches of
  `identifier_type` choose by, and the rests that `check_keyword` compares.
* **`ScannerProofs`** theorems about `Scanner`.
* **`MC...`** the instances for TLC.

`Collector`, `HashTable`, `Upvalues` and `Runtime` share state in the program. They
are separate modules because each needs only a summary of the others: `Runtime` uses
the result of `Collector` and of `HashTable` (an atomic collection, a search that
finds what is there), `Collector` covers every possible mutator, and `Upvalues`
needs no collector, since open upvalues and stack slots are roots. The path from text to
effects is cut in the same way: `Scanner` gives tokens, `Compiler` reads any sequence of
them, `Scopes` says which variable a name is, `Execution` what the instructions do, and
`Upvalues` and `Globals` where the variables are.

## The runs

| Run | Instance | Shows |
|---|---|---|
| `Collector_heap` | 3 addresses, one a string; collections optional | `HeapSound` no use after free; `TriColour`; `ExactCollection` no leak; `WeakTable`, `InternedStays` the string table loses what the heap loses; `MarksClear`; `ImplementsHeap`; `Terminates` |
| `Upvalues_scope` | 5 slots, 3 frames, no move of the stack, no errors | `ImplementsScope`, `OpenComplete` (one open upvalue for each captured variable), `NothingLeftOver`, `CapturedReadable` |
| `Upvalues_moves` | 4 slots, 2 frames, capacity from 1, the stack moves, errors | `FrameWindows`, `OpenDescending`, `LocatedUnlessStale`: nothing but the two known causes makes an upvalue lose its variable |
| `Upvalues_growth` | as above, without errors | a disagreement, see below |
| `HashTable_tables` | 4 keys, and a second object with the text of one; hashes 7, 7, 0, 2; capacity 2 to 8; both uses of a table | `ImplementsDictionary`, `Findable`, `ProbeEnds` (searches end), `CountExact`, `OneObjectPerText`; no key is lost or kept against `Dictionary` |
| `Runtime_rooting` | 6 objects, 3 stack slots, capacity from 2, nesting 2 | `NothingDangles`, `EqualStringsAreOne`, `ProtectionEnds` |
| `Runtime_concat` | 5 objects | a disagreement |
| `Scopes_names` | 3 nested functions, 2 blocks, 4 locals in all | `NamesMeanDeclarations`, `UpvaluesAreCaptured`, `LocalsMatchStack` |
| `Scopes_constants` | 2 blocks, 3 locals | a disagreement |
| `Execution_programs` | sources with holes, and trees of all pairs of operators and of statements in statements | `SyntaxExact` accepts the grammar, and reports an error at the first wrong token, from the first declaration and from each that follows an error; `BackAtTop` nothing is left open by an erroneous declaration; `Terminates` every source is compiled to its end; `CodeIsBalanced` one height of the stack at each instruction; `RunsAsWritten` the code has the effects of the tree, in order, up to a missing property |
| `Globals_session` | 2 names, one of them a native, 2 values, room for 4 entries | `ImplementsVariables`, also with the array full |
| `Scanner_texts` | every text of up to 4 of 13 pieces, and every keyword whole, cut short, one letter longer | `FollowsLexicon` the tokens, places and lines of the lexical grammar; `ReachesEnd` |

**Bounds.** They are CONSTANTS, marked "bound" where they are declared. `Collector`: two objects
that are not strings make every shape of cycle and of sharing that the loops can tell
apart (the collector looks at one object and its children at a time), and the proof
removes the bound. `HashTable`: capacity 8 takes
two growths from 2, hashes 7 make a chain that wraps, and with four keys and
tombstones each run reaches the load limit; the code's 8 and 0.75 are scaled in the
minimum only. `Upvalues`: three frames and five slots let a closure capture a
variable of its caller's caller through its own upvalue, and the open list hold two
variables (one plain value is enough, as closures are values too); `MinCapacity` is small so that growth happens inside each kind of push.
`Runtime`: six objects are a script, its closure, a name, two operands and a result.
`Scopes`: three functions give a chain of upvalues with a link in the middle. `MaxLocals` and
`MaxBlocks` are totals over the functions under compilation, so that the blocks and locals may
be anywhere among them; `IndexRange` stands for 65536, and 7 is enough that no index is cut
(`NoTruncation` in `ScopesProofs`).
`Execution`: `Sources` has one program for each production of the grammar, with one token
replaced by any of 22, inserted, or left out (also after a bad lexeme, or with the
source ended there), and every source of three tokens; recovery looks at one token and the
one before it. `Refusals` has all three forms there, so the run compares the parser with the language of its own
error messages; that of the tests is another, see below. With `Word` 10 a distance has two digits, both used, and its limit of 33
(the code's `UINT32_MAX/3`, scaled) is reached by the larger sources. `MaxReads` 7
lets a loop with a condition and an increment turn three times; a longer execution stays a
prefix that agrees with the tree. `Globals`: four entries leave room for a redefinition of each
name and a definition that is lost. `Scanner`: a look-ahead sees two characters (four
for `send`, which is a piece), and the pieces include what opens and closes each kind of lexeme.

**What may stop.** `CHECK_DEADLOCK FALSE` is set where the system may really stop or the
bound stops it: `Collector` after `FreeVM` or `exit(1)`, `Upvalues` and `Runtime` at a
fault or when the bounded stack or heap is full, `Scopes` after the first error (a
program with errors is never run), `Execution` when the program has returned or failed, `Globals` when
the process has ended, `Scanner` after `TOKEN_EOF`. `HashTable` never stops, and its runs check that.

**Fairness.** Nothing else runs in the process, so a C function that waits for nothing goes
on until it returns. That is what the three liveness properties assume, each of one
function: `WF_vars(Reallocate)` in `Collector` (`Terminates`: `reallocate` returns or exits),
`WF_allVars(Compile)` in `Execution` (`Terminates`: `compile` returns, however wrong the source
is), and `WF_vars(Next)` in `Scanner` (`ReachesEnd`: the parser asks for tokens until it gets
`TOKEN_EOF`). No fairness is assumed of the program being run, which may loop, nor
of the user at the prompt.

**Symmetry** is used for safety only: never in `Collector_heap`, whose
`Terminates` is a liveness property, and never in `HashTable`, where keys differ by
hash. In `Upvalues_scope` the addresses of `Upvalues` and the boxes of
`LexicalScope` are permuted together.

**Collection policy.** The build defines `DEBUG_STRESS_GC` (`common.h:14`), which
collects at every growing allocation. `StressGC = FALSE` in the run is the larger
set of behaviours, where each allocation collects or not.

## Where the code disagrees

Three runs end in a violation of what a comment, a test or an error message says.

* **Operands of `+`** (`Runtime_concat`). `concatenate` (`vm.c:295-299`) pops both
  strings before `string_concat` allocates; if nothing else holds them they are
  freed, then copied. `vm.c:377` has the rule: "Warn! Don't pop in set, because of
  future garbage collector work". The expression `*vm.stack_top++ = f()` also leaves
  open whether the increment comes before the call; the model has both.
* **Upvalues and growth** (`Upvalues_growth`). `push` rebases the frames after a move
  but not the open upvalues (`vm.c:147-150`), which go on pointing into the freed
  block. `test/closure/nested_closure.nz:22-24` expects captured variables to keep
  their values at any depth.
* **Captured constants** (`Scopes_constants`). `resolve_upvalue` (`compiler.c:338-354`)
  does not hand on whether the variable is constant: an inner function may assign a
  `val` or a parameter, which the compiler otherwise rejects with "Can't reassign a
  constant" (`compiler.c:558`).

In other places the code does not do what a test or a comment of the repository says, and no run of its own
is needed: changing a constant of a run is enough to see it.

* **Return in a message.** `return_statement` (`compiler.c:857`) refuses it, even without a value, which its own
  message ("Can't return a value from a message.") does not say. `test/actor/reference_self.nz:3` and
  `local_reference_self.nz:4` have `return Foo;` in a message and expect to print the result, and
  `test/constructor/early_return.nz:4` has `return;` in an initializer. `Execution_programs` with
  `Refusals = {"dot", "call"}` violates `SyntaxExact`.
* **Properties outside an actor.** `dot` (`compiler.c:465`) refuses them, so the errors "Only instances have
  properties." and "... fields." that `test/field/get_on_nil.nz:1`, `set_on_nil.nz:1` and
  `get_on_function.nz:3` expect of the VM at the top level are never reached there. The same run with
  `Refusals = {"return", "call"}` violates `SyntaxExact`.
* **Call of a property.** `dot` refuses it (`compiler.c:477`), also in an actor; line 7 of the first test above is
  `print Foo().returnSelf(); // expect: Foo`. The same with `Refusals = {"return", "dot"}`.
* **Too many locals.** Indices are cut to `uint16_t`, and the error that
  `test/limit/too_many_locals.nz:52` expects ("Too many local variables in function.") is reported nowhere in
  `compiler.c`, so the 65537th local is the first one. `Scopes_names` with `IndexRange = 2` violates
  `NamesMeanDeclarations`.
* **Runtime errors.** `clear_stack` (`vm.c:65-69`) frees the stack with upvalues still open, and a closure kept in a
  global reads freed memory in the next line of the REPL. `Upvalues_growth` with `Errors = TRUE` and
  `Bases <- InPlace` violates `CapturedReadable` in this way.

Two more are in the models, and the properties stop short of them.

* **A missing field.** `OP_GET_PROPERTY` (`vm.c:420`) reports nothing and leaves the instance as the value;
  `test/field/undefined.nz:4` expects "Undefined property 'bar'.", which `vm.c:228` reports for a message. In
  `Meaning` a missing property is a runtime error, as the test has it; in `ExecuteGetProperty` it is what the
  code does; and `RunsAsWritten` compares the two up to there.
* **push.** Growth of the stack in `push` collects before the value is stored
  (`vm.c:139-153`), so the protection that `chunk.c:37-39` describes fails for a new object just when the
  stack is full (`OP_CLOSURE`, `OP_ACTOR`, `copy_string`, `interpret`). `Runtime` has this: `Push` sets
  `fault` to `"push"` when its argument is gone, and `NothingDangles` speaks of the states before that.

Smaller things that the models have as the code has them, and which no doc contradicts:

* A bad lexeme that `synchronize` skips is reported and sets panic mode again (`compiler.c:886`), so the errors
  of the next declaration are silent; so does a bad first lexeme of a source.
* `x.send(m,)` and `x.send(m y)` are accepted.
* A word that begins with `val` or `var` is the declarator (`value`, `variable`); `.sender` is `.send` and `er`; `send`
  alone is the token of `.send`.
* `/*/` is a whole comment, and newlines inside block comments are not counted (`scanner.c:89-97`).
* A definition that finds the array of globals full is lost without an error; `Variables` says so in `Lose`.

The scanner's are in `Lexicon` as well, as no text says what else the language should be: `Scanner_texts` shows that
the scanner does these things at every boundary, not that they are wanted.

The passing runs of the same modules hold with the disagreements excluded (`fault = "none"` in
`Runtime`, all three `Refusals` and the execution up to a missing property in `Execution_programs`,
`IndexRange` 7 in `Scopes_names`, the complement of `stale` in `Upvalues_moves`, `Bases <- InPlace`
without errors in `Upvalues_scope`), so within the bounds nothing else goes wrong there.

## What is proved

All of this is checked by TLAPS.

**`CollectorProofs`**, for any sets `Obj` and `Str \subseteq Obj`, any
graph of pointers and both values of `StressGC` (`StrAssumption`,
`StressAssumption`; nothing else is assumed, not even that `Obj` is finite).

`InductiveInvariant` is the core: `Spec => []IInv`. `HeapSound` and `ExactCollection`
are not inductive: that sweep frees only garbage depends on what marking has
reached, which depends on the tricolour invariant holding at each iteration. `IInv` therefore has a part
for each stretch of `reallocate`: `IdleInv` (no mark is left, everything accessible is
in the list), `MarkInv` (only reachable objects are marked), `TriColour` (black
objects have no white children), `SweepInv` (what is reachable is what has been kept
plus what is still marked). The step from marking to sweeping is the heart: when no gray object is
left, the marked set contains the roots and is closed, so it contains the reachable
set; `MarkInv` gives the other inclusion. `Reachable` is defined as the intersection of
all closed sets so that this needs no induction over paths.

From it follow `TypeCorrect`, `NoUseAfterFree`, `TriColourHolds`, `NoMarkLeft`,
`CollectionIsExact`, `TableHoldsNoFreedString`, the action property
`ReachableStaysInterned`, and `CollectorImplementsHeap` (each step of `Collector` maps to a
step of `ManagedHeap` or to a stutter under `LiveBar`).

**`HashTableProofs`**, for any keys, texts, hashes, values and capacities, and both uses of a
table (`KeyAssumption`, `ValueAssumption`, `CapacityAssumption`, `FieldKeyAssumption`). `Findable`
says what a search returns, and is not inductive: whether a search finds a key depends on
every entry before it on its probe path, and a deletion or an insertion changes one of them.
`Sound` is the inductive form: each key is in one entry, and no entry on the path from its hash
to it is empty (`Reached`). A tombstone keeps that, an empty entry would not. With `HasEmpty`
(the load limit leaves one), the search ends there or earlier, and `FindEntry`'s `CHOOSE` of the
first entry that stops it is determined. `IInv` further has `CountExact`, that the capacity is
the number of entries, that a text has one object in the table of strings, what growth has moved
so far (`GrowInv`: `Moved`, and no more counted than moved, so the new entries have room), and
what each operation in progress relies on (`StoreInv`, `PendingInv`, `FieldInv`, and `WhiteInv`: only a collection at
work on the table of strings has unmarked strings to remove, all of them in the table). Where an
induction along the probe path would be natural, the proof takes the least place at which the
claim fails (`LeastElement`, from the well-foundedness of the numbers). Theorems: `TypeCorrect`,
`CountIsExact`, `SearchesEnd`, `KeysAreFound`, `StringsAreInterned`, and
`TableImplementsDictionary`. There growth and its moves are stutters of `Dictionary`: the keys are those of
the old array until it is freed, and by then `GrowInv` has them all in the new one. The removals of a collection are drops of its `garbage` (`CollectRefines`), and when
the loop ends none is left (`RemoveEndRefines`).

**`UpvaluesProofs`**, for any values, closures, upvalues, addresses and bounds (`NatAssumption`,
`ErrorsAssumption`, and `UpvalueAssumption`: upvalues are objects but never values of the language).
The list of open upvalues is sorted by address, while what is true of it is about slots and frames,
so `Order` has the order and its reading: each open upvalue has the address of a slot in use
(`OpenAddresses`), which its frame says is captured (`OpenCaptured`), and each captured variable has
its upvalue in the list (`OpenListed`); `StaleLeft` and `FaultNeedsStale` say how far all this fails when
the stack has moved or was freed. `OpenCaptured` is needed even for `FrameWindows`: an assignment
through an upvalue writes to the stack, and must not hit slot 0 of a call. `TypeCorrect`,
`WindowsHold`, `ListInOrder` and `AstrayOnlyIfStale` hold without condition, as does
`FaultOnlyIfStale`: without a move or a `clear_stack` at the wrong time no instruction reads or
writes other memory. `ListComplete` assumes `Errors = FALSE`; `NothingRemains` assumes `OneBase`
(`realloc` extends the stack in place); `CapturesUsable` assumes both. Those are the constants
of `Upvalues_scope`, and they are needed: `Upvalues_growth` is the counterexample without them.
`UpvaluesImplementScope` is proved under the same two: `Seen` says what the refinement
mapping makes of a state (a slot with an open upvalue is that upvalue's box, a closed upvalue a box
that no slot has any more), and there is a lemma for each action with the step of `LexicalScope` it is.

**`RuntimeProofs`**, for any objects, texts and bounds (`ObjAssumption`, `BoundAssumption`). `NothingDangles` is
about roots and the object in hand; that it survives the next collection depends on which of them
is a root at that place of the function. `IInv` says so for each `pc`: what is in hand (`HandInv`: a new
string that no interned one equals, or something usable), what is on the stack above the program's
values (`StackInv`: the top is the object in hand where it was pushed for protection, the compiler's stack
is empty otherwise, `concatenate` has room for its result), what `string_concat` has read (`ConcatInv`),
and that compiling and executing exclude each other (`PhaseInv`). `GoodHeap`: references lead to objects
that are there and, if they are strings, interned; `Usable` is closed under references, so it holds of
all that a root reaches. The theorems `NothingInUseIsFreed` and `StringsAreOneObject` speak of states in which `fault` is "none",
which fails at two places only: `push` on a full stack, and `concatenate`, whose
fault `Runtime_concat` shows. `ProtectionIsPopped` and `TypeCorrect` hold in all.

**`ScopesProofs`**, for any names and bounds (`NameAssumption`, `BoundAssumption`).
`LocalsMatchStack` needs to know what `end_scope` removes, which its loop finds out by depths alone;
so `Fits` says of each compiler, given the type of the function inside it, that depths never
decrease along its locals and only the variable being initialized has none (`Ordered`,
`Initialized`), that only slot 0 has depth 0, and what the height is (`Level`). `Nested` has that
for the whole chain, `Within` the bound on locals, which with `Fun_IsInj` and `FS_Injection` bounds
those of each compiler. `IInv` is inductive whatever `IndexRange` is, so `TypeCorrect` and
`LocalsAreInPlace` hold even where indices are cut.

What upvalues and names mean does not: nothing in `compiler.c` limits either, and an index beyond
`uint16_t` becomes another variable's. `UpvaluesAreBound` and `NamesAreResolved` therefore assume
`NoTruncation` (`MaxLocals + MaxNesting <= IndexRange`: locals in scope and nested functions
together are no more than 65536), and with `IndexRange = 2` TLC refutes both. `NamesInv` says that
there is a list of variables for each compiler's upvalues (`Resolved`: each follows from the
upvalue's index and the list of the compiler around it, they are captured locals of functions
around, no two are the same) and that the last access is to the variable its name means
(`Accesses`). Without two equal variables there are at most as many upvalues as locals around
(`UpvaluesBound`), so their indices are not cut either. A capture is the hard step: `ChainReaches`
shows that along the chain of `resolve_upvalue` each upvalue found stands for the captured local,
and that where one is added no other did (`add_upvalue` compares index and `is_local`; that this
suffices is that the list of the compiler around has no duplicates), by the least compiler where
this would fail. `DenotesIs` then identifies the lists with `Denotes`, and `MeaningIs` the meaning
with the `CHOOSE` in `Meaning`.

**`SessionProofs`** has two parts. The first is about `Globals`, for any names, values and capacity and
any natives that fit in the array under names of their own (`NativesAssumption`). `Sane` is `TypeOK` and `Sought(globals)`: a
name that is in the array has a last entry. Without it the `CHOOSE` in `GlobalFind` says
nothing, and proving it of any sequence would need an induction; as part of the invariant
it is a fact about one `Append` or one assignment. `FindsLast` and `FoundIsLast` say what the search
returns; `AppendMeanings` and `SetAtMeanings` say that a definition and an assignment change the
meaning of one name and no other (`Changes`). Each instruction then is a step of `Variables`, and
what `main` does between them a stutter: `TypeCorrect` and `GlobalsImplementVariables`.

The second part is about `Compiler`, for any identifiers, sources and scanner: the proof of
`BackBetweenDeclarations` assumes nothing of them. `BackAtTop` speaks of the moments
between declarations, and is not inductive: what is left open at other times depends on what every
procedure on the C stack has still to do. A *level* is the number of actors and the depth of each
compiler, and `Effect(item, a, b, r)` says that an item leads from the level `a` to `b` in a procedure that
returns at `r`. A call leads from a level to itself, `begin_scope` one deeper, `init_compiler` into a
function; `"prefix"`, after which `parse_precedence` returns early if no expression begins there, is
possible only at the level of the return. `Path` does the same for lists, by the levels between
the items. There is a lemma for each procedure: its table of items, with all their choices, is a path from the level of
the call back to it, so whichever branch an error or `synchronize` makes it take, it closes
what it opened. `IInv` has this for the frames (`Chained`): what is left to do in each leads from
the level of the frame inside it to that of the frame around it; the outermost frame, at the level of the
script, is that of `compile()`, and the innermost is where the parser is (`Level`). `StepIInv` has
a step for each kind of item, which `ThenChain`, `ChainPush` and `ChainPop` turn into steps
of the chain. `Fits` adds that the locals of a compiler are in the order of their depths and only the
first has depth 0; without it `end_scope`, which compares depths, could leave a local of an erroneous block.

**`ScannerProofs`**, for any letters, digits and texts (`CharactersDiffer`: no letter is a digit
or a character with a meaning of its own; `SourcesAreTexts`: no character of a text is the one that ends
it). `Lexicon` says of a lexeme by itself to which class it belongs, and takes the longest of those at a
place; the scanner looks at one character and the next. The classes are first put in terms of
the places of the text (`WordAt`, `NumberAt`, `BlockAt`, ..., with a lemma that each is the class),
and `Longest` says where the longest lexeme ends. There is then a lemma for each way in which a lexeme can
begin: which classes are possible there, where the longest ends, and that `Until` finds that place.
`IdentifierTypeIs` is the one for words: the prefixes of the switches and the rests of `check_keyword`
together are the reserved words, no two begin the same word, and `val` and `var` compare
nothing more. `ScannerReads` is the inductive invariant: the place, the line and the tokens
are those of one of the `Readings`, or all tokens have been given; each step goes to the next reading (`Goes`).
Claims about all readings, such as that the tokens of one begin those of any later one, take
the first reading where they fail. `TokensFollowLexicon` follows.

**Only model-checked**: the liveness properties `Terminates` and `ReachesEnd` (the prover does not do
liveness under fairness), `Execution`, and what `Compiler` accepts and emits. The prover has no induction over data
(the library's induction theorems take an operator), so it cannot know what a recursive definition
computes; claims about numbers are proved by a least counterexample instead. `SyntaxExact`, `CodeIsBalanced` and
`RunsAsWritten` compare the parser with what the grammar derives, with a walk over the code, and with the
meaning of a tree, which are recursive by nature, and so stay with TLC. The inductive invariants
were checked by TLC on the instances of their runs before they were proved, and no run repeats that; the
exception is that of `Compiler`, which TLC cannot evaluate: it says that levels exist.

## What is not modelled

* When a collection is due (`bytes_allocated`, `next_gc`) is a free choice.
* The gray stack is a set, so every order of tracing is covered.
* The characters of strings: equal or not, with a hash (`HashTable`), or a length
  (`Runtime`).
* The objects of `init_vm` and the natives; `this` as a captured slot in `Upvalues`;
  calls of actors and messages there, which differ from calls of closures only in
  what is put in slot 0; arguments in `Runtime`'s call of an actor.
* The limits of 65535 on the constants of a function, its parameters and the arguments of a
  call, and the line of each instruction: each is one test or one array beside what `Compiler` has.
* Names in `Compiler` and `Execution`: a read of a variable gives any value, as
  `Scopes`, `Upvalues` and `Globals` say which variable it reads and what is in it.
* Numbers, which operands have a wrong type, the check of arity, and which field or message a name finds
  in an instance. In `Execution` each instruction that may report such an error may do so at any time.
* The words after `OP_CLOSURE` that describe the upvalues (`compiler.c:709-712`), in `Compiler` and
  `Execution`: they come from `Scopes` and are read by `Upvalues`.
* What the parser does with the rest of a declaration in which it resumes after an error is not compared
  with the grammar; nor is a "too much code to jump over" after an error seen, as no code is kept there.
* The native functions `clock` and `sqrt` (time, floating point), the disassembler and printing
  (output only), reading of files and lines, whose REPL splits lines of more than 1023
  characters, and the language tests, which are programs with expected output.
* Programs go on after compile errors in `Compiler`; `Scopes` stops at the first.

## Plan

Done, in order of importance: collector with proof, upvalues, table, rooting, scopes; globals with
proof, parser and code generator with a proof of what errors leave, execution of its code, scanner with proof.

What is left:
1. `Accounting`: `bytes_allocated` modulo `2^w` through `init_vm`, `copy_string` and `clear_stack`, where
   it goes wrong without a wrong object being freed.
2. `Instances`: fields and messages of an instance by name, so that a missing one and an operand of the
   wrong type are determined by the program.
3. The names of `Scopes` in the programs of `Execution`, so that one run goes from the text to the boxes.

Next proofs: `Runtime` as an implementation of `ManagedHeap`; `Scopes` as one of a specification of nested
blocks and their declarations.
