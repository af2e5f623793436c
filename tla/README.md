# Lamina in TLA+

Lamina is a small language: a compiler in C++ turns source text into code for a
register machine, and the command line tool `lm` runs a file, a saved program,
or an interactive session. This directory holds a model of the lexer, the
parser, the generator, the machine with its foreign functions, the saved
programs, and the ways of running them together, the configurations that check
the model on small instances, and proofs about the machine, the generator, the lexer,
sessions and saved programs for every instance.

Everything runs in one thread. What makes the code hard to test is not
concurrency but distance: a register is chosen in one function of the compiler
and overwritten, much later, by code that another one emitted; a slot is
numbered by the nesting of the text and found by the nesting of calls; a jump is
emitted before its target exists; an instruction already emitted is changed
when the next one comes; a foreign function is found by an address that was
valid when it was declared; and in a session all of this state, and that of the
parser's static flags, outlives the line that left it behind. The only faults
from outside are files that were not written to their end.

## The system

| component | source | state | operations |
|---|---|---|---|
| values | `runtime/value` | a tag and a union of eight bytes | assignments by type, copy, printing |
| instruction set | `include/opcode.hpp` | - | operand counts |
| machine | `runtime/vm.*`, `runtime/frame` | pc, 255 registers, return addresses, frames, program | `run`, one handler per opcode |
| virtual calls | `runtime/vmcall.cpp` | standard streams, loaded libraries | out, in, exit, dyn_load, dyn_set, dyn_call |
| emitter | `compiler/generator/emit.*` | the code so far, `ret_type` | one function per opcode, a peephole, omission of FRET |
| allocator | `generator.cpp` | set of registers in use | `alloc`, `free` |
| generator | `compiler/generator/generator.*` | compiling frames, functions, pending jumps, constant pool, error flag, `expr_release` | `gen`, `sub_gen` and a function per node |
| syntax tree | `compiler/ast.hpp` | - | - |
| file run | `tools/lm/common/file_run.cpp` | - | compile, save, execute |
| session | `tools/lm/common/repl.cpp` | one generator and one machine sharing the code | read, compile, execute, show |
| parser | `compiler/parser.*` | position, error flag, static `in_func` and `in_loop` | a function per construct |
| lexer | `compiler/lexer.*` | text, position, line, column, error flag | `tokenize`, `next`, `error` |
| loader | `runtime/loader.*`, `write_binary_file` | a stream | save and load a `.lmc` file |
| foreign functions | `runtime/libloader.*`, `gen_module` | libraries, their functions by the address of the name | load, declare, find, call |
| table object | `runtime/object` | a hash map | not reachable from bytecode |
| command line | `tools/lm/main.cpp` | - | arguments, help |

The lexer hands a vector of tokens to the parser, the parser a tree to the
generator; the generator calls the emitter and
the allocator; file run and session hand the generator's vector of
instructions and its constant pool to the machine by pointer; the machine calls
the virtual calls, and those the foreign functions.

What makes each component correct:

* machine: calls and returns match; a caller's registers 1 to 3 survive a call;
  arithmetic is that of C++ on wrapped words; nothing undefined on code the
  compiler emitted.
* emitter and allocator: no register is handed out twice; changing the last
  instruction stands for the move it saves.
* generator: operands, loop counters and arguments live until they are used;
  each variable of a frame has a slot of its own; every jump has a target inside
  the code; every call enters a function with the right number of arguments.
* file run: a program prints what its text means, and halts when its loops do.
* session: each line is executed, earlier code stays as it is, a line gives back its
  registers.
* lexer: one end of file, in the last place, whatever the text.
* parser: it reads back the tree that a text spells; what it accepts is complete
  and its jumps and returns stand where they may; it ends on every text.
* loader: a machine runs what was saved, or nothing, however much of the file is
  missing.
* foreign functions: declarations and calls agree about registers, types and
  addresses; a declared function stays callable; a call leaves the caller's
  temporaries alone.

## Modules

```
Value  Opcode                     words and instructions
   \   /    \
    VM       Emit                 the machine; emitter and allocator
   / |  \        \
  |  |   \     Generator          compilation of any tree
  |  |    \      /
  |  |   Foreign                  the machine with foreign functions (Library)
  |  |      \  /
  |  |      Host                  a generator and a machine that runs its code
  |  |     /    \
  |  | FileRun  Session           any program; any session
  |  |   |   \     |
  |  |   |  Image  |              any program, saved and loaded
  |  |   |    |    |
  |  | CompileRun Repl ---------- Source (trees and their meaning), Examples, EdgeExamples
  |  |   |   |                        |
  |  |   | Saving (and Image)       Parser - FrontEnd
  |  |   |                            |
  |  |   Deviations                   |
  |  CallStack                        |
  |                                 Lexer - LexerProofs
 VMProofs - ForeignProofs                    about VM; about Foreign

 GeneratorProofs - RegisterProofs - CodeProofs     about Generator
                                     |       \
                              SessionProofs  ImageProofs     about Session; about Image
```

CallStack says what VM's calls promise. Host holds one generator and one machine, the
machine as an instance of Foreign whose program is the generator's code and whose pool is the
generator's pool. FileRun and Session are `file_run` and `run_repl` on any program and any
lines: which node comes next is open, as in Generator. Image extends FileRun by the file and a
second process. CompileRun, Repl and Saving are these three on given texts; they add where the
next node comes from and what the text means. The division is there for the proofs: the meaning of
programs is recursive and nothing can be proved in a module that uses it, whereas a
step of CompileRun, Repl or Saving is a step of the general module whose nodes happen to be
those of the text. `SourcesAssumption` and `SessionsAssumption`, which their runs evaluate, say that
these are among `Nodes`, so what is proved of the general module holds of the given texts.
FrontEnd is separate from them: it ends in trees, they begin with trees, and both use the
trees of Source.

**Value** - a value is `[type, lo, hi]`: its tag, the low byte (that is all
`.b` reads and writes) and the rest of the word. `BYTE` and `HIGH` set the width;
`u64` and `i64` are the views of the union, `Bits` wraps. `assign` copies what
`operator=(const Value&)` copies, `View` is what a handler can tell of a value.

**Opcode** - the instruction set. The operands of an instruction are
integers; their bytes are not modelled.

**VM** - `VirtualCore::run`. Each handler is an action. `Defined` collects
what the C++ needs to be defined (registers in range, slot in the frame, frame on
the stack, a return address, a FUNC_END to skip to, an entry of the table of
virtual calls); an instruction outside of it takes the machine to `"ub"`, and a
fault of the processor or an uncaught exception to `"trap"`. Frames allocate 56
slots and shrink to the number of parameters plus one without giving up storage,
so the model keeps `FRAME_SLOTS` of them readable (`NewFrame`). `POW`, which reads
integers as doubles, yields an arbitrary word.

The machine is compiled in one way or another: `build`, chosen from `BUILDS` at
the start, never changes.
A comparison writes one byte of a register, and IF_FALSE, AND and OR read that
byte as a `bool`; a loop counter is an integer whose low byte is tested that way.
Reading a bool that is neither 0 nor 1 is undefined. An optimised build compares
with 0; an unoptimised one negates by flipping a bit, so `loop 3` runs no times.
The build commands of the repository's README configure no build type. The
values of `BUILDS` are the two outcomes that were observed. Compiled programs run on
both; that a counted loop differs on the plain one is a cause of Deviations (`PlainLoop`).

**CallStack** - the calling convention without the machine: a call pushes where
to continue and the caller's context, the matching return restores them. VM
implements it under the mapping `stack <- PendingCalls`, `live <- LiveContext`.

**Emit** - the emitter's state is the code and `ret_type`, which is static in the
code and so belongs to the process; `emit_mov_rr` contains the peephole,
`emit_fret` the omission of a second FRET. `alloc`, `Taken` and `Freed` are the
allocator's two calls.

**Generator** - `sub_gen`, its recursion made explicit. `todo` is the stack of
suspended C++ activations, each a record with the locals that activation still
needs; `ret` is the register the last one returned. A step either visits a node
(`Visit`) or resumes the innermost activation with a result (`Resume`). The node
is any element of `Nodes` that the parser could put there, so without further
constraint the behaviours are the compilations of all programs over these nodes;
CompileRun, Repl and Saving restrict them to given programs. The parser's flags decide
whether `return`, `break` and `continue` are accepted, hence `lex`. `NodesAssumption` says what a node carries (`NodeForms`): the
fields of the classes in `ast.hpp` with the types the parser gives them.

Modules of the language are part of it (`gen_module`, `module_func`). Their
libraries' names, symbols and types are known cells of `pool`, which also has the
capacity that decides when the vector moves. The three oddities of the code are
kept as they are: the offset of the library's name is the number of a register less
one, the stream `cur_module` keeps the first module's name for good, and a call
writes register 1 (`emit_extern`). `funcs` and `externs` decide what a name calls
(`Callees`).

**Source**, **Examples** - trees, and an interpreter over trees as the meaning
of a program: lexical scopes, arguments by value from left to right, `loop n`
n times. It shares nothing with the generator and the machine. Examples are
families of programs, each varying one part of the compiler's work.

**Foreign**, **Library** - VM stops at a call of dyn_load, dyn_set or dyn_call;
Foreign makes the call and resumes. A function of a library is kept under
`[buffer, at]`, the address of its name: the offset in the pool and the buffer
the pool was in, told by its capacity, since a vector that grows takes another
one. Names read from a place where no name starts name nothing; reads outside of the
pool, libraries that are none, and more arguments than there are registers are undefined. Library is external: the functions
of one shared library.

**Lexer** - `tokenize` on TLA+ strings, a token a step. A token has its line and
its column, which the code counts from the character behind the token: `error()`
writes a caret at the column of an unknown token, and the parser's `print_error`
indents one by the column of any token. A string that closes at the end of its line
has a column below zero, as the newline behind it is already counted; in the C++
that is a huge `size_t`.

**Parser** - expressions, types, argument lists and headers are recursive
operators from a position to a result, as their C++ functions only read; an
exception is a result that is not `ok`. `parse()` is a machine, because it catches
these exceptions, resumes after them, and sets the static flags on the way: one
action per kind of statement, and `stack` holds the blocks it is in. The handler prints
the error before it goes on (`Returns`), and where `print_error` throws, at a
token whose column is below zero (`Printable`), the process ends. Reads of tokens
behind the end, which the code does, are defined (`Tok`) or end in `"crash"`.

**FrontEnd** - a text through both, as `file_run` does it, or line after line with
one lexer and a new parser each, as `run_repl` does it.

**Host**, **FileRun** - `file_run` on any program: the generator, then, if it reported
no error, a second HALT (`Launch`) and the machine over the code in `em.ops` (`Execute`).

**CompileRun** - FileRun over a source program. An error ends the run. `Faithful` and
`NeverUndefined` say that the program does what its text means; neither is true of every
program.

**Deviations** - which programs they are not true of. Its
definitions are about texts: thirteen causes, each a way in which the generator or the
machine is known to go wrong, stated of the tree and, in one case, the build. They are
wider than the defects in that an affected text may be right by luck (a function that is
never called, an argument overwritten with the same value).

**Session** - `run_repl`: one generator, one machine, line after line. A line is one
statement; between reading it and its prompt lie its compilation (`CompileNode`, `CompileResume`),
its HALT (`StartLine`, which leaves the HALT there after an error, as the code does), its run, and
what follows it (`ShowLine`). A line that the parser refuses may leave its flags set
(`RefuseLine`); `:lastret` is a line of its own (`AskLine`). The pool the machine sees is that of the
line (`set_constant`), the addresses in a library are those of the line that loaded it.

**Repl** - Session on given sessions. `before` remembers the registers, `expr_release`, the
modules and whether there had been an error at the prompt before the line; no step depends on it.

**Image** - what `write_binary_file` writes and `BinaryLoader` reads. A byte is
what it was written as (an opcode, an operand byte, a character of the pool), so
reading it as something else is visible. The head, each instruction and the pool are a step each
(`SaveHead`, `SaveOp`, `SavePool`); nothing checks the save, so the process may end after
each of them and leave any prefix of what it wrote (`GoDown`). A second process opens it, which
for fewer than four bytes means compiling it as text, and reads an instruction a step.

**Saving** - Image on given source programs.

The `MC` modules define the sets that the configurations use. Operators with a
comment `mutant:` are deliberate errors that show a property can fail; no
specification uses them.

## Runs

| run | question | result |
|---|---|---|
| `vm_run` | all programs of four instructions over calls, returns, frames, branches; every register instruction on every pair of words; virtual calls; traps | `TypeOK`, `FrameDiscipline`, `ImplementsCallStack`, `DivisionLaw` hold |
| `gen_code` | all programs over five families of nodes: every node in every place, up to three instructions; operators, calls and returns, six; if, loop, break and continue, six; names, functions, parameters and blocks, six; a module and calls of its function, fourteen | `TypeOK`, `LiveRegisters`, `HeldNotOverwritten`, `PeepholeSafe`, `CallsEnterFunctions`, `JumpsResolved`, `SlotsStayApart` hold |
| `gen_assign` | does an assignment store where `find_var` found the variable? | `AssignsFoundVariable` violated |
| `compile_run` | expressions, calls, chains of calls, pipes, loops, recursion and foreign functions, and programs on both sides of every limit listed under *Bounds*; on both builds | `FaithfulUnlessKnown`, `UndefinedOnlyKnown`, `HaltsUnlessKnown` hold |
| `compile_nested` | a function declared in a function | `NeverUndefined` violated |
| `compile_global` | a global read two calls deep | `Faithful` violated |
| `repl_session` | sessions of up to eight lines, some of them refused, some with foreign functions called before and after strings of lengths around the one that moves the pool, some with modules that cannot be loaded; any three lines out of eighteen: values, assignments, calls, pipes, strings, conditions, loops, functions, modules, lines that the parser or the generator refuses; on both builds | `ShownIsMeant`, `ExecutedWithoutErrors`, `RegistersReturned`, `PastCodeKept`, `NamesFound` hold |
| `repl_error` | a session with an undefined name | `LineExecuted` violated |
| `image` | programs with every kind of instruction, saved, cut off after any byte, loaded and run | `LoadedIsSaved`, `ReplayFaithful`, `SavedRuns` hold |
| `image_pool` | is a constant of a loaded program where the code looks for it? | `ConstantsFound` violated |
| `front_end` | programs spelled from trees; texts of pieces of statements in any order; sessions of two and three lines; every text of up to three characters out of fourteen | `OneEnd`, `CrashesKnown`, `ReadsBack`, `AcceptedWellNested`, `AcceptedComplete`, `EndsOrSticks` hold |
| `nested_break` | a break in a loop, behind another loop | `JumpsRefusedOutside` violated |

What the properties of the newer parts say, and why a test hardly reaches them:

* `NamesFound`: a foreign function is found exactly as long as the pool
  is in the buffer of the declaration. Whether a later line with a string breaks
  a call depends on the capacity a vector grew to; in the sessions a string of 22
  characters leaves the call alone and one of 23 does not, as in the program.
* `RegistersReturned`: a line never gives back a register of an earlier one, and keeps
  as many as its text shows (`Kept`): one for the library of a new module, one for a
  pipe, one for each value that is a statement in a body, and one for a string that is an
  operand or argument while `expr_release` was never set. After an error it may be
  fewer, where nodes were skipped, or one more, the value of the line, which is not
  shown. A line that the parser refuses keeps none. So sessions run out of registers,
  and this says by which lines. That a module keeps its register is what protects
  register 1 from foreign calls (`HeldNotOverwritten` fails when it is given back).
* `FaithfulUnlessKnown`, `HaltsUnlessKnown`: for all programs of the run there is nothing
  but the causes of Deviations that keeps one from halting and from having printed what its
  text means. None of the 2,470 from Examples has a cause on the optimised build; of the 543 of
  EdgeExamples 237 have one, and each cause is needed:
  for each there is a program that goes wrong and has no other. A change to the
  generator that makes one more kind of program go wrong, or an accident that
  depends on two of the limits, shows here.
* `UndefinedOnlyKnown`: of the causes only a function in a function, too many variables and
  registers used up lead to an access that is undefined; the others end in wrong
  output, in no output, or in a loop that does not end.
* `ExecutedWithoutErrors`: as long as no line had an error, the machine stops at the HALT of
  the line that was read and nowhere before, whatever mixture of accepted and refused lines
  it was. Which line an error is in does not matter: none after it is executed (`repl_error`).
* `ReadsBack`: trees are spelled with as few parentheses as the parser's
  own grammar needs, so every level of operators, both forms of loop and chains of
  else are read back from their closest spelling.
* `AcceptedWellNested`, `JumpsRefusedOutside`: the two directions of the static
  flags. As long as nothing was refused, nothing misplaced is accepted; but the end
  of an inner loop makes the parser refuse what stands in the outer one.
* `EndsOrSticks`: a text is read to an end, or the parser repeats itself at a token
  that no statement starts with, or at a return outside of a function. On such
  texts the program prints errors for ever.
* `CrashesKnown`: reading behind the last token, or a null member, happens in the
  body of a module only; a caret in front of its line only under unknown tokens
  over two lines; and an exception out of the parser's handler only from an error
  printed at a string that closes at the end of its line or runs over lines.
* `LoadedIsSaved`, `ReplayFaithful`: a save that stopped anywhere leads to the
  saved program, to no program, or to a loader that never ends, never to another
  program.

The violated properties are findings; `PROJECT.json` quotes the sentence each of
them contradicts.

* `gen_assign`: `gen_assign` uses the distance from the innermost frame
  as an index from the outermost one (`generator.cpp:309`).
* `compile_nested`: FUNC_CREATE skips to the first FUNC_END, which is the inner
  function's (`vm.cpp:182`).
* `compile_global`: a distance counted in the text is used on the stack of calls
  (`vm.cpp:191`).
* `repl_error`: after an error the HALT stays, and every later line stops there
  (`repl.cpp:38`).
* `image_pool`: the code ends in two HALT instructions, the loader stops at the
  first, and the constant pool is read one byte early (`loader.cpp:45`).
* `nested_break`: the end of a loop resets `in_loop` although the loop is in
  another one (`parser.cpp:221`).

### Bounds

Words have eight values in the runs of the machine alone (a byte of four and
one bit more, so that a low byte and a sign are distinct things) and 32 in the
runs of compiled programs, 128 in `compile_run` and `repl_session`, whose bytes have
sixteen. The machine has five registers and saves two of them
in `vm_run`, so that saved, unsaved and argument registers all occur; compiled
programs have twelve, more than the deepest expression needs, so that registers run out
only where statements keep them (`RegistersUsedUp`); the generator alone has twenty. `MaxDepth` and
`MaxOut` bound pending calls and output in `vm_run`. `MaxOps` and `MaxDepth` of
MCGenerator bound the instructions and the nested activations of the generator,
for each family of nodes (variable `family`, fixed at the start): six
instructions suffice for a call inside an operator inside a function, or two
nested loops with a jump each; fourteen for a module of one function and four
more instructions, enough for a foreign call under an operator. The family of every node
goes no deeper than two activations above the program, the others three or four; what
is deeper is left to the proofs. The generator goes on after an error, but its code is
then never run; `Bounded` stops there too, and `PeepholeSafe` is claimed up to there (a
call of an undeclared function emits nothing, and the instruction before it is changed).

`MEMORY` bounds the instructions a loader reads before memory is used up: more than
the longest image of the run has, so that a load that ends is never cut. Texts are
bounded by `Pieces` and `Chars`, three each: blocks in up to four pieces out of six
(two levels of nesting, closed or not, with a jump), statements in two pieces out of
twenty-one, each faulty piece between any statement and one of three ends, and all
characters that begin or end a different kind of token. Lexer and parser were
also compared with the program's own on the 12,982 sessions of these families: same
tokens, same outcome, same tree, on each.

`compile_run` scales the machine's limits down with its words: sixteen values of a byte
for 256, four slots for 56 and 64, twelve registers for 255. The families of EdgeExamples go from well
below to just above: loops of 0 to 18 rounds, up to six variables in a function, zero to
twelve statements that keep a register, a call below zero to five operators. `Width` is what
a statement of these programs needs besides. In `repl_session` three lines suffice for what a
line does to depend on what the one before left set (`expr_release`, a module, an error).

The programs of Examples and those of `image` stay in a part of the language
where the compiler is right, and `ShownIsMeant` is claimed for sessions of integers without
an error. Outside of it are, besides the six findings, these
defects, most of them seen on the real program as well. Those with a name are causes of
Deviations, and programs of EdgeExamples have them, as they have two that come from
findings: `FunctionInside` (`compile_nested`) and `GlobalInFunction` (`compile_global`,
`gen_assign`).

* a call as an argument other than the first overwrites the arguments before it
  (`CallInLaterArgument`);
* `x |> f(y)` begins with the argument of index 1, so that `y` is never evaluated
  and the second parameter is what register 253 happens to hold;
* a FRET is omitted at the end of a function whose last statement ends in a
  return under a condition with an else branch (`EndsInBranch`);
* `break` before a loop nested in the same body belongs to the wrong loop, since
  all recorded jumps are patched by the first loop that closes (`JumpBeforeLoop`);
* only registers 1 to 3 survive a call, so a fourth live temporary does not
  (`CallBelowOperators`);
* a loop counter is tested by its low byte: 256 runs no times, 300 runs 44 times
  (`LongLoop`), and on a plain build 3 runs no times (`PlainLoop`);
* a loop whose count is a call keeps its counter in register 0, where calls in its body
  return (`CounterReturned`);
* an expression statement of a file never frees its register; after some 250 of
  them temporaries meet the argument registers, then there are none
  (`RegistersUsedUp`);
* more than 56 variables in a function, or 64 at the toplevel, leave the frame
  (`TooManyVariables`);
* `return` without a value, and a function without a body, are dereferenced as
  null pointers (`gen_null`).

In the front end:

* a string at the end of a line carries the number of the next line, as do symbols
  before a newline, so `return "s"` is a return without a value;
* a comparison takes everything on its right, `x < 9 && x > 3` is
  `x < (9 && (x > 3))`, and a sign does, `-x + 1` is `-(x + 1)`;
* a break in a function in a loop is accepted;
* text behind a `}` that closes nothing is ignored;
* some texts, `f #c` before a line `(1)`, or `x = 1 )`, repeat an error for ever;
* `x =` at the end of a text has a null operand, on which the generator crashes; an
  unclosed module, or `use` in a module, crashes the parser; an unclosed string over
  two lines, or `|` before a newline, writes the caret outside of its string;
* `true` and `false` are names, the lexer has no keywords for them;
* a comment at the end of a text reads behind the text;
* an error at a string that closes at the end of its line, `let "a"`, or that runs over
  lines, ends the process: the caret is indented by a column below zero;
* after an error the flags stay set, and a later `return` or `break` is accepted;
* a source file of fewer than four bytes is read as empty.

In foreign functions:

* the name of the library is looked for at the number of a register less one: a
  string, or a register that was not freed, before the module gives another name
  (`LateModule`);
* the second module of a program is called `first.second` (`OtherModule`);
* `m.f(x, m.g(1))` overwrites the argument before the call, as every call does;
* after the pool moved a function is not found, and its call yields the pointer to
  the library;
* a declaration without the type of its result dereferences null
  (`module_func_null`);
* a result of type bool writes one byte of register 0 and leaves the others, so
  the shell shows what was there before;
* a pipe never gives back its temporary;
* a module without a library has functions that are set in whatever register 0
  holds; a module in a loop loses register 1 at each turn; one in a function stores
  its library in a frame of another function;
* in a loaded program the library's name is one byte off with the rest of the pool.

### Fairness

`CRFairSpec` is weakly fair on the steps of the compiler and the machine
together: there is one thread, and it keeps running. Nothing is assumed about which
choice a step makes. The same holds of FrontEnd (`Running`) and of Saving (`SvSpec`),
where each process is one thread; nothing is assumed of texts and files.
`EndsOrSticks` says at which tokens the parser's repetition, which is a step that
changes nothing, may keep it from ending, and `SavedRuns` is about complete images.
`HaltsUnlessKnown` is claimed for the programs of `compile_run`, whose loops are counted or
reach a break; a program that does not end there has a cause of Deviations. No constraint cuts
behaviours off in these runs.

Deadlock is checked everywhere but in the runs of FrontEnd, whose sessions come to
their end (`CHECK_DEADLOCK FALSE`); there `EndsOrSticks` says that nothing stops before.
A specification whose system stops (the machine halted, the input at its end, the
process gone) has an explicit stuttering disjunct guarded by that condition.

## Proofs

`VMProofs` proves, for every word size, register count, frame size, choice of
builds and set of programs, legal or not:

* `TypeCorrect`: `Spec => []TypeOK`.
* `StacksInStep`: `Spec => []FrameDiscipline`, frames are one more than return
  addresses.
* `CallingConvention`: `Spec => ImplementsCallStack`, the machine refines
  `CallStack`.

The assumptions are those on the constants (`ByteAssumption`, `HighAssumption`,
`RegsAssumption`, `SlotsAssumption`, `BuildsAssumption`, `ProgramsAssumption`);
the runs evaluate them.

The inductive invariant is `Inv`, the conjunction of `TypeOK` and
`FrameDiscipline`. Types alone are not inductive in a useful way: FRET takes the
last frame and the last return address of two vectors, and only their equal
length makes the frame it restores the one of the call it returns from. The
argument goes: lemmas give the type of each operation on values; a lemma per
group of actions preserves `TypeOK`; `StepInv` combines them with the two steps
that move both stacks. For the refinement, FCALL maps to `Call` (a copy of a
register is viewed as the register, `AssignView`), FRET to `Return`, and every
other step leaves the pending calls as they are: the one that writes frames,
LOCAL_SET, writes slots and never a saved register.

In the same module, `DivisionFits`: `Spec => []DivisionLaw`, the law of `vm_run` for words of
any size. The law is about operands that were wrapped into bytes and results that were wrapped
again, so the argument has two halves: the quotient and the remainder of integers obey it
(`Truncated`), and unless the processor refuses to divide, both are in the range of a
word (`InRange`), hence read back as they were stored (`ReadBack`). The one quotient
that is out of range, the least integer by -1, is the one that traps. The inductive invariant
`DivisionInv` says what each register holds at each instruction of the program.

`ForeignProofs` carries `Inv` and the refinement over to the machine that compiled programs use:
its steps are those of `VM` and of `Foreign`, and between two runs the program may be
replaced by any other and the pool by any other (`Reload`), which is what a session does to the
machine. `ForeignCallingConvention`: `ForeignSpec => ImplementsCallStack`, so registers 1 to
3 of a caller survive whatever callees do with libraries. `ForeignTypeCorrect` needs
`LibsSound`: what a call stores in register 0 is an integer only because each function
that is found is one its library has, with as many arguments in registers as its type
lists. `LookupUnique`: a library never has two functions under one address.

`LexerProofs`, `EndsOnce`: `LexSpec => []OneEnd`, for every series of texts. Its invariant says
that while a text is scanned a mark of the end stands in the last place and only
once the text is used up, so the one that `tokenize` adds is needed exactly when there is none.

Three modules prove, each extending the one before it, what holds of the generator on
every program over every set of nodes that the parser could build, for every number of
registers. There is no bound on the nesting of expressions, blocks and functions, on the
length of the code, or on the registers in use; running out of registers is included.
The assumptions are `NodesAssumption` and `RegCountAssumption` (more than one register).

`GeneratorProofs`, `TypeCorrect`: `Spec => []TypeOK`. The generator's recursion is an explicit
stack here, and an activation finds the locals it needs when it is resumed only because of
what the stack looks like. The inductive invariant is `TypeInv`, with three parts besides
`TypeOK`:

* `Nested`: above a function that waits for the value of an expression there are nothing
  but operators and calls, so that a value is never returned to a block or a loop that
  would take it for something else.
* `InStep`: there is one compiling frame for every function being compiled, and one; a
  waiting assignment names one of them. Without it the pop at the end of a function could
  empty `cur`.
* `ModulesNamed`: a module being announced is the innermost activation and has its
  variable, although the name it is known by may be another module's (`ModuleName`).

`RegisterProofs`, `RegistersApart`: `Spec => []LiveRegisters`. Every step hands registers over
in one of a few ways (`HandsOver`): it returns one that was free, gives back the ones of
the activation that ended, or passes an activation's register on to what follows it. The
flag `expr_release` says nothing reliable, and the argument does not need it: what a step
frees, early or not, is the value just handed back or belonged to the activation that
ends with it (`Loose`).

In the same module, `SlotsApart`: `Spec => SlotsStayApart`. A block gives its frame back the names
that it had and never the slots, so a name must not move or vanish while a block that saved it
is open. The invariant `SlotInv` says so: each frame includes what its open blocks saved, and an
inner block's names include an outer one's (`NamesKept`); and what `gen_assign` found out about a
name, that it is new or how far away it is, still holds when the value has been computed
(`NamesMeant`). Given that, every step leaves each visible variable in a slot of its own, but
one: the end of an assignment that counts frames from the wrong end and stores into a frame
that does not know the name (finding `gen_assign`). `ToplevelAssignments` follows: in a program
whose functions only declare variables and never assign to one that is there, no two visible
variables of a frame share a slot, `Spec /\ [](Awaiting("assign") => Len(cur) = 1) => []DistinctSlots`.

`CodeProofs`, `CallsEnterDeclared`: `Spec => []CallsEnterFunctions`. Its invariant `CallInv`
says that a call waiting for its arguments names an entry of the function table, that each
entry is a FUNC_CREATE with its stores behind it, and that each FCALL enters one. What makes it
inductive is that no step disturbs older code: a step appends instructions that fall through
(`Straight`), redirects the last one to a scratch register (`RegLast` says which
instructions that can be), or emits and patches jumps (`Jumping`), and what a patch writes to is
a jump still (`PendingJumps`), never a call or a store.

Two more of its theorems are about jumps, a third about values:

* `JumpsGetTargets`: `Spec => []JumpsResolved`. All pending breaks are patched by the first
  loop that closes, even those of an outer loop, so "each jump belongs to its loop" is
  false. What holds is that the starts of suspended loops are ordered, that nothing resolved
  cuts across the stretch of an earlier backward jump (`BackNested`), and that where a break
  waits there is a loop (`LoopOpen`), whose end will patch it.
* `PeepholeSound`: `Spec => PeepholeSafe`. The invariant `CodeInv` adds `Fresh`: when a value is
  handed back and `ret_type` says that the last instruction computed it, no jump, loop or
  function leads behind that instruction.
* `HeldValues`: `Spec /\ []Apart => HeldNotOverwritten`. The hypothesis is the truth about this
  allocator: it knows nothing of the registers that arguments are passed in (the highest ones,
  and register 1 for foreign calls), so values are safe as long as no temporary has grown
  into these (`Apart`). Given that, no depth of nesting, no early release and no peephole
  overwrites a value that is still needed. In `gen_code` `Apart` holds in every state.

`SessionProofs` carries these invariants from one compilation to a session that never ends,
whose code is run, stripped of its HALT and added to, over any lines: erroneous ones, refused ones
and crashes of the machine included. Its inductive invariant `SessionInv` is `TypeInv` and `CallInv`
together with where a session is: nothing is suspended between the lines (`Phases`), and the
machine stands inside the code, at a HALT when it has run (`Placed`). From it follow

* `SessionTypes`: `SessionSpec => []TypeOK`, and `SessionCalls`:
  `SessionSpec => []CallsEnterFunctions`, a call of any line enters the function it
  names, of whichever line that is.
* `LinesExecuted`: `SessionSpec => ExecutedWithoutErrors`. Only the end of a line emits a HALT
  (lemma `UnstoppedStep`), and it is taken off again, so there is one HALT when a line runs,
  behind it (`HaltLast`). The hypothesis, that no error stands when the prompt returns, is needed: after
  an error the HALT stays, which is finding `repl_error`.
* `PastKept`: `SessionSpec /\ []LoopsClosed /\ []~node_has_error => PastCodeKept`. What may still
  change while a line is compiled is of that line (`Ahead`): the jumps that wait, and the last
  instruction when an operand's value is at hand. Both hypotheses are needed. A refused line may
  leave `in_loop` set, then a line `break` is accepted, and its jump is patched by the loop of a
  later line; and after an error a value may be handed back that no instruction of the line
  computed, so that the peephole takes an earlier line's last instruction for its operand.

`ImageProofs`, `SavedOrRefused`: `ImSpec => []LoadedIsSaved`, for any program, any size of its
pool, any memory of the loader, and a file cut off after any byte. Its invariant `ImageInv` has a part
for each stage. While the program is compiled, only its end emits a HALT and instructions
without operand bytes have operands that are zero (`Compiled`, lemmas `UnstoppedStep` and
`ZeroedStep`), so the first HALT of the code is the one before the last, and what is not saved of
an instruction is not missed. While it is saved, and in what is left of the file, the
instructions begin at known places (`Places`), and each spells what it was as far as
the file goes (`Spells`, `Prefix`). While it is read, the loader is at the place of the next
instruction and has read those before it as they were, or it is behind the end of the file
(`Reads`), where it never sees another HALT. The lengths of the instructions agree in
writer and reader because both take them from `opcode_len`.

The steps are proved action by action against these invariants, which TLC found true on the
programs of `gen_code`, `repl_session` and `image`.

Only model-checked:

* whatever goes through the recursive operators of `Source` and `Parser`: what compiled
  programs print and how they end (`FaithfulUnlessKnown`, `UndefinedOnlyKnown`, whose causes are
  recursive in the tree, `ShownIsMeant` and `ReplayFaithful`, which are true of the given programs
  only, see the findings and defects), how many registers a line keeps (`RegistersReturned`),
  and what the parser accepts (`ReadsBack`, `AcceptedWellNested`, `AcceptedComplete`, `CrashesKnown`);
* `NamesFound`, which depends on what compiled code leaves in the machine's registers;
* all liveness (`HaltsUnlessKnown`, `SavedRuns`, `EndsOrSticks`): fairness and ENABLED are outside the
  prover's reach, as is induction over data.

## Not modelled

* `gen_use`: it compiles another file with the same generator, which is Generator on a
  larger program.
* Nested modules, and variables and ordinary functions of modules: the parser reads
  them and the generator drops them.
* The C types that no source program can name, and the closing of libraries.
* Lifetime of strings: a value that points into the pool keeps its word when the
  pool moves; what is behind it is not modelled. Foreign functions are, see `NamesFound`.
* Floats and booleans as values of their own: no instruction creates a Bool but the
  result of a foreign call, and only POW a Float.
* Operand bytes beyond the narrowing of the missing register (`Narrow`) and
  what Image needs of their number.
* Characters outside of ASCII, tabs, texts of errors.
* Types of parameters and results of ordinary functions: read and dropped by the code.
* `:op` and `:vars`, table objects, debugging output, the command line, a file that
  cannot be opened.

## Plan

1. The pool as a thing with a lifetime: values that point into it carry the
   buffer they point to.
2. The front end in front of Session: one session from characters to what is shown.
3. Proofs about the code in the machine: that in sessions whose modules stand alone the
   registers of a declaration are those the machine reads (`NamesFound`).
4. Proofs about `parse()`: its stack of blocks needs no recursion once the results of
   expressions are taken as given.
