# Verification of jiaLang

TLA+ models of `jiac`, the compiler of this repository: what its phases do to
their state, which properties that must preserve, TLC runs that check them on
small programs, and TLAPS proofs that hold for programs of any size.

Paths below are relative to `src/`; `CodeGen.cpp` is
`lib/CodeGen/CodeGen.cpp`, and so on.

## The system

`jiac` is a sequential C++23 program. The driver hands each source file
through a pipeline of pure phases, and each phase returns a `Result<T>`: its
output, or the diagnostics that end the pipeline.

    Options -> Driver -> lex -> parse -> analyze -> generateModule -> Backend -> link

| component | state it keeps | operations | what makes it correct |
|---|---|---|---|
| Lexer (`lib/Lex/Lexer.cpp`) | position, line, column | `lex`: one token after another | every byte is in one token, a comment or an error; it ends |
| Literals (`lib/Lex/Literal.cpp`) | none | decode numbers, characters, strings | the value the spelling means, or an error |
| Parser (`lib/Parse/Parser.cpp`) | position, diagnostics, types | recursive descent, two `synchronize` operations | the grammar's tree; recovery makes progress and resumes at the right nesting |
| Types (`lib/AST/Type.cpp`) | the types made so far | `pointerTo`, `arrayOf`, `function`, `size` | one address per type; sizes right modulo 2^64 |
| Constant evaluation (`lib/AST/ConstEval.cpp`) | none | `evaluateConstant` | the value the program would compute |
| Sema (`lib/Sema/Sema.cpp`) | scopes, symbols, globals, loop depth, return type | one handler per node; rewrites the tree in place | names resolve lexically; what it accepts code generation can emit |
| Code generation (`lib/CodeGen/CodeGen.cpp`) | IR builder, `values_`, `strings_`, `loops_`, `fn_` | one handler per node | well-formed IR with the meaning of the program |
| Driver (`lib/Driver/Driver.cpp`) | objects, temporaries, target machine | `run`, `compile`, `link` | links only if all inputs compiled, removes its temporaries |
| Options (`lib/Driver/Options.cpp`) | none | `parseArguments` | |
| Backend (`lib/Driver/Backend.cpp`) | none | optimize, emit | (LLVM's work) |
| Diagnostics, AST dumper, `jiac.cpp`, `jia-lit`, `jia-bench` | none | output, tools | |

The phases interact through what they leave in the tree. Two agreements are
never checked at run time, save by `assert`:

* Sema counts loops (`loopDepth_`), code generation keeps them (`loops_`) and
  uses `loops_.back()` unchecked;
* Sema writes a symbol into each reference, code generation finds its address
  in `values_`.

There are no threads, messages or restarts. What is hard is the order in which
recursive walks change shared state: where the IR builder's insertion point is
when a subtree returns, which blocks are already in the function, which scope
is on top after an error. `PROJECT.json` lists these hazards by line.

## Modules

| module | models | extends |
|---|---|---|
| `Lexer`, `Literal` | the text of a file cut into tokens; the values of literals | |
| `LexerProofs` | theorems about `Lexer` and `Literal` | `Lexer`, `SequenceLemmas` |
| `Parser` | recursive descent and recovery as a stack of activations | |
| `Grammar` | the reference: the documents' grammar as a table, what the parser takes instead, and what a table derives | |
| `ParserProofs` | theorems about `Parser` | `Parser`, `SequenceLemmas` |
| `Parsing` | the parser against the grammar over every text of thirteen sources | `Parser`, `Grammar` |
| `Types` | the `TypeContext`, `Type::size` | |
| `TypesProofs` | theorems about `Types` | `Types` |
| `Declarators` | declarators, type names, `Type::str` | `Types` |
| `ConstEval` | constant folding at scaled widths, and the types of expressions | |
| `Typing` | `Analyzer` on expressions: types, conversions, constants | `ConstEval` |
| `Lowering` | what code generation makes of a checked expression | `Typing` |
| `Scopes` | `Analyzer`'s scopes, symbols, redeclarations and loop count | |
| `Names` | `values_`, filled and read over the tree that `Scopes` accepted | `Scopes` |
| `NamesProofs` | theorems about `Scopes` and `Names` | `Names`, `SequenceLemmas` |
| `CodeGen` | `ModuleBuilder`'s walk over a function body and the control-flow graph it writes | |
| `CodeGenProofs` | theorems about `CodeGen`: the graph and its blocks, SSA form; lemmas about the text of a body | `CodeGen`, `SequenceLemmas` |
| `Source` | the abstract specification: what the statements of a body mean | |
| `Execution` | the emitted graphs run as LLVM defines its instructions | `CodeGen`; instantiates `Source` |
| `ExecutionProofs` | theorems about `CodeGen` and `Execution`: what is emitted refines `Source` | `Execution`, `CodeGenProofs` |
| `Driver` | options, the loop over the sources, output files, temporaries and linking | |
| `DriverProofs` | theorems about `Driver` | `Driver` |
| `SequenceLemmas` | lemmas about sequences and cardinalities that the proofs share | |
| `MCLexer`, `MCLowering`, `MCNames`, `MCDriver` | values of constants for the runs | the module they name |

The phases are cut where their data is handed over: each module takes any
output of the phase before it, up to a bound, as its input. `Execution`,
`Names` and `Lowering` each compose two phases over one tree.

### Walks as state machines

`CodeGen`, `Scopes`, `Parser` and `Typing` model recursive walks. In the first
two the walk is over a tree. The tree is not built beforehand: wherever the
walk meets a statement or an expression, an action of each kind of node is
enabled, so that the behaviours are exactly the walks over all trees up to a
bound. The C++ activation that waits for a subtree is a frame on `stack`. A
handler of the code is cut at its recursive calls and nowhere else: `emit` of
a `WhileStmt`, for instance, is

| action | lines of `CodeGen.cpp` |
|---|---|
| `WhileStmt` | 195-200, up to the call of `condition` |
| `WhileCond` | the rest of 200, 201-202, up to `emit(*s.body)` |
| `BodyEnd` | 204-206 |

### CodeGen

`code`, `placed`, `insert` and `slots` are the LLVM function (blocks numbered
in the order of `BasicBlock::Create`, those inserted, `GetInsertBlock`, the
allocas), `loops` is `loops_`, `value` what `rvalue` returned. An instruction
records what it defines, what it uses, where it may branch, its phi operands,
and the node it was emitted for. `scopes` stands for Sema's scopes, so that a
load only names a variable Sema can see.

Abstractions: all operators with two operands, assignments and calls are one
node (`Operands`, `OperatorLhs`, `Operator`); a literal and a load are a leaf;
`!`, unary minus, casts and the comparison `condition` adds stand with their
operand; a declaration with several declarators is a sequence of declarations;
an array initializer is its scalar case; a value of type void is recognised
only where the code looks at it (`return f();`).

`branchTo` and the end of `emitFunction` ask `isTerminated` first.
`OneOpenBlock`, which is proved, says the answer is always no: after a
terminator the code always starts a block, so these guards are redundant.

### Source and Execution

`Source` gives a body its meaning without blocks, branches or phis: nodes in
evaluation order with markers where control may leave it. `Settled` says where
control goes; every leaf and operator may take either truth value; `If`,
`While`, `ShortCircuit`, `Combine` and `Return` decide. `Execution` lets the
walk of `CodeGen` finish a function and then calls it as often as it likes.
Its property `ImplementsSource` is `Source!Spec` under the refinement mapping
that sends the position in the graph to the node whose instruction is next, a
plain branch to where it leads (a return that code generation added stands one
past the last node).

### Scopes and Names

`Scopes` keeps `scopes_`, `globals_`, `nextId_` and `loopDepth_`, and `tree`
records each node met with the symbol Sema wrote into it and whether it was
reported. Its properties read C's rules off the tree, independently of the
stack of maps. An error does not stop the walk, as in the code; a function
whose declaration conflicts is skipped with its body. A node has the kind
`value`, `addr`, `call` or `sizeof` according to how an expression uses a
name; `Accepted` is what checking says of that use: functions may only be
called, and a global's initializer may only take addresses of globals or a
size. A `return` is an expression statement. Whether a variable's type is
complete is a free choice.

`Names` runs after it when nothing was reported, as `frontEnd` and `compile`
do, and enters symbols into `values` where the code does: a global after its
initializer (`emitGlobal`), a local variable before it, a function when first
met. `values` maps a symbol to the function whose frame holds it.

### Parser, Grammar and Parsing

A frame on `stack` is a method of `Parser` that waits for another, with what
it has left to do (`rule`) and up to one number it remembers (`n`: the level
of an operator, the place of a `{`). Tokens are chosen by `Scan` when the
parser first looks at them, so that the behaviours are the runs over all texts
of a source: a given beginning, a set of kinds, a length. `tree` is the tree
in postfix order, emptied by an error. `Fail` is `error()` with the failed
calls up to the loop that handles them, in `run` or `parseCompound`, and the
`synchronize` call there: between the two no code runs that changes the
parser's state.

Abstractions: a declarator is one token, `x` for an object (and its name in
expressions), `f()` for a function (and a call); `1e` and `s!` are literals
that the decoding rejects; literals of numbers and characters are alike;
`pairs` notes which `}` ended which block, and is read by properties only.

`Grammar` is a table of productions and builds what each nonterminal derives,
by length; nothing in it parses. `Documented` is the grammar of the documents:
the manual's (`docs/user-manual.md:190-223`) with the levels of
`docs/design/parsing.md`, and, for the "declaration" that the manual leaves
undefined, that of `docs/Language Specification.md:103-104`. The manual's table
is wider than C in some places, and since every valid Jia program is to be a
valid C program (`user-manual.md:73`), there C decides: a type is named once, the
operand of `sizeof` is no cast, only functions have bodies and only objects
initializers, an `else` belongs to the nearest `if`. The left side of an
assignment is any binary expression, as in the manual; that it is an lvalue is
Sema's to check. Objects of type `void` are no sentences (`user-manual.md:99`).
What stands inside a declarator is left to `Declarators`.

The parser is not quite a parser of that grammar. `Taken` is `Documented` with
three productions changed, and `MatchesGrammar` compares the parser with it: the
texts accepted are exactly its sentences, so that within the bounds these are the
departures there are, and all of them (see "Findings").

### Types and Declarators

`storage` and the three maps are `TypeContext`'s; an address is a place in
`storage`. The actions are its three operations with any arguments.
`Declarators` has two kinds of behaviours, chosen at the start. In one the
`TypeContext` makes types, and every type made is spelled and measured. In the
other a declarator is written from its name outwards, a layer at a time, with
a record (`uses`) of what has to be done to the name to get a value of the
base type; `DeclaratorsMean` compares what the parser's functions make of the
text with that record. `parseDeclSpec`, `parseDeclarator`, `parseParams`,
`resolve` and `parseTypeName` are operators that return the place after what
they read. `Size` and `Bytes`, the size with and without a width, are recursive
functions of the address in `Types`. `SizeModulus` is 256 for the 2^64 values
of a `uint64_t`, so that products wrap.

### ConstEval, Typing and Lowering

An expression is a node, what is below it, its type and whether it is an
lvalue. A step of `Typing` is the check of one node (an `Analyzer::check`
handler with its calls of `decay`, `promote`, `convert` and the like) whose
operands are on top of `stack`, each as the source has it and as Sema left it,
with the conversions it inserts. So the behaviours are the checks of all
expressions up to `MaxNodes`. A failed check sets `reported` and leaves no
type. `ConstEval` is `evaluateConstant` and `evaluateInteger`. `Lowering`
gives the LLVM type of each value and whether each instruction got operands
LLVM allows (`RValue`, `LValue`, `Condition`, `CastOf`), the constants of
global initializers (`Constant`), and what the emitted code of an expression
without names computes (`Computes`).

Abstractions: `char`, `int` and `long long` have 3, 4 and 8 bits for 8, 32 and
64; a double is counted in halves, so that truncation shows, and a float is a
double with at most `FloatBits` significant bits, 2 for 24 (`RoundToFloat`: to
the nearest, and of two to the even one). So 2.5 and an `int` of 7 are rounded
on their way to `float`, as 16777217 is. That a double holds more than a float
and less than everything does not show: rounding one operation first to double
and then to float gives what rounding it at once does, which is a fact about
IEEE formats and not checked here. Floating division by zero is left out. `OutOfRange` is what
x86-64 leaves for the cast of `ConstEval.cpp:28` when it is undefined: the
fold then depends on the build, and the run takes that build's outcome. `char`,
`int` and pointers take 1, 2 and 4 bytes for 1, 4 and 8.

### Lexer and Literal

A step of `Lexer` is a token, a comment, a blank or an error, with `pos`,
`line` and `column` as the code moves them. `IsLexeme`, `IsTrivia` and
`LocationOf` define tokens, comments and locations without reading the text in
order; every text is a sequence of characters (`TextsAssumption`: none of them
is "end", which stands for there being none). `Literal` has `decodeOne`,
`parseStringLiteral`, `parseCharLiteral` and `parseIntLiteral`; what the code
removes from the front of a body is a place in it that moves forward. Beside
them stands what literals mean, read off the whole text: which backslashes
escape, which digits belong to them, and a number by the values of its places.
A text is a sequence over a small alphabet with one or two letters, digits and
marks of each role; `UnsignedModulus` is 2^12 for 2^32, and the greatest `int`
is 127.

### Driver

The arguments come one by one (`parseArguments`), then each source is one step
of `compile` and, if it emits, another of `emit`; then `link` and the removal
of the temporaries. `files` is the file system: what each file that matters
holds. `reported` is the set of sources with a report, 0 for one of the
command's own. Which sources are wrong is chosen at the start. Each step
outside the process may fail: reading a source, the target, the temporary,
opening or writing the output, the linker, the removal of each temporary
(`refused` keeps those that stayed; the code drops the error,
`Driver.cpp:103-104`). When writing stops with an error,
`Backend.cpp:128-129` reports it (`BreaksOff`); one that first shows at line
135 is returned too, but the stream is destroyed with its error still set,
which is a fatal error in LLVM, and `Killed` stands for this and for signals.

Each module has definitions with a bug in them, before the definition they
alter: plausible mistakes that one property each rejects, kept as evidence
that the properties can fail.

## Runs

| run | module | bounds | states | checks |
|---|---|---|---|---|
| `CodeGenAll` | `CodeGen` | all kinds of nodes, 3 per body, 1 parameter | 147,000 | `TypeOK`, `OneOpenBlock`, `ClosedGraph`, `LoopsMatch`, `UsesDominated`, `Sealed`, `EveryBlockStarted` |
| `CodeGenLogic` | `CodeGen` | `if`, `while`, declarations, `&&`, operators; 4 nodes | 317,000 | `PhiNamesPreds`, `UsesDominated` |
| `ExecutionControl` | `Execution` | control statements and `&&`; 3 nodes | 3,700,000 | `ImplementsSource` |
| `ExecutionData` | `Execution` | declarations, operators, `&&`, `\|\|`, `if`, `while`; 2 nodes, 1 parameter | 334,000 | `ImplementsSource` |
| `MCNames` | `MCNames` | 2 names, 2 function types, 5 nodes | 536,000 | `LexicalScoping`, `OneDeclaration`, `SymbolsDistinct`, `JumpsInLoops`, `UnseenIsItself`, `OwnSlots` |
| `NamesSeen` | `Names` | 3 nodes | | violation of `EveryNameSeen` |
| `Parsing` | `Parsing` | thirteen sources of 5 to 8 tokens after their beginning | 1,852,000 | `TypeOK`, `ReportedOnce`, `BlocksKept`, `MatchesGrammar`, `Terminates` |
| `ParsingBraces` | `Parsing` | the same | | violation of `BlocksEndAtTheirBrace` |
| `Declarators` | `Declarators` | 7 types, lengths 0, 2, 64, 1 parameter; 4 layers | 912,000 | `TypesOK`, `Unique`, `Answers`, `DeclaratorsMean`, `SpellingsParse`, `SizesWrap` |
| `MCLowering` | `MCLowering` | 4 nodes with 11 names, 5 without names, 2 arguments | 1,131,000 | `TypesKnown`, `WellTyped`, `InitializersConstant`, `FoldedAsComputed`, `LengthsMean` |
| `MCLexer` | `MCLexer` | all texts of 4 characters out of 16, literals up to 7 | 453,000 | `LongestTokens`, `Located`, `Decoded` |
| `MCDriver` | `MCDriver` | 3 paths, two with one stem, 3 inputs | 1,491,000 | `Built`, `NoTemporaries`, `Told`, `OthersKept` |

What the properties say:

* `OneOpenBlock`, `Sealed`: "every block still ends in exactly one terminator"
  (`CodeGen.cpp:158`), at every moment and not only at the end.
* `ClosedGraph`, `EveryBlockStarted`: a finished function has all the blocks
  that were created for it, and branches stay inside.
* `LoopsMatch` and `JumpsInLoops`: the first agreement between Sema and code
  generation; `UnseenIsItself`, `OwnSlots`: the second.
* `PhiNamesPreds`, `UsesDominated`: SSA form. The interesting case is a
  declaration that is an `if`'s or a `while`'s body without braces: its name
  stays visible after the statement (`Analyzer::check` opens no scope for it),
  and only the slot's place in the entry block makes the later use valid.
* `ImplementsSource`: the emitted code means what the statements mean.
* `LexicalScoping`, `OneDeclaration`, `SymbolsDistinct`: names. A use is
  reported exactly when no declaration of its name is in force, when the one
  meant has the wrong sort (a call of a variable, another use of a function), or
  when it is in a global's initializer and neither under `&` nor under `sizeof`.
* `MatchesGrammar`: the parser accepts the sentences of the grammar, with the
  three departures, and no others, gives each its only tree, and reports its
  first error at a token with which no sentence goes on.
* `Terminates`, `ReportedOnce`, `BlocksKept`: recovery. The parser reaches the
  end of every text, does not report a token twice (the end excepted, which
  each open block reports), and a block it closes early is one in which a `{`
  was skipped. That this case is possible is the second finding.
* `Unique`, `Answers`: types may be compared by address. `DeclaratorsMean`:
  stars, suffixes and parentheses apply in C's order, whatever order they are
  read in. `SpellingsParse`: a type in a message, put back into a program, is
  that type. `SizesWrap`: a size is right modulo 2^64, and a size that wraps
  to 0 is still a size and no incomplete type.
* `TypesKnown`, `WellTyped`, `InitializersConstant`: the third agreement
  between Sema and code generation. What Sema lets through has a type
  everywhere, each instruction gets the operands LLVM asks for, and what Sema
  calls a constant initializer `constant()` can build.
* `FoldedAsComputed`: a folded value is the one the code would compute, each
  float in it rounded. `LengthsMean`: so is an array's length, which the parser
  folds before types are known, in 64 bits and double (`ConstEval.h:18-20`), if
  nothing overflows `int` or is rounded to `float` on the way. Both conditions
  are needed: `int a[(int)(0.29*100.0)]` has 28 elements, for the product
  is a little less than 29 in double; rounded to `float`, as in the same
  expression after Sema, it is 29.
* `LongestTokens`, `Located`, `Decoded`: tokens are C's and the longest, every
  message is about the place it names, and a literal has the value it spells.
* `Built`: success means that all outputs asked for are there, complete and
  made from the right sources, save one that a later source of the same name
  replaced; `Told`, `NoTemporaries`, `OthersKept`: what failure leaves behind. A
  process that exits leaves no temporary but those the system refused to remove;
  of these it says nothing, and may exit with 0.

Bounds. In the runs of `CodeGen` and `Execution`, nodes that a statement forces
(conditions, initializers, markers) are not counted, only those chosen freely.
Three statements nest a jump in an `if` in a `while`, or put dead code after a
jump in a branch; a fourth puts a logical operator into the operand of another
one inside a condition, which is the least in which an operand ends in another
block than it began in and the phi's own block is the operand's of a third. Two
are enough to have each operator and initializer in each context, and the
control run has the depth. Executing with all leaves free covers all values of
all conditions.

For names, `MaxTree` bounds all entries of `tree`, so that the markers which
end an initializer, a body or a loop, or begin a loop's body, take room from the
nodes chosen; only the markers that end the text may go beyond it. Five nodes
hold a function, its parameter, an inner block, a variable in it that shadows
the parameter and a use in that variable's initializer; or a function, its
parameter, its end, a global and a use in the global's initializer, out of the
parameter's scope; or a prototype, a definition with a call in it, its end and a
conflict; or a loop with a jump in it. A use after the end of an inner block
that shadows takes seven, which the run does not reach: there the theorems about
`Scopes` and `Names`, for trees of any size, say more than the run.

The parser's sources divide the language: declarations, specifiers,
statements, `if` and `else`, declarations as their bodies, binary operators of
six levels and assignment, prefixes, postfixes, casts, literals, and three in
which text goes on after errors. Six to eight tokens hold two operators of any
two levels in either order with their operands, a nested `if` with two `else`,
a block in a broken statement and what comes after; a source without errors
ends at its first one, since what matters there is where it is.

Four layers of a declarator hold a pointer to an array of pointers in
parentheses, a parameter list in the middle, and each error of `resolve` in
both orders. Seven types are three made by the program: a pointer, an array or
a function over another one, and the same asked for again; the sizes of two
arrays of 64 multiply to more than 8 bits.

`MCLowering` declares a name of each type that Sema tells apart, const and
global ones among them. Four nodes hold an operator over an operator and a
leaf and a conversion on either side; numbers alone go to five, which folds
twice. 7 is the greatest `int` of 4 bits and no float of 2; of the floating
literals, 1.5 has a fraction that is kept, 2.5 is rounded, and 128 is out of the
range of `int`.

The lexer's texts of four characters hold every pair of a token with what may
follow it, a comment and a token, and a line's end in each; literals go on
longer, to two escapes and to the integer that just overflows.

Three inputs of the driver hold a failure before, after and between others,
and two sources that share an output. The process ends, so that deadlock is
not checked in `MCDriver`; nor in `Declarators`, `MCLowering` and `MCLexer`,
where a behaviour ends at its bound or with the text.

`MaxTree` bounds the walk, so that in `Scopes` and `Names` a walk may stop
where it would need another node: deadlock is not checked there. In the runs
of `CodeGen` it is, and none is found: with no room left the walk can still
end every open construct.

Fairness. `FairSpec` is `WF_vars(Next)`: the code is sequential, waits for
nothing and walks a finite tree, so while a step remains it is taken. It is
used for `EveryBlockStarted`. `Parser` has the same, for the same reason, and
there the property `Terminates` is the question itself: each step is one the
code takes without waiting, and a recovery that consumed nothing would go on
for ever.

## Findings

`NamesSeen` finds `void *p = &p;` at file scope. Sema declares `p`, also in
`globals_`, before it checks the initializer (`Sema.cpp:152-158`), and the
address of a global is a constant initializer. `emitGlobal` builds the
initializer before it enters `p` into `values_` (`CodeGen.cpp:89`, `:96`), so
that `valueOf` finds nothing and its assertion "Sema resolved a name codegen
never saw" fails; built without assertions it uses the map's end. C allows the
declaration. `UnseenIsItself`, checked by `MCNames`, shows that a global in
its own initializer is the only case.

`ParsingBraces` finds `int f() { int { } return 1; }`. `synchronizeStatement`
(`Parser.cpp:176`) stops before any `}`, without counting the `{` it skips, so
that the `}` after `int {` ends the body of `f`, and `return 1;` is read at
file scope. The comment at `Parser.cpp:511-512` and
`docs/design/parsing.md:59-60` say that a broken statement does not take the
rest of its function with it. The program is rejected either way; only the
messages after the first differ. `BlocksKept` says this is the only way to
lose a block.

Three departures of the parser from the documented grammar are the exceptions of
`MatchesGrammar`, written down in `Taken`:

* `int f() { if (x) int x; }` is accepted: `parseStatement` takes declarations
  too (`Parser.cpp:598-599`), and `if` and `while` call it for their bodies. The
  manual's grammar has declarations beside statements in a block and nowhere
  else (`user-manual.md:208-212`), and so has C, of which every Jia program is to
  be a program (`:73`). `CodeGen` and `Scopes` model such bodies, since code
  generation meets them.
* `int f() { int ; }` is reported: a declaration in a block needs a declarator
  (`Parser.cpp:624`), one at file scope does not (`:421-422`), and
  `Language Specification.md:103-104` has the list optional for both. Prototypes
  in blocks, sentences of the same rule, are refused in so many words (`:631`).
* `int x = {};` is accepted (`Parser.cpp:493`), while an initializer list has at
  least one initializer in the manual's grammar (`user-manual.md:206`).

## Proofs

`CodeGenProofs` proves, for all sizes of bodies, all kinds of nodes and any
number of parameters (from `BoundsAssumption` alone: the constants have their
types):

| theorem | property |
|---|---|
| `Invariance` | the inductive invariant `IInv` |
| `TypeCorrect` | `TypeOK` |
| `OneTerminator` | `OneOpenBlock` |
| `Closed` | `ClosedGraph` |
| `LoopsMirrored` | `LoopsMatch` |
| `NeverReopened` | `Sealed` |

None of the properties is inductive. That a block which is not yet in the
function is empty, and that an end block is started exactly once, depends on
what the waiting activations will do. `IInv` therefore says, while a body is
emitted,

* `Graph`: the blocks in the function other than the insertion block end in
  their only terminator, the insertion block has none, the others are empty,
  and branch targets exist and are not the entry block;
* `Owes`: the blocks not yet in the function are exactly the ones the frames
  on the stack name as `next`, `alt` and `end`, each named by one frame;
* `LoopsInv`: `loops` has one entry per `bodyEnd` frame, in order, with that
  frame's blocks;

and that the stack is well formed (a frame's kind says which of its blocks are
set). A step either leaves the graph alone, or ends the insertion block and
starts a block that the innermost frame owed. When the stack is empty nothing
is owed, so every block is in the function: `ClosedGraph`. `Sealed` follows
because a step appends to the insertion block, which is open, and to blocks
not yet in the function, which are empty. Lemmas about `Append`, about
removing the last frame and about replacing it by others carry the cases;
there is one step per action.

It goes on from there, from the same assumption:

| theorem | property |
|---|---|
| `StaysSSA` | the inductive invariant `IInv /\ SSA` |
| `PhisComplete` | `PhiNamesPreds` |
| `OperandsDominated` | `UsesDominated` |

`UsesDominated` is about what control can reach, which the model computes step
by step. The proof replaces it by a set: `Dom(c, d, b)` says that there is a set
of blocks that holds the entry and all that its members branch to, `d` excepted,
and does not hold `b`. `ReachInside` shows that what control reaches without
entering `d` is inside every such set, for which the recursive function of the
model has to be shown to have a solution first (`ReachEquation`). So `Dom`
implies `Dominates`, and steps of the builder are steps on such sets. There are
three kinds of new branches. One to blocks that do not branch yet and are not in
the function adds them to the set (`KeptForward`). One back to the head `h` of a
loop leads nowhere new, because all branches to blocks behind `h` come from `h`
or from behind it: if the set held the block that branches back and not `h`,
its members before `h` are enough (`KeptBack`). One to a block with one
predecessor so far makes that block dominated by whatever dominates both
(`DomJoin`).

`SSA` says of the code that it is in SSA form with `Dom` for `Dominates` (`Phis`,
`Uses`), that names in scope are slots, and of the activations that wait (`Sound`):

* only parts of an expression stand above one that waits for a value (`Nested`);
* `while`: its head is in the function, no phi starts it, and it is all that
  leads on past it (`LoopHead`); the blocks owed inside the loop come behind it
  (`Ahead`). This is why a back edge adds no predecessor to a phi;
* `&&` and `||` after their left side: `back` is in the function and the only
  block that branches to the phi's block so far (`Held`). So the phi, which
  `LogicalRhs` writes when the right side has branched, names all predecessors;
* an operator that waits for its right operand: its left one is defined in a
  block that dominates the insertion block and the `back` of every `&&` or `||`
  above it (`Live`). It therefore still dominates where these join;
* a declaration's initializer: its variable has a slot (`Held`).

What was evaluated last is defined in the insertion block itself (`Feeding`).
A jump leaves an insertion block that nothing reaches; `Nested` says that then
no activation holds a value, so that nothing needs to dominate it.

`ExecutionProofs` proves the refinement, for bodies of any size and any number
of parameters, for runs of any length and all values, from `BoundsAssumption`:

| theorem | property |
|---|---|
| `StaysFaithful` | the inductive invariant `Sense` of emission |
| `StaysOnCourse` | the inductive invariant `ExecInv` of runs |
| `Refines` | `ImplementsSource` |

`Source` reads a body as a sequence of nodes with markers; code generation
writes blocks, with branches to blocks that are placed much later or not yet
created. What ties the two are functions that neither has: labels `L`, which
say at which node a block begins, and `K`, which says for which node an
activation was started. `Sense` says that such functions exist, with these
properties:

* `Struct`, of the text: `if`, `while`, `&&` and `||` are each open as often as
  activations hold them open; a node that an activation holds is still
  pending, and any other has its end; operands hold expressions only. `Nest`
  counts as `Source` does, so that the partner of a closed node is the one that
  `Partner` chooses (`MetOnce`, `PartnerMet`).
* `Meant`, of each instruction: it stands for the node it was emitted for,
  computes, uses and returns what that node calls for, and between the
  instruction before it and that node control only passes (`Calm`). A branch
  leads to a block that begins where control goes on, or to one that an
  activation will place there (`Far`, `Owner`). A phi takes the left value on
  the edge on which that decided, and the right one on the other (`Joined`).
* `Linked`: every place where control leaves the order of the nodes has its
  destination, in the text or in the hands of an activation.
* `Marks` and `Ready`, of the activations: a loop goes back to the block of its
  condition, a waiting `&&` or `||` remembers the block its left operand ended
  in, and whoever waits for a value gets that of the node just emitted.

Each step of the walk visits at most one node, ends at most the insertion block
and starts at most one that the innermost frame owed; what was settled stays so
because texts and blocks only grow (`MetKept`, `FarKept`, `MeantKept`). When the
stack is empty the debts are paid, and `Whole` holds of the finished function.

`ExecInv` adds, while a function runs, that control came to its block as the
values say (`Came`), and that for each `&&` and `||` whose right operand has
begun the left value did not decide (`Undecided`). The phi's case rests on both:
the edge taken says which value counts, and `Combine` of `Source` asks the left
value. `Settled` and `Position` are recursive functions, so each needs a proof
that its equation has a solution before anything can be said of its values. A
`break`, `else` or passed node moves forward, and an `endwhile` or `continue`
back, but only to a condition, where control settles (`Unwinds`, `SettledIs`); a
plain branch moves to a later node or back to a block that begins with an
evaluation (`AtEquation`). With that, an evaluation, store, phi, conditional
branch or return of the graph is the step of `Source` at the same node, a plain
branch is a stutter, and emission is `Write`. `Refines` says what a run may do
and not that it goes on; that a phi always has the edge it was entered by is
`PhisComplete`.

`TypesProofs` proves, for any array lengths, any number of parameters and of
types (from `TypesAssumption`):

| theorem | property |
|---|---|
| `TypesInvariance` | the inductive invariant `TypesInv` |
| `TypesWellFormed` | `TypesOK` |
| `TypesUnique` | `Unique` |
| `AnswersRight` | `Answers` |
| `SizesRight` | `SizesWrap` |

`Unique` needs the converse of `Answers`: each derived type is filed in its
map under its own key (`Filed`), and only the constructor makes base types
(`Bases`). A new type is only made when its key is in no map, so by `Filed` no
type in `storage` equals it.

`SizesWrap` compares two recursions on the addresses of types: `Size`, which
wraps at every step like the code's products, and `Bytes`, which does not. The
elements of an array were made before it (`Elements`), so both have exactly one
solution on the types made so far; `SizesInv` carries that, and that the two
agree modulo `SizeModulus` (`Agree`), from one type made to the next. The step
is `SizeOfWraps`: wrapping a factor does not change a wrapped product
(`ModProduct`), and an array of unknown length, or of elements without a size,
has no size and zero bytes.
`TypesAssumption` asks only that `SizeModulus` exceeds 8.

`DriverProofs` proves, for any paths, stems, inputs and files, any number of
inputs and any failures, that of the removal of a temporary included:

| theorem | property |
|---|---|
| `TemporariesRemoved` | `NoTemporaries` |
| `ErrorsTold` | `Told` |
| `FilesKept` | `OthersKept` |
| `AskedForIsBuilt` | `Built` |

`DriverAssumption` says that no file the user names is one of the temporaries,
which is what creating a temporary under a new name means. `TemporariesRemoved` says of
a process that exits that the temporaries left are those in `refused`. The invariant
`DriverInv` says, for the sources before `next`: their temporaries are on the
list and hold their objects (`TemporariesInv`, `ObjectsInv`), or their outputs
hold what the last source of that name gave (`OutputsInv`); a wrong source is
reported, and `ok` is false exactly if something is (`ReportsInv`);
`TargetInv` says where `emit` writes meanwhile. After the loop, what it built
must survive `link` and the clean-up: `ExecutableInv` and `OutputsLeftInv`,
since temporaries are no files the user named.

`NamesProofs` proves, for any names, function types and uses of names and
programs of any size (from `NamesAssumption`: the marker for no name is not a
name, `Object` no type of a function):

| theorem | property |
|---|---|
| `WalkInvariant` | the inductive invariant `WalkInv` |
| `NamesResolve` | `LexicalScoping` |
| `DeclaredOnce` | `OneDeclaration` |
| `SymbolsApart` | `SymbolsDistinct` |
| `JumpsHaveLoops` | `JumpsInLoops` |

The properties read C's rules off the tree, and what `lookup` finds is in the
maps; `WalkInv` ties the two. `Held` says that the map of scope `l` holds a
name exactly when the tree has a declaration of it at that depth which is still
in force, and then with the symbol, the type and the definition that those
declarations add up to; that nothing in force is deeper than the open scopes is
part of it, since a scope that is entered starts empty. `DepthOK` and `StackOK`
say that the scopes and loops open in the tree are as many as `scopes_` has
above the file's and as `loopDepth_` counts, and as wait on the stack. `Rules`
says of every node met what the properties say; a node keeps it because what it
depends on comes before it (`RulesKept`). The rest is what one node more
changes: depths, what is in force, and what a name means (`DepthGrown`,
`LiveGrown` and the lemmas after them). That a use is reported exactly when it
is not right (`UseInv`) needs more than `WalkInv`: that variables at file scope
are in `globals_` (`GlobalsHold`), and that what waits on the stack tells whether
a global is being initialized (`Shape`). Redeclarations of functions need the
longest part: that the symbol in the map has the type of all declarations in
force and is defined if one of them is.

and of `values_`, from the same assumption:

| theorem | property |
|---|---|
| `NamesInvariant` | the inductive invariant `NamesInv` |
| `OnlyItselfUnseen` | `UnseenIsItself` |
| `SlotsOwned` | `OwnSlots` |

`NamesInv` keeps `WalkInv` and adds, of Sema's walk, that nothing but uses of
names stands between a global and the end of its initializer (`Followed`,
`Waits`). Of the second walk, at node `pos`, it says that every symbol declared
so far is in `values`, save the one whose initializer is being built
(`Entered`, `Pending`), that a local's slot is in the frame of the last
function defined before its declaration (`Filed`), and that `fn` is the last
function before `pos` (`LastDef`). By `LexicalScoping`, which holds of the
accepted tree, a use refers to a declaration before it that is in force; a
definition in between would have closed its scope.

`ParserProofs` proves, for any sources and texts of any length (from
`SourcesAssumption`: the beginnings are sequences):

| theorem | property |
|---|---|
| `ParserInvariant` | the inductive invariant `ParserInv` |
| `StaysInText` | `TypeOK` |
| `ReportsOnce` | `ReportedOnce` |
| `BlocksEnd` | `BlocksKept` |

The three are about what the methods expect of each other, which the stack has
to say. `ParserInv` has three parts:

* `Place`: the parser is inside its text and has not passed the end; each
  method stands above one that calls it where that matters (a loop's
  `synchronize` above that loop, a block's items above its end), `Run` is at
  the bottom; no loop began later than where the parser is, and the places of
  the braces that waiting methods opened decrease down the stack.
* `Reports`: a reported token is behind the parser, or it is the next one and
  the method on top skips it or matches it with the block's own `}`, or it is
  the end. So the next error is at another token. The exception is what
  `FinishVarDecl` reports: the name, one token back, which nothing reported
  before because it was consumed without an error.
* `Kept`: for each brace still open and each pair already matched, the braces
  after it balance, or a `{` among them was skipped by recovery. For an open
  brace the excess of `{` over `}` is exactly the number of open braces from it
  on. When its `}` comes it is the innermost, so the excess is 1 and drops to
  0 for the first time: the pair is the one that counting gives. A skipped `{`
  is never matched later, so once lost it stays lost.

`LexerProofs` proves, for any texts and any keywords (from `TextsAssumption`, and
of literals from `LiteralAssumption`):

| theorem | property |
|---|---|
| `LexInvariant` | the inductive invariant `LexInv` |
| `TokensLongest` | `LongestTokens` |
| `TokensLocated` | `Located` |
| `LiteralsDecoded` | `Decoded` |

`LexInv` says that `line` and `column` are the location of `pos`; that every
token made is one of C's that could not be longer, at the location of its first
character (`Sounds`); that every error is at a character where no token and no
comment begins (`Blamed`); and, as long as there is no error, that the text
between one token and the next and from the last one to `pos` is blanks and
comments (`Gapless`). `OneStep` is the heart: from any place each rule of the
lexer makes the longest token, skips one blank or comment, or is rightly stuck.
The first character says of which sort a token can be (`LexemeSorts`), so that a
rule has to be compared with one definition only. A number and a literal in
quotes are read by loops, which the model has as recursive functions:
`MovesOn` shows that a recursion that moves forward has a solution, and
inductions from the end of the text backwards (`Backwards`) what it finds. In
quotes, the loop skips the character after a backslash, while the definition
counts the backslashes before a character; they agree because the loop only
ever looks at characters that are not escaped (`EscapedNext`, `QuotedRuns`).
`LongestTokens` names an error by its location, so it needs that two characters
never share one (`LocationsApart`).

`Decoded` is a fact about `Literal` and the texts of tokens. `decodeOne` reads
digits from the left, `Says` adds the values of their places: `NumberSays`
carries the one into the other digit by digit. That no more than three octal
digits stay below 512 (`OctalSmall`) is why `LiteralAssumption` asks for an
`UnsignedModulus` above 511, and no more. An escape is followed by digits up to
the first character that is none, or by a name (`EscapeMeans`). Of backslashes
in a row every other one escapes (`EscapesAlternate`), so what an escape takes
up has no other escape in it and the next character of the literal begins right
behind it (`UnitEnds`). From there the induction goes backwards over the places
where a character begins (`UnitsDecoded`): what is decoded from one of them is
an error if an escape from there on is ill-formed, and else as many characters
as begin there, each where the count says.

Only model-checked:

* `EveryBlockStarted` and `Terminates`: liveness under fairness is beyond the
  prover;
* `MatchesGrammar`, `DeclaratorsMean` and `SpellingsParse`, and what is said of
  `Typing` and `Lowering`: they compare recursive operators on trees, texts and
  folds with each other, which the prover does not take.

## Not modelled

* Completion of array types, initializer lists, the checks of conditions and
  of return statements in Sema; constants of arrays and strings, the pool of
  string literals and the attributes of the module in code generation.
* Floating literals, which go to `std::from_chars`; infinities, NaNs and
  subnormal numbers.
* `-O` and `--target`, which choose what LLVM does; LLVM itself, of which only
  the semantics of the instructions used is assumed (the external entries of
  the map).
* The AST dumper, the rendering of diagnostics, `jia-lit` and `jia-bench`:
  output and tools, without state worth a model.

Hazards that no property covers: what recovery at file scope skips
(`Parser.cpp:158`; the manual only promises as many messages as possible);
`sizeof` of an object of 2^31 bytes, an `int` literal that no `int` holds
(`Sema.cpp:437`; the scaled sizes do not reach it); elements of a const array,
which may be assigned (`Sema.cpp:618`; the language as documented); and the
temporaries left by a process that is killed (`Backend.cpp:135`).
`NoTemporaries` names the temporaries that a process leaves because their
removal failed and asks nothing more of them: no document does. `Decoded`
leaves out hex escapes of a number that no `unsigned` holds, which wrap
(`Literal.cpp:60`).

## Plan

Done: code generation and names; parser and grammar; types and declarators;
lexer and literals; folding, typing and lowering of expressions; driver and
options. Proved, beside the invariants of each: that emitted functions refine
what their statements mean. Left, in this order:

1. `TypesKnown` for all expressions; its recursive operators would first have
   to become functions on trees with numbered nodes.
2. Array completion and initializer lists in Sema and `constant()`.
3. Conditions and return statements in `Typing`, and with them the rest of the
   statements' conversions.
