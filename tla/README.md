# Verification of the Nebula compiler

TLA+ models of the Nebula compiler (`nbu`), the configurations that check them
with TLC, and proofs that the TLA+ proof system (TLAPS) checks. Every definition
stands for lines of the compiler; `PROJECT.json` has the line ranges under `map`.

To repeat a check, run TLC on a module `MC<name>.tla` with one of its
configurations; to repeat the proofs, run `tlapm` on the modules named
`*Proofs.tla`.

## 1. The system

The compiler is one thread that runs its passes one after the other over one
file. Nothing is concurrent, nothing is persisted, and there is no failure to
recover from: the hard part is the state the passes share and hand on, through
recursion over a tree, tables that several loops read in different ways, and
numbers with sentinels in them.

```
file --> Lexer --> tokens --> Parser --> AST --> Semantic --> AST + tables --> IRTranslator --> IR --> print
                               |  typeTable          | first pass, second pass
                               |  arena              | errorNumber # 0: stop
```

| Component | State it keeps | Operations | What must be right |
|---|---|---|---|
| Types (`type.h/.cpp`, `resolve_type`, `tryPromote`) | `typeSize`, with sentinels -1 (void), -2 (enum), 0 (struct) | comparison by kind, choice of a common type, acceptance of a conversion | used by every later pass; the sentinels must not be read as sizes |
| Lexer (`lexer.cpp`) | stream position, `currentState`, `currentWord`, line | one turn of the loop per character read; `flush_token`; `handle_symbole`; `::`; `asm { }` | every character is used once, numbers and words are told apart, lines are right, the loop ends |
| Parser, expressions (`parser.cpp`) | token index, recursion | `parse_expression` (precedence climbing), `parse_primary`, `parse_function_call` | the tree is the one the operators mean; only a wrong token is refused |
| Parser, declarations and statements | `typeTable`, enum counters, recursion | `parse_function`, `parse_struct`, `parse_enum`, `parse_if_sentence`, `parse_block`, ... | which trees there are; what a name means as a type, also to declarations in front of its own |
| Semantic, first pass | `globalStructRegistery`, `globalEnumRegistry`, `functions` | `structSize`, registration with `emplace` | members of a struct apart, aligned, packed; what was computed from a table stays valid |
| Semantic, second pass | `globalSymbolTable`, `scopeStack`, `offset`, `currentFunc`, `errorNumber`; fields of the AST | visitors of declarations, statements, expressions; three lookups; promotions put into the tree; `hasReturn` | frames without overlap, scopes balanced, lookups that agree, types that agree with the tree |
| IRTranslator (`irTranslator.cpp`, `ir.cpp`) | `currentFunc`, `currentBlock` (a pointer into a vector), `blockCounter`, `tempCounter` | `TranslateStmt`, `TranslateExpr`, `emit*`, `toIRType` | labels, jumps, temporaries and types well defined; effects in the order of the source |
| Arena (`type.h`) | a bump pointer | `alloc` | never moves a node |
| Driver (`main.cpp`), printing | none | runs the passes, stops after errors | a file is rejected exactly when it should be, and the IR of an accepted one holds all of it |
| Back end (`codegen.*`) | - | not part of the build | - |
| Language server (`lsp_main.cpp`) | - | an empty main | - |

How they interact. The parser reads tokens with one or two of lookahead and
looks names up in `typeTable`, which its own declarations fill. The semantic
analyser walks the tree twice: first to register structs, enums and functions,
then to check bodies. It writes into the tree: the slot of a variable
(`info`), the type of an operation (`precision`), and new `PromotionNode`s in
place of operands. The translator runs only when `errorNumber` is 0; it reads
what the analyser wrote and asks the tables nothing more. So what the analyser
decides with (types recomputed by `type_precision`) and what it leaves in the
tree (read by the translator) are two copies of one thing, and so are what
`hasReturn` says of a function and the paths the translator builds for it.

Behaviours that are hard to test: names bound again at every nesting of scopes;
struct sizes built from other structs' sizes until they wrap around; sentinels
used as sizes; nested and consecutive `if` statements and the block numbers
they share; promotions inserted under nodes that were analysed before; the end
of a file in every state of the lexer. `PROJECT.json` lists each under
`hazards`, at its line, with the properties aimed at it.

## 2. The modules

| Module | Models | State <-> code | Actions <-> code |
|---|---|---|---|
| `NebulaTypes` | types and conversions | no state: `typeSize`, `AlignUp` (the mask expression), `resolve_type`, `tryPromote` | - |
| `OperatorPrecedence` | the precedence table | no state | - |
| `StructLayout` | `Semantic::structSize` | `registry` = `globalStructRegistery`; `ret`, `maxAlignment` = locals of `structSize`; `fields` = the members laid out | `BeginStruct`, `LayoutField` (one turn of its loop), `EndStruct` (tail rounding and `emplace`) |
| `SourceWalk` | the trees of the grammar, and the order both later passes visit them in | `open` = the recursion's stack, with `hasReturn` of the part visited | one action per construct opened, visited or closed |
| `Scopes` = `SourceWalk` + tables | second pass: declarations and statements | `globals` = `globalSymbolTable`, `scopeStack`, `functions`, `offset`, `paramOffset`, `currentFunc`, `errorNumber` | one action per visitor, or per half of one that recurses (`BeginIf`/`BeginElse`/`EndIf`) |
| `FlowGraph` = `SourceWalk` + blocks | `TranslateStmt`, emit functions for jumps and returns, next to `hasReturn` | `blocks`, `currentBlock` (an index for the pointer), `blockCounter`; `ids` = local `currentCounter` of each activation | as above |
| `Expressions` | expressions through parser constructors, analysis, translation | `nodes` = the arena, `phase`, `errorNumber`; `pending` = recursion of `TranslateExpr`; `code`, `tempCounter` | `Parse*`, `Analyse*` (one per visitor), `Convert`, `Translate*` (one per case of the visitor) |
| `ExpressionParser` | `parse_expression`, `parse_primary`, `parse_function_call` | `tokens` (those read), `stack` = the recursion with the loop's position and the tree so far, `result` | one action per branch of the three functions |
| `Lexer` | `lexer` and its helpers (`flush_token`, `handle_symbole`, ...) | `file`, `pos`, `state`, `word`, `tokens`, `line` | one action per branch of the loop |
| `NebulaPrograms` | syntax of whole programs; the check and the translation of a statement, as operators on tables | no state: `emplace`, `StatementErrors`, the keys `operator[]` inserts, `TypesTranslated`, `Instruction` | - |
| `Declarations` | top level of the parser | `typeTable`; `file` = the list of nodes; `current` = the node under construction; `counter` = `i` of `parse_enum`; `ahead` = a semicolon that was looked at and left | one action per declaration opened or closed and per part read |
| `Compiler` = `Declarations` + both passes of the analyser + driver + emission | what `main` runs | `functions`, `globals`, `enums`, `members`, `structs` = the five tables; `functionCounter`, `currentFunc`, `errorNumber`; `notes` = fields the analyser writes into nodes; `prog` = the IR; `stage` = the pass that runs, `verdict` = how the process ended | one action per turn of a pass's loop, or per statement |
| `CompilerPromise` | what the compiler promises of a file, without passes or tables that grow: the specification `Compiler` implements | `file`, `verdict`, `prog` | `Read`, `Refuse`, `Reject`, `NullCode`, `Fail`, `Compile` |
| `StructuredFlow` | structured programs: the stack of open statements and whether the end of each part can be reached, without blocks, labels or jumps: the specification `FlowGraph` implements | `live` = the place the next statement goes to can be reached; `waiting` = for each open `if`, whether its second branch is to come, whether that can be entered, and whether what follows is reached already; `functions` = those finished | `Enter`, `Return`, `Fork`, `SecondBranch`, `Join`, `Leave` |
| `SourceWalkProofs` | lemmas about the walk, one per action of `SourceWalk` | - | - |
| `StructLayoutProofs`, `ScopesProofs`, `FlowGraphProofs`, `LexerProofs`, `ExpressionParserProofs`, `ExpressionsProofs` | theorems about `StructLayout`, `Scopes`, `FlowGraph`, `Lexer`, `ExpressionParser` and `Expressions` | - | - |
| `CompilerProofs` | theorems about `Compiler`, and that it implements `CompilerPromise` | - | - |

`MC*` modules give the constants their values. Definitions commented "Mutant:"
are single plausible errors in one definition each; `PROJECT.json` says which
property each of them breaks. They are part of no specification.

Conventions. A tree is walked node by node, so a recursive visitor becomes a
stack in a variable and one action per visit. Trees and files are not given in
advance: an action chooses the next node or token, and the constants bound how
many there are. Pointers are positions (nodes in the arena, blocks in the
vector), so that a stale one is a position that is no longer the newest. Words
have a modulus `Word`, and every sum that is one of words in the code is taken
modulo it. Variables commented "history" are read by properties alone.

## 3. The runs

| Run | Question | Bounds and why they are enough |
|---|---|---|
| `struct_layout` | Are members apart, aligned, packed, and structs stable? | 2 names, 3 members, 1- and 8-byte scalars, enums, a word of 64 values. Three members give padding before, between and after; a struct nested in another gives sizes that are not their alignment; the small word lets sums wrap around. |
| `scopes` | Do frames, scopes and lookups stay consistent? | 4 declarations or statements over 2 names and one function name. Enough for a name bound as a global, parameter, local and in an inner block at once, and for two functions in a row. At most one error is counted (`MaxErrors` = 1): one is enough for no IR to be made, and what a second would add is a number. |
| `flow_graph` | Do the blocks agree with `hasReturn`, and do they implement the structured program? | 6 nodes: three `if` statements nested or in sequence inside one function, or two functions. Labels are counters, so a clash shows with two. |
| `lexer` | Is every character used once? Does the loop end? | All files of up to 5 characters over ten classes (`asm` is one character). Every state of the lexer is reached in two characters and left in two more; five give `asm { }` a body and something after it. |
| `expression_parser` | Is the tree the meaning of the tokens? | 7 tokens over one loose and one tight infix operator, one that is both prefix and infix, and `!`: three operators in a row, parentheses and calls inside each other. |
| `expressions` | Temporaries, order of effects, types | All expressions of up to 4 nodes over an integer wider than a literal, an address, a struct and an enum; a call with an argument and one that returns nothing. A promotion under an operation under a promotion needs three. |
| `compile` | Does the compiler keep its promise about whole files? What do names mean, what do tables hold? | 3 declarations of 5 parts (a declaration, an enum member, a field, a parameter or a statement each). One identifier `a` is what every enum, struct and type is called and the name of a function too; a second function `b`, a variable `x`, one enum member, `;` and built-in words as types. Statements: a return of `x` or of `a::m`, and a call of `b` without and with an argument. So every order of an enum, a struct, a global and functions that mention each other is there, twice the same name, a call in front of the function and an enum member in front of the enum. Values 0, 1, ... and 256: both sides of the bound of a byte. |
| `struct_enum_member`, `shadowing`, `compare_promotion`, `void_promoted`, `call_arguments` | Does the code do what the README says here? It does not: see findings. | The same modules; smaller trees. |

Symmetry is used in the two runs of `Scopes` alone: names of variables are
compared with each other and nothing else. Neither run has a temporal property
with fairness; `BindingsStable` speaks of one step, for every name alike.

Deadlock is checked everywhere but in `lexer`, whose loop stops at the end of
the file: `Terminates` shows that it does so always and not earlier than that.
In the other modules a final state is an explicit stuttering action (`Done`,
`Stop`, `Ended`), so that a walk that is stuck half-way is an error; in `StructLayout`
another struct can always be declared.

Fairness. `Lexer` has `WF_vars(Next)`: the loop is the only thing its thread
runs and nothing it calls waits, so an iteration that can be made is made.
`Terminates` needs that every iteration gets on: one that puts a character back
must have done something else. No other module states fairness.

### What the runs show

- Struct layout: with ordinary members (no sentinel, no wrap-around) members
  never share a byte, are aligned also through nesting, and no padding is
  larger than it must be; of layouts that wrap around nothing is claimed but that
  the registry keeps them. Nothing of one struct's layout is left when the next
  one starts.
- Scopes: as long as no offset wraps around or comes from a sentinel, locals of a
  function never overlap, also after scopes are closed, and parameters never
  overlap, also under one name; a local of an enum type has its backing type
  before it is given room; every function starts from an
  empty frame and an empty stack; where a name has one binding the three
  lookups agree; a binding never changes while its scope is open.
- Control flow: the pointer to the current block is never stale, labels are
  unique within a function, every jump goes to a later block of its function,
  no block runs into the one stored after it, and the place code is appended to
  is reachable exactly when `hasReturn` is false of the part visited: accepted
  functions never run off their end without a value.
  Seen from the source, each label is entered, and each place reached, exactly
  when the statements say so (`StructuredProgram`, a refinement).
- Whole programs: a file is rejected exactly if a function known anywhere in the
  file, or a global, enum or parameter known at that place, does not fit its use,
  or a function lacks a return; the IR of an accepted file has every global once
  and every function in order under the number its callers use
  (`KeepsPromise`, a refinement). A word means what the first declaration that
  claims it says; no struct is ever laid out with one the analyser has not got
  to; a value over 255 never gets a backing type of one byte. What the
  promise had to leave room for is listed under "Observations".
- Expressions: each temporary is written once, before it is read; calls and
  reads happen once each in the order of the source; the type of each
  value is the one the analyser checked - except where the findings below, and
  two cases named in the model (`Checked`), say otherwise.
- Parsing of expressions: every accepted sequence has the tree that precedence
  and left association give it, and no sequence is refused that could go on.
- Lexer: nothing but spaces is dropped in files without `:` and `asm`; no
  character is used twice in any file; a number token starts with a digit;
  a token's line is that of its last character, or the next one where a newline
  ended the token; the loop ends.

### Findings

1. `struct_enum_member` (semantic.cpp:159): a struct member of enum type is
   aligned with the sentinel -2, which clears the running size; members overlap.
   The README's own example declares such a struct.
2. `shadowing` (semantic.cpp:269): the visitor of a variable access keeps the
   outermost binding, `type_precision` the innermost; a shadowed name is checked
   with one type and read from a slot of another.
3. `compare_promotion` (semantic.cpp:221): when the right operand of a
   comparison is the narrower, its promotion is made with the two types
   exchanged and the operands are compared with different types.
4. `void_promoted` (semantic.cpp:499): the size of `void` is the sentinel -1,
   so a call that returns nothing converts to any type.
5. `call_arguments` (semantic.cpp:335): arguments are type-checked but not
   analysed, so a variable passed as an argument is read from offset 0.

Each has a run that finds it, and a property that states what the repository
says instead (quoted in `PROJECT.json`).

One more disagreement is stated here and has no run, since a property for it
would say no more than what the flag `ahead` is: a function declared without a
body is a syntax error. `parse_function` looks at the semicolon, makes the code
null and does not consume the token (parser.cpp:396-397), and no declaration
starts with a semicolon. The repository's README ticks "Function declarations"
(README.md:96) and the analyser tests for null code (semantic.cpp:104), so such
functions are meant to be accepted, and a `consume` is missing. The model does
what the code does (behind `Prototype` only `Refuse` is left; see below for the
exception), and no property presents it as right.

### Observations

What modelling whole programs showed besides. These are part of the models, and
of `CompilerPromise`, as the code has them; nothing in the repository denies
them, or only in passing.

- An enum as the type of a global, of a result or of a converted value passes
  the analyser without an error; `toIRType` then throws (`EnumGlobal`,
  `EnumInNode`; action `Fail` of the promise).
- If a struct had a field of "type" `;` before a function without a body, the
  next declaration does start with the semicolon, and the function gets to the
  analyser: `hasReturn` follows a null pointer (`Prototype`, `NullCode`).
- A field whose type is unknown gets the type `float32`, and its word is a type
  from then on; a struct that has itself as a field is one of these
  (`StructField`). An unclosed struct makes the end mark a type and reads on
  behind the tokens (`RunOffEnd`).
- The check of a conversion looks enums and members up with `operator[]`. One
  that is used in front of its declaration leaves a default entry, which the
  declaration then does not replace (`LookUp`, `emplace`). The promise says
  nothing of such files (`UsesEnumAhead`). An unknown member as an argument of a
  call counts no error.
- An initialiser of a global is analysed and never emitted, and one that names
  a variable is always an error, since no scope is open (`AnalyseGlobal`).
- A function defined twice is checked against the result type of the first and
  emitted with that of the second (`EnterFunction`, `FunctionsRight`).

## 4. The proofs

`StructLayoutProofs` proves, for every word of at least 32 values that is a
multiple of 8, every set of struct names, every set of member kinds and any
number of members:

| Theorem | States |
|---|---|
| `TypeCorrect` | `Spec => []TypeOK` |
| `RegistryIsStable` | `Spec => RegistryStable`: no step changes a registered struct |
| `InductiveInvariant` | `Spec => []IInv` |
| `FieldsDisjoint`, `FieldsAligned`, `LayoutCompact` | `Spec => []StructFieldsDisjoint`, `[]NestedFieldsAligned`, `[]StructLayoutCompact` |

Assumptions: `WordAssumption` (in `NebulaTypes`) and those of `StructLayout`;
all of them are evaluated by TLC in the runs.

The argument. The three properties of layouts speak of registered structs alone,
and of the ordinary ones among them (no sentinel for a size and no sum that
wraps, also in what they nest). They are not inductive: nothing in them says what
the loop of `structSize` has done when `EndStruct` registers its result. `IInv`
adds three parts.

- `AlignmentsKnown`: the running alignment and every registered one is 1, 2, 4,
  8 or one of the two sentinels. Without it a mask could be anything.
- `LoopInv`: the loop's invariant. If no sum wrapped and the alignment is an
  ordinary one, the members so far are in order and aligned, padding is less
  than an alignment, each alignment is at most the running maximum and divides
  it, and the last member ends at `ret`.
- `RegisteredInv`: a registered ordinary struct has these for its own size and
  alignment, which is what `LoopInv` needs of a nested struct.

`AlignUpBounds` gives what the mask does to a word that does not wrap;
`AlignmentsNest` that a multiple of an alignment is one of each smaller
alignment, which carries the alignment of nested members. `FieldStable` and
`StepKeepsRegistry` let facts about nested structs survive a step: sizes are
read from `registry`, which only grows.

`ScopesProofs` proves, for programs of any size (`MaxNodes`), every word, every
set of names, functions, declared types, literals, structs and enums, and any
bound on errors:

| Theorem | States |
|---|---|
| `TypeCorrect`, `ScopesClean` | `Spec => []TypeOK`, `[]CleanStart` |
| `FramesDisjoint`, `ParametersApart` | `Spec => []LocalsDisjoint`, `[]ParametersDisjoint` |
| `LookupsConsistent` | `Spec => []LookupsAgree` |
| `BindingsPreserved` | `Spec => BindingsStable` |
| `InductiveInvariant` | `Spec => []IInv` |

Assumptions: `WordAssumption`, `WalkAssumption`, and `ScopesAssumption`: a
declared type is a built-in one or names a known struct or enum, a struct has a
size that is a word and an alignment `structSize` can give it, and an enum's
backing type is one the parser accepts. The first is what `resolve_type` ensures;
the second is what `TypeCorrect` of `StructLayoutProofs` says of the registry.

The argument. `LocalsDisjoint` and `CleanStart` are conjuncts of `IInv` as they
stand. The others need more:

- `Typed`: `TypeOK` with tables as members of one set, so that a stack of scopes
  is a sequence over it.
- `WalkShape` (from `SourceWalkProofs`): the outermost open statement is the
  function, no other is, and every statement below the top has been given the
  part that is being visited. It is why a block that is closed cannot return the
  walk to a function whose parameters are still being read, and why the end of a
  function leaves no scope.
- `SizesKnown`: the size of each local is a word. `VariableSize` of a type that
  could not be declared would be unspecified, and with it every comparison.
- `ParametersPlaced`: parameters end by `paramOffset`. `ParametersDisjoint`
  says nothing of where the next one goes.

`FitsFacts` turns `exact` (no sum of this frame wrapped) into sums of integers.
`EmplaceFacts` states what `emplace` leaves alone; `EmplaceKeeps`, `PopKeeps` and
`ElseKeeps` carry it to the stack. `LookupsConsistent` reduces both loops to the
one scope (or the globals) that holds the name.

`FlowGraphProofs` proves, for programs of any size:

| Theorem | States |
|---|---|
| `TypeCorrect` | `Spec => []TypeOK` |
| `BlockPointerFresh` | `Spec => []CurrentBlockNewest` |
| `OneBlockPerLabel` | `Spec => []LabelsUnique` |
| `JumpsGoForward` | `Spec => []JumpsResolve` |
| `BranchesLeave` | `Spec => []NoFallThrough` |
| `HasReturnAgrees` | `Spec => []ReachableIffNoReturn` |
| `AcceptedReturn` | `Spec => []ValuesReturned` |
| `ImplementsStatements` | `Spec => StructuredProgram`: the graph implements `StructuredFlow` |
| `InductiveInvariant`, `ReachKnown` | `Spec => []IInv`, `[]Reach` |

Assumption: `WalkAssumption`.

The argument. A jump is emitted before its label exists, so that "every jump has
its block" holds only of finished functions. `IInv` says which labels may be
missing meanwhile: the `Pending` ones, the `ENDIF` of every open `if` and the
`ELSE` of one in its first branch that has a second. `JumpsGo`: a jump's target
is pending or on a later block. `LabelsFresh`: no pending label is on a block
already, and all numbers on blocks are below `blockCounter`. `IdsFresh`: open
`if`s have different numbers below the counter, which is what keeps two pending
labels apart when one is resolved. `Finished` is what is left when the walk ends
a function and nothing is pending. `TopPending` says
which labels stop being pending when the innermost `if` gets on.

That is about labels; where control goes is `Reach`. `ReachableIffNoReturn`
speaks of the current block alone and is not inductive: when an `if` ends, the
next block is reached from both branches, and the first one is many blocks back.
`IfReached` says what is remembered of it: control waits at `ENDIF` exactly if
the branch that was finished does not return and nothing around the statement
does, and it waits at `ELSE` exactly if it came to the statement. `KnownLabels`
is why a new label is waited at by nobody, `Named` why no jump is mistaken for
running off the end of a block.

`Exits` is a recursive function over the list of blocks: in logic, some function
that satisfies the equation, if there is one. `SmallestNumber` (a set of
numbers has a smallest one, from the well-foundedness of finite sets) gives
`UpTo`, induction up to a bound on a set of numbers; with it `TraceExists` shows
that the equation has a solution and `SamePrefix` that it depends on the blocks
before it alone. From there on `ExitsAppend`, `ExitsEmit` and
`LeavesOfConcat` say what another block or instruction does to the exits, and the
recursion is not looked at again.

For `ImplementsStatements` the state of `StructuredFlow` has to be found in the
blocks: who waits where, for each open `if`. By `Reach`, it is a function of the
stack of open statements (`WaitingViews`), and what each step does to the stack is
known: `ViewsFacts` says that only the top changes, also when it is closed, since
`hasReturn` of the statement around it counts from the next part on. The places
of the `if`s in the stack (`Ifs`) are a recursive function again, treated as
`Exits` is (`IfsPlaces`, `IfsFacts`).

`LexerProofs` proves, for files of any length (`MaxLength`):

| Theorem | States |
|---|---|
| `TypeCorrect` | `Spec => []TypeOK` |
| `NoCharacterTwice` | `Spec => []EachCharacterOnce` |
| `NothingElseDropped` | `Spec => []OnlySpacesDropped` |
| `StateKnowsTheDigit` | `Spec => []NumbersStartWithDigits` |
| `LinesAreCounted` | `Spec => []LinesRight` |
| `PositionAgrees` | `Spec => []LexInv` |

Assumption: `LexerAssumption` (the bound is a number).

The argument. None of the properties names `pos`, and without it none is
inductive: a character that is put back or looked at ahead is in the next token
because the position says so. `Taken(Used, pos)` says that what has been taken is
in order, lies before the position and is all there is of it but spaces. `Shape`
says the rest: `LineOf`, the line counter is the number of newlines before the
position (at the end of the file, where `pos` may be two past the last
character, of the whole file), and `WordAt`, the word ends at the position but
for dropped colons and starts with a digit in the state `NUMBER` alone, and is
empty in the state `START`. Each turn of the loop then `Gains` a rising list of
characters between the old position and the new one: one lemma per action; the
one for `asm` (`AsmBodyGains`) puts the braces and the text between them
together. `RisingConcat` and `TakenMore` carry `Taken` over the step. `Used` is a
recursive function over the tokens; `ValuesTrace` and `ValueAppend` treat it as
`Exits` is treated above.

`CompilerProofs` proves, for programs of any size (`MaxFile`, `MaxParts`), over
any names, words, statements and numbers:

| Theorem | States |
|---|---|
| `TypeCorrect` | `Spec => []TypeOK` |
| `WordsMeanWhatIsClaimed` | `Spec => []TypesAsClaimed` |
| `StructsBeforeUse` | `Spec => []StructsComplete` |
| `EnumsFit` | `Spec => []EnumValuesFit` |
| `InductiveInvariant` | `Spec => []IInv` |

Assumptions: `DeclarationsAssumption` (names are no built-in words, and what the
constants list has the right kind), and `WordAssumption`.

The argument. `TypesAsClaimed` is inductive as it stands but speaks of the
choice of the first claim; `ClaimedIn` says it as an operator on a list, the
declaration being read and a table, so that `ClaimedField` and `ClaimedPush` can
compare the three before a step and after it. `StructsComplete` is not: a struct
whose field names another is visited passes later than it is read. `IInv` adds

- `SelfNamed` and `StructsOrdered`: a type `STRUCT n` in the table or in a field
  was given by a struct `n` that was finished before. It holds because a word is
  looked up when it is read, and that is all that orders the visits.
- `StructsLaidOut`: every struct visited so far is registered; with
  `StructsOrdered`, `structSize` finds all it looks up.
- `NotesWritten`, `FunctionsKnown`: what the second pass and the translator take
  from the first pass, and from the nodes, has been put there.
- types of declarations are `Proper` (a built-in type has no name), which makes
  the tables' entries members of one set.

Its second part proves

| Theorem | States |
|---|---|
| `ImplementsPromise` | `Spec => KeepsPromise` |
| `PassesReadTheFile` | `Spec => []LinkInv` |

The argument. The promise reads its tables off the whole file at once; the
compiler builds them one declaration at a time, from states of which some are
wrong on purpose. `LinkInv` says what links the two. `Agreed(k, j)`: after `k`
declarations and `j - 1` statements of the next, every table is what a reader
would write down (`FunctionsIn`, `GlobalsIn`, `EnumsIn`, `MembersIn`), what was
visited is right, and the notes in the nodes are the ids and types of the
reader. That is so until the first error, or until an enum is used ahead of its
declaration: from there on `Wrong` (an error is counted, and some declaration
deserves it) or `AheadIn` (the promise says nothing) takes its place, since
`operator[]` has then left entries in the tables that no reader would write.
`FunctionsGrow`, `GlobalsGrow`, `EnumsGrow` and `MembersGrow` show that one
`emplace` adds what one more declaration adds; `StatementChecked` that a statement
without an error leaves the tables alone; `IdBelow` that the numbers of functions
are the places they are emitted at. `OutputAgrees` follows the output: no global
twice, and the functions emitted so far at their numbers. Each step that ends the
compiler is then an action of the promise (`PromiseReject`, `PromiseFail`,
`PromiseCompile`, ...), each declaration read is a `Read`, all others are none.
An instance has its own copies of the operators it uses; the lemmas `Same*` say
that they are the same.

`ExpressionParserProofs` proves, for expressions of any length (`MaxTokens`) and
any choice of the operators of the precedence table:

| Theorem | States |
|---|---|
| `ParserTyped` | `Spec => []TypeOK` |
| `RefusalsJustified` | `Spec => []RefusedTokensCannotFollow` |
| `TreeMeans` | `Spec => []TreeIsMeaning` |
| `ParserInvariant` | `Spec => []IInv` |

Assumption: `ParserAssumption`: the operators are among those of the precedence
table, and an expression may have a token.

The argument. The properties speak of the end; `IInv` says what the recursion has
done so far. There are two functions that the code does not have: `span` gives
where a node begins and ends, `begin` where the expression of an activation
begins. `Placed`: every node is a `Whole` operand of the text (what it opens it
closes, it starts and ends like an operand, no comma of it is outside its
parentheses), and its token is in the right place in it: the loosest infix operator
outside parentheses and the last of those (`Binary`), a prefix operator in front
of an operand without one (`Unary`), or a call whose arguments end at its commas
(`Parenthesised`). `Reading`: the activations begin one behind the other, all but
the last are `Waiting` for the next with an operator or parenthesis in front of it,
and the infix operators in what an activation has on its left bind at least as
tightly as the one it asks an operand for. That is where the `<` of the loop is
needed: an operator of the same precedence ends the activation, so that the last
of several becomes the root (`InfixReturns`). Tokens that are read later do not disturb what is placed
(`TextStays`, `SpansStay`). There is a lemma for each action; those for the
actions that end in `print_error` find the innermost open parenthesis
(`InnermostOpen`) and show that the token could not have followed.

`Means` is a recursive function, in logic some function that satisfies the
equation if there is one. The rule is monotone (`Monotone`), so the least set that
the rule adds nothing to solves the equation (`Solution`), and `Table`, the function
`Means` asks, obeys the rule (`TableIs`). `AllUnderstood` then goes from the
placement to the meaning by induction on the length of an operand: each of the four
kinds of node is one case of the rule (`BinaryMeans`, ..., `ParenthesisedMeans`).
The last needs that the arguments counted by commas are the operands listed while
they were read (`ArgumentsAre`, `ArgumentsCounted`).

`ExpressionsProofs` proves, for expressions of any size (`MaxNodes`), over any
variables, structs, functions, enums and operators:

| Theorem | States |
|---|---|
| `ExpressionsTyped` | `Spec => []TypeOK` |
| `EachTemporaryOnce` | `Spec => []TempsWellDefined` |
| `EffectsInSourceOrder` | `Spec => []EffectsInOrder` |
| `CheckedTypesKept` | `Spec => []ValuesHaveCheckedType` |
| `ExpressionInvariant` | `Spec => []IInv` |
| `OrderInvariant` | `Spec => [](IInv /\ OrderInv)` |

Assumption: `ExpressionsAssumption`: a type of the program is a built-in one or
names a struct or an enum, a struct that is named is declared (the parser makes
a name it does not know `float32`), and an enum has a backing type that is
neither (the analyser takes `UINT8` or `UINT16`); which operators are
comparisons, and that prefix operators are those the parser takes; and that
`"zero"`, which stands for a slot that was never written, is no function's name.

The argument. `TypeOK` says that a node has a type, and a node's type is found
by recursion over its parts. `type_precision` is a recursive function, in logic
some function that satisfies the equation if there is one, so the equation must
be solved first. `Shaped` is what makes it solvable: the parts of a node are
older than the node, or are promotions of the analyser, which need no part to
have a type (`PrecisionsSolve`, by induction up to a bound). `Members` says that
what a member is taken of is a struct that has it; it speaks of types, and the
analyser changes nodes, so `ChainStable` shows that no step changes the type of a
variable, call or member below. `ParserAdds` and `AnalyserRewrites` then cover
the parser's and the analyser's actions with one lemma each. `RankOnto` (the
members of a set of numbers have ranks 1 to its size) numbers the promotions of
the arguments of a call.

`TempsWellDefined` speaks of what was emitted. `Evaluated` says of every
temporary that it waits in one place of one call in progress (`Waits`) or has
been read by one instruction and is held nowhere (`WasRead`), and that what is
held or read was written before. A call that returns passes through a state in
which its value is nowhere (`Returned`): `LeafReturns` and `ComputeReturns` lead
there, `CallerGets` and `AssignmentStores` from there to the next. That a
temporary is written by one instruction is `Numbered`: its number is the
instruction's place, because `tempCounter` and the code grow together.

`EffectsInOrder` compares numbers of nodes, which the parser gives out when a
node is finished: an operand before what it is an operand of. What is emitted up
to now says nothing of that order by itself. `OrderInv` says where the
translator is in it. There is a function `lo` such that the nodes of the operand
that ends at `n` are those numbered `lo[n]` to `n`, and the runs of a node's
parts follow one another up to the node (`Tiled`). The analyser appends
promotions, which have numbers outside every run; `Base` lets one stand for the
node it converts, and `RewriteTiles` shows that each rewriting leaves the `Base`
of every part as it is, comparisons, which exchange nothing but one operand for
its promotion, included. While translating, the calls in progress are a path
from the root through first untranslated parts, and what has been emitted is
exactly the calls and reads up to the end of the run of the last part translated
(`OrderedCode`). The parser's actions add one run (`ParserOrders`); the
translator's move one step along the path (`LeafOrders`, `DescendOrders`, ...).

`ValuesHaveCheckedType` compares a value in the IR with the type the analyser
decided the conversions of its node with. `CheckedNodes` says what holds of the
nodes in between: a node the analyser has been to is noted with its type
(`NotedIn`), which nothing changes later (`TypesStay`); before that, the
precision of a prefix operator is what the parser made it; and a promotion is
one of a node that is none (`Direct`). What is below a call is never analysed.
`InArguments` is a recursive function too: the least set that has the operands
of calls and of its members solves its equation (`ArgumentsSolve`), and a node
below a call stays below it whichever parts are exchanged for promotions
(`ArgumentsStay`, from the root down, which is downwards in the numbers of the
nodes because of `Tiled`). The translator then makes of each node a value of the
kind of its noted precision (`ComputeGives`, `CallerChecks`), and the type in
the IR depends on the kind alone (`KindDecides`).

`SourceWalkProofs` holds lemmas only. They name what each action keeps of the
stack of statements, so that the proofs of every pass over the tree can rest on
them. `CompilerProofs` starts with what the
operators on tables return.

Only model-checked: `Terminates` (liveness under fairness is out of the
prover's reach); and the five findings, which are counterexamples.

## 5. Not modelled

- Member kinds of a struct that is no struct, unknown functions and unknown
  enum members, in `Expressions`: each counts an error and ends compilation.
- In `Declarations`: default values of parameters and names of fields (nothing
  that is modelled depends on them); the statements of a body are those of
  `NebulaPrograms`, and the rest of them is in `Scopes`, `FlowGraph` and
  `Expressions`.
- In `Compiler`: calls as arguments of calls (their `id` and result type stay
  uninitialised, arguments being checked and not analysed: finding 5); sizes of
  structs (in `StructLayout`), slots of variables (in `Scopes`).
- Overflow of an enum's values: the parser reads them with `stoi`, and `Nat` has
  no bound here.
- The arena: a bump pointer with a fixed end; node sizes depend on the platform
  and the exception ends the program before anything is written.
- Columns of tokens, texts of messages, printing of the AST and the IR.
- The x86-64 back end: not part of the build (`src/CMakeLists.txt` adds
  `nbu_compiler`, `nbu_frontend`, `nbu_ir` and `nbu_lsp`), and `codegen.cpp` uses
  members its header does not declare, so that there is no program to model.
  The language server: an empty `main`.

## 6. Plan

Done, in this order: types, struct layout with its proofs, the walk, control
flow, scopes with their proofs, lexer, expression parser, expressions; structured
programs and the refinement of control flow, proofs of both; declarations, whole
programs, the promise and its refinement, proofs of both; proofs of the lexer, of
expressions and of the expression parser.

Next: an abstract specification of scoping (a name means its innermost binding)
that `Scopes` implements where no name is bound twice.
