# jupblite in TLA+

jupblite is a protobuf-lite runtime for Java.  Its messages are views of
messages in native memory that the upb library manages, reached through JNI and
`sun.misc.Unsafe`.  This directory holds TLA+ models of it, TLC configurations
that check them on small instances, and proofs, checked by TLAPS, of the
properties that matter most, for every instance.

Paths below are relative to `src/java/runtime/main/jupb/` or `src/java/codegen/`.

## The system

| component | code | state | operations |
|---|---|---|---|
| Arenas and the reaper | `Arena.java`, `jni/arena.cpp` | `refs`, `referenceQueue`, the default-instance arena, each arena's `pointer`; in upb, the fused groups and their reference counts | constructor, `getDefaultInstanceArena`, `fuse`; the reaper's loop: take a phantom reference, free the native arena, forget the reference |
| Messages and builders | `JupbMessageLite.java`, `Messages.java`, `jni/messages.cpp`, `message_template.inja`, `message_builder_template.inja` | native messages; `pointer`, `arena` of each Java message; `arena`, `instance`, `isDirty` of each builder | `newBuilder`, `toBuilder`, setters, `build`, getters, `parseFrom`, `toByteArray` |
| Field access | `Messages.java` 65-178 | the bytes of a native message | `getInt`, `getLong`, `setInt`, `setLong`, message pointers, hasbits, on 32- and 64-bit layouts |
| Minitables | `Minitable.java`, `jni/minitable.cpp` | the minitable of each generated class, in the default-instance arena | build from a mini descriptor, link submessages by field index |
| Code generator | `protoc-gen-jupb.cc`, `helpers.cc`, templates | none that lasts | a Java class for each message of a .proto file |
| Class initialisation | static initialisers of `Arena`, `Messages`, `Minitable` and generated classes, `jni/OnLoad.cpp` | initialisation state of each class; the class and library locks; registered natives | the first use of a class, from any thread |
| Wire format | `jni/messages.cpp` 109-168 | none of its own | `upb_Decode`, `upb_Encode` |
| Strings and bytes | `Messages.java` 145-158, `jni/messages.cpp` 21-99 | none | unused: the generator gives such fields no accessors |
| inja | `inja-3.4.0/inja.hpp`, vendored; writes the Java classes from the templates | the scanner's position and mode; the parser's stacks; the renderer's variables and evaluation stacks | scan a token, read a statement or an expression, render |
| Exceptions, JNI error helper, names and files of generated code, build files, tests | | none | |

How they interact.  A message holds a native pointer and the arena that is to
keep it alive; a builder's first write clones its instance into the builder's
arena; setting a submessage stores a bare pointer and fuses the two arenas, so
that either keeps both alive.  When the last Java reference to an arena is gone,
the collector enqueues its phantom reference and the reaper thread frees the
native arena, whose memory upb keeps until the last of its group is freed.  A
generated class builds its minitable and default instance when it is first used,
in the default-instance arena, and links the minitables of its submessage types.
All of this begins with `System.loadLibrary` in static initialisers, and
`JNI_OnLoad`, which it runs, looks up the very classes that are being initialised.
At build time the generator hands inja a template and data; inja's scanner,
parser and renderer run one after the other.

What is hard: the collector and the reaper against threads that use arenas;
sharing and copy-on-write across arenas that only the program's discipline keeps
apart; the circle of class and library locks; layouts, masks and indices
computed in C++ and used in Java; errors that are dropped; and, in inja, several
stacks that must agree, in the scanner's mode across tags, in the parser and in
the renderer.

What makes each part correct:

- *Arenas*: memory that can still be reached is there; what is garbage goes
  back, once, and nothing is kept for ever by accident.
- *Messages*: a message never changes once the program has it; a builder's
  writes show in what it builds and nowhere else; a view's arena keeps its memory.
- *Field access*: a field reads as it was last set, whatever its neighbours, the
  platform and the compiler.
- *Generator and minitables*: decoder and accessors agree about every field;
  defaults survive the conversion to Java's signed types; loading never aborts.
- *Class initialisation*: natives registered before use, default instances
  built before use, no deadlock.
- *inja*: a template means what its tags, operators and names say; only blanks
  that a tag asks to strip are lost.

`PROJECT.json` lists under "hazards" each place where this could go wrong.

## The modules

```
ArenaLifetime  <--implements--  Arena            <-- ArenaProofs
MessageValues  <--implements--  JupbMessageLite (by MessageRefinement) <-- JupbMessageLiteProofs
                                Runtime          <-- RuntimeProofs
                                FieldAccess      <-- GeneratedCodeProofs
                                Codegen          <-- GeneratedCodeProofs
                                ClassInit        <-- ClassInitProofs
                                InjaLexer        <-- InjaParserProofs
InjaNesting    <--implements--  InjaStatement (by StatementRefinement) <-- InjaParserProofs
                 InjaGrammar    InjaExpression   <-- InjaExpressionProofs
                                InjaRenderer     <-- InjaRendererProofs
                                InjaEval         <-- InjaRendererProofs
```
Each `MC*` module extends one of these with the values of its constants.

**Arena** is `Arena.java` and `arena.cpp`.  An element of `Arenas` stands for a
Java object, its `pointer` and its phantom reference.  `NewArena`/`Register`
are the two halves of the constructor (before and after the lock on `refs`),
`InitDefaultInstanceArena`/`RegisterDefault` the same for the holder class,
`FuseEnter`/`FuseNative` the two halves of `fuse` (the reads of the pointers, and
the native call), `ReaperRemove`, `ReaperFree`, `ReaperUnregister` the three steps
of the loop.  External: the collector (`Collect`: any unreachable arena, at any
time; its reference is enqueued only if it is itself reachable), the program
(`Pass`, `Drop`), and upb's arenas (a representative and one count per group).
`FrameRoots` says whether the operands of a call stay reachable until it returns.

**ArenaLifetime** is the promise: a group's memory is there until all its arenas
are garbage, and is then given back together, eventually.

**JupbMessageLite** is the message and builder API, one action per method; a
Java message is `[ptr, arena]` and a native one a record with its scalars, hasbits
and submessage pointers.  `Submessage` is `getMessage` (null gives the default
instance), `CowMem`/`CowInstance`/`CopyOnWrite` are `copyOnWrite`, used by
`SetScalar` and `SetMessage`; `ParseFrom` is `parseFrom(arena, m.toByteArray())`,
where a decode error leaves a message with any subset of the fields.

**MessageValues** is what that looks like to a program that never sees a
pointer: a message is a value, a function from the paths into it to what is at
their ends.  **MessageRefinement** reads values by following pointers
(`ValueIn`) and maps one to the other.

**Runtime** composes the two: messages and builders over arenas, under threads,
the collector and the reaper.  Calls are taken apart at every access to native
memory: a step reads the pointers a call needs from Java objects and sets the
thread's frame, whose `pc` names the access that follows.  A set is `WriteFrame`
(with `copyOnWrite`'s check), `DeepClone`, `StoreMessage`, `Fuse`, `SetHasBit`, so
that the window between the stored pointer and the fusing is a state;
`ToByteArray` and `EncodeReturns`, `ParseFrom`, `BuildMinitable` and `Decode` are the
calls that allocate.  It begins with no class initialised: the first call of a static
method of a generated class makes its thread the `initializer` of the class
(`InitializeClass`), which initialises the class it links (`InitializeLinked`, or waits
for another thread that does), builds its minitable and makes `DEFAULT_INSTANCE`
(`BuildClassMinitable`, `CreateDefaultInstance`), both in the default arena, while other
threads initialise other classes or parse.  `Reclaim` is the collector and the reaper in one step (taken
apart in Arena).  Types are levels, each with one submessage field of the level
below; scalars have no values, for the question is who accesses what, and when.
The program it assumes passes messages between threads freely and keeps a builder
to one thread.

**FieldAccess** is `Messages.java` 65-178 on bytes: a byte is a set of bits, a
word a function from positions to bytes.  `SetInt`, `SetLong`, `SetMessage` are
the setters of `Builder` with their hasbit; the layout is a constant with upb's
promise (`LayoutAssumption`): slots and hasbits do not overlap.

**Codegen** follows one message from its descriptor (`Declare`, external) through
`GenerateFile` (`processMessage`, `processField`, `collectSubmessagesForMinitable`,
`DefaultValue`), `Compile` (javac, external: rejects accessors that call missing
methods, a getter with no return, a constructor call with too many submessages)
to the loading of the class: `upb_MiniTable_Build` and one
`upb_MiniTable_SetSubMessage` per link.  upb indexes fields by number.

**ClassInit** gives each thread a stack of routines - initialisers, `JNI_OnLoad`,
the use of a class - each a sequence of steps: use of a class, loading the
library, registering natives, a native call, reading another default instance's
`minitable`, starting the reaper.  The locks are those of JLS 12.4.2 and of
`System.loadLibrary`; an exception leaves every class under way erroneous.

**InjaLexer** is class `Lexer`: `Text` and the opening sequences, the bodies of
tags with their identifiers, numbers, strings and operators, `Comment`, and the
stripping of blanks; a token is a slice of the input, as in the code.  The byte-order
mark that `start` skips at the head of a template is left out.

**InjaStatement** is `Parser::parse_into` and `parse_statement`: one action per tag,
on the three stacks of open ifs, loops and blocks and the pointer to the current
block.  The template is external; `proper` says that its tags nest.
**InjaNesting** is what such a template means: of the branches that are open the
one opened last is innermost, and each piece of text belongs to all of them.
**StatementRefinement** reads this off the tree: a block is in the least set of
blocks that has it and, with each block, the one that this is in (`Around`).

**InjaExpression** is `Parser::parse_expression`: one action per token, on the stacks
of operators and arguments of each recursive call.  Apart from these stacks,
`ShapeOf` says which token can stand after which.  **InjaGrammar** states the grammar
that the parser should follow independently: which node is the tree of the tokens
`lo..hi`, given those of the shorter parts (`IsTree`), by splitting a part at the
operator that binds least; `Trees` has the trees of all parts.

**InjaRenderer** is how `Renderer` keeps variables: loops, set statements, includes
and the generator's callback `subtemplate`; a renderer is a record of what the
object holds.  **InjaEval** is how it evaluates an expression, as a machine: the
calls of `visit` under way are its stack, an action is what one of them does
between two visits, to `data_eval_stack` and `not_found_stack`.  Against it stands
`Meaning`, what the operators mean, by a recursive function on the nodes of the tree.
The values are booleans and objects; undefined behaviour is an outcome of its own:
the top of an empty `not_found_stack` (`"no_name"`), which never happens on the data
described below, and the
member of an object that is missing (`"null_container"`), as in `(x).member`, which
does, exactly where `Meaning` says.  The properties speak of data that do not define
the name to the right of a dot (`IdsApart`): the code looks for that name among
those not found, and if it is defined reports an error or takes another's.  A name that
is not in the data is missing at once: before that, the code tries a callback of that
name without arguments (`inja.hpp:2261-2268`), and the generator registers none.

## What the runs check

| run | instance | what it shows |
|---|---|---|
| `arena` | 2 threads, 3 arenas | `ReachableMemoryKept`, `NativeOperandsValid`, `NoArenaLost`, `OwnersCounted`: no memory under a reachable arena or its group is freed, no address is freed twice or used after, no arena is forgotten, upb's counts are exact; `CollectedIsFreed`, `RefsDrained`: a collected arena is freed and forgotten; `ImplementsLifetime`: Arena implements ArenaLifetime, with its liveness |
| `arena_reachability` | as `arena`, `FrameRoots = FALSE` | violated, see Findings |
| `messages` | 2 builders, 2 arenas, 2 types, 2 allocating calls | `ViewArenasFused`, `DirtyInstanceIsPrivate`, `MessagesFrozen`, `ImplementsValueSemantics` |
| `runtime` | 2 threads, 2 arenas and the default one, 2 levels of messages with their classes, an allocating call for each thread | `AccessesAlive`, `ReadableKept`: no access to freed memory, now or later; `NoDataRace` on the native memory of shared messages; `AllocationExclusive`: two threads allocate in one arena at a time only if both construct in the default one (initialising a class, or in `parseFrom`), or one serialises |
| `field_access` | 6 fields, both layouts, both signs of `char` | `GettersReturnWhatWasSet`, `PointersReadBack` |
| `codegen` | up to 3 fields, all kinds of types, every default of 2- and 3-bit integers | `LinksOwnTypes`, `SetSubMessageSucceeds`, `DefaultsReadBack` |
| `codegen_order` | 2 fields in any order of numbers | violated, see Findings |
| `class_init` | 2 threads, the reaper, the 3 classes of `tiny.proto` and one that contains itself | `NativesRegistered`, `DefaultInstancesBuilt`, `NoWaitCycle`, `EveryUseReturns` |
| `inja_lexer` | templates of up to 4 pieces (delimiters, signs, letters, blanks), tags with bodies of up to 4, with and without stripping | `LostTextIsAskedFor`, `MinusFollowsOperand`, `ScanAdvances` |
| `inja_statement` | all templates of up to 5 nodes, nested and not | `NothingIntoClosedBlocks`, `AcceptedOfOneKindNests`, `ImplementsNesting` |
| `inja_expression` | all sequences of up to 7 tokens; 6 operators of all precedences, parentheses, a function of 2 arguments | `ParsesAsGrammar`, `GrammarAccepted`, `NothingDropped` |
| `inja_renderer` | 2 names, 2 nested loops over 0 to 2 elements, 2 nested renderers; expressions of up to 2 levels on all data for 2 names | `LoopDataCurrent`, `ElementVisible`, `IncludeSeesLoops`, `EvaluatesAsMeant`, `MissingNamesConsumed` |

Why the bounds are enough to meet the hard cases.  Three arenas make a chain of
two fuses, so that a group outlives the object through which it was joined; two
threads let one drop or fuse while the other constructs, and the reaper is a
third.  Two builders can hold the same message, be each other's source, and set
each other's results; two allocating calls give each its own instance.  In
`runtime` each thread has an arena of its own and both may have either, a message
of the one level has a submessage that may come from the other thread or be a
default instance, and an allocating call for each is enough for two clones, two
minitables, or two encodings at a time; two classes, one linking the other, let two
threads initialise at once and one wait for the other.  In `field_access` hasbits share a byte,
one is bit 7, the pointers include one with the sign bit of an int.  Three fields
are the least for which the index of a link among the links, among the fields
and among the numbers all differ; defaults are checked at every value of small
widths, an int and a long of different size.  Four classes give a type with two
links, leaves, and a recursive one, so that the initialisers of two threads meet
at every lock.  A stripping decision of the scanner looks at a tag, the blanks and
one character beyond; four pieces hold two tags with that between them.  Five
nodes give an else-if chain in a loop in a block and what follows it; seven tokens
give three operators of different precedence with four operands, or a call with an
operator in an argument.  Two loops and two renderers let a loop end, or hide a
name, inside another and inside an include.
Threads, builders, block names and the arenas but the default one are interchangeable
to the code and are symmetric in the runs that have no liveness property.
Constants that only bound a run: `Calls`, `MaxCalls`, `MaxFields`, `MaxNumber`,
`Ints`, `Longs`, `Pointers`, `IntHalf`, `LongHalf`, `MaxNodes`, `MaxTokens`, `MaxLoops`,
`MaxRenderers`, `Sizes`, `Inputs`, `Trees`.  Deadlock is checked in `inja_renderer`, where
an evaluation that is stuck would show, and nowhere else: a
program may stop using the runtime and a template ends; that no thread waits for
ever is `NoWaitCycle` and the liveness properties.

Fairness.  In Arena, the reaper's step is weakly fair (its loop never ends), and
so are the steps of a thread inside `Arena`'s own methods, which contain no
waiting but the short lock on `refs`.  Nothing makes the program drop a
reference or the collector run, so liveness speaks only of arenas already
collected.  In ClassInit every thread that can step is scheduled, `Begin` is not
fair: a program need not use anything.  The other models are about safety alone;
that the scanner comes to an end is `ScanAdvances`, a measure that each scan
increases.

Every property comes with a mutant of a mapped definition that violates it
("mutants"); the faulty operators stand beside the originals, marked as such.

## What is proved

For all values of the constants, by TLAPS:

- **ArenaProofs**, any threads and finitely many arenas, assuming
  `FrameRoots = TRUE`: `TypeCorrect`, `MemoryKept`, `OperandsValid`, `NoneLost`,
  `CountsExact`, and `LifetimeRefinement` (the safety half of the refinement).
  `ReachableMemoryKept` is not inductive: it follows from the exact count
  (`OwnersCounted`), since a group with a live member has an owner and so a
  count above zero.  That the count stays exact when groups merge needs that an
  arena not yet constructed is in nobody's group (`UnbornAlone`); when the reaper
  frees, that what it holds was collected and is in one place only
  (`ReaperOwnsRef`); and when `fuse` runs, that its operands are live
  (`OperandsLive`).  `IInv` is the conjunction.  The assumption is necessary:
  `arena_reachability` shows the theorem false without it.
- **JupbMessageLiteProofs**, any types without recursion, builders, arenas and
  calls: `TypeCorrect`, `ViewsFused`, `WritesArePrivate`, `MessagesAreFrozen`.
  `IInv` adds that a dirty builder's instance is in its own arena.  The core is
  that a clone is a new, closed tree in one arena (`CloneIsNewTree`) - proved for
  every depth from the paths that address it - so that the write that follows
  touches nothing anybody else can name.  `MessagesAreFrozen` then needs only
  that a step changes no address but a dirty builder's instance, and that such
  an address is in the closure of no message the program has.
  `ValueRefinement` is the refinement of MessageValues, for every program:
  messages behave as values although their memory is shared.  It rests on two
  facts about paths of any length.  A clone has the value of its original
  (`CloneValue`): a shortest path on which they differed would have a step before
  its last, where they agree.  And a write changes the value of its own root
  only (`SameValue`, `WrittenParts`), since no path leads to that root.  For
  `build` and the getters nothing moves but the pointer.  On the way,
  `DefaultsAreEmpty`: nobody ever writes to the default instances that stand for
  every unset submessage.
- **RuntimeProofs**, any number of threads, arenas, levels and calls, assuming
  `FrameRoots = TRUE`: `TypeCorrect`, `MemoryIsKept`, `NoUseAfterFree`,
  `SharingIsSafe`, `AllocationsApart`.  What a thread holds is in an arena fused
  with the one it carries for it, and a submessage is in an arena fused with its
  parent's - but for the one pointer that a call has stored and not yet fused,
  whose arenas are both among the call's operands.  Arenas that are carried are
  live; groups are released whole, all of them dead.  So nothing that can be read
  is released.  For the races: what a dirty builder writes to is in the tree of
  no message that anybody else holds (a clone is a new tree, and only `build`
  hands it out, after which the builder is clean); and an arena to allocate in,
  but for the default one and those of messages serialised, has one owner.  The
  default one is allocated in by constructors alone: copy on write and decoding use
  an arena that the program made.  For the initialisers, `Classes`: a thread that is in
  one is the `initializer` of that class, of which there is no default instance yet,
  and past its links the linked class has one (`LoadOK`); whatever has an address or is
  being parsed is of an initialised class.
- **GeneratedCodeProofs**, the accessors, any fields in any layouts that do not
  overlap, both platforms and signs of `char`: `FieldTypesCorrect`, `GettersCorrect`, `PointersCorrect`.
  `FieldsKept` says what memory holds for each field; `WriteEffect` is the frame
  lemma - a setter changes its field's bytes and its one hasbit and nothing of
  another's - and `HasBitFacts` reduces the masks, widened and narrowed, to one bit.
- **GeneratedCodeProofs**, the generator, messages of any number of fields: `DefaultsAreKept`, for
  integers of any width (`IntHalf` and `LongHalf` stand for 2^31 and 2^63), and,
  assuming `NumbersAscend = TRUE`, `LoadingNeverAborts` and `LinksCorrect`.  That an
  unsigned default survives the way through a signed literal is an identity
  modulo the width (`DefaultIsKept`).  `LinksMade` keeps
  the minitable in step with the declaration; the key is `IndexIsDeclared`, that
  among fields declared by ascending number the number of smaller numbers is the
  place in the file.  `codegen_order` shows the assumption necessary.
- **ClassInitProofs**, any threads and classes, `FindClassInitializes` or not, for
  programs that begin with messages and arenas (`ArenaFirst`): `NoUnsatisfiedLink`,
  `DefaultsBuilt`, and, where types contain only themselves by way of fields of
  their own (`NoMutualRecursion`), `NoDeadlock`.  What is on a stack has an order
  (`Above`): the program, generated classes - each a type that the one below it
  contains - the default arena's holder, Arena, Messages, `JNI_OnLoad`, Minitable.
  A thread that has used a class finds it initialised, or has it on its own stack;
  the second is excluded by the order for all but the generated classes
  (`Sees`), and for these means that the type contains itself.  Only programs and
  generated classes wait, so along a chain of waiting threads the rank of the class
  that is waited for falls, and the chain ends.  Both hypotheses are needed: see the
  deadlocks under "Findings".
- **InjaParserProofs**, the scanner, for texts of any length in which the tags
  stand anyhow: `NoTextIsLost`, `MinusIsRead`, `ScansAdvance`.  (`MinusIsRead` includes the first token
  of a tag: `minus_state` always says whether the last token in a body, of whichever
  tag, ends an operand.)  What was lost is known
  when the next token is there, but whether it was asked for depends on the tag
  before or the tag to come, so `LexIInv` says for each state of the scanner what
  lies between the last token and the position.  (In the proof of `MinusIsRead` the
  arms of a CASE in the model turned out to overlap; they are now disjoint.)
- **InjaParserProofs**, the statements, templates of any length: `TypeCorrect`,
  `NothingGoesIntoClosedBlocks`, `OfOneKindNests`, `NestingRefinement`.  The three stacks are one stack in
  disguise: merged by the nodes' numbers, each open construct stands in the one
  just below it (`Chained`) and the current block is in the last (`Innermost`).  An
  endif takes several ifs at once; what it takes is the end of that merged stack
  because nothing but ifs is open between an if and the ifs that its elses made
  (`RunsOfIfs`).  The same holds, whatever the order of the tags, if the template
  has one kind of construct only, from which `OfOneKindNests` follows.  For the
  refinement of InjaNesting, `OpenAround`: the branches around the current block
  are those of the constructs on the three stacks, and (`AroundOuter`) an endif
  leaves exactly those that are further out than the if that it closes.
- **InjaRendererProofs**, any names, data and nesting: `TypeCorrect`,
  `LoopDataAreCurrent`, `ElementsAreVisible`, `IncludesSeeLoops`.  A renderer's loop
  data are those it began with, followed by one for each loop under way (`Outer`);
  a step changes the second only, and only in the innermost renderer (`TopStep`).
  That `is_first` and `is_last`, which the code updates from their last values, are
  right for every element is `NextLoopData`.
- **InjaRendererProofs**, the evaluation of expressions of any depth on any data:
  `EvaluatesAsMeantHolds`, `MissingNamesConsumedHolds`.  Nothing on `data_eval_stack`
  says whose it is, so the invariant (`Fitted`) divides it: each call has a height, from
  which on lie the meanings of the arguments that it has visited and not taken, up to
  the height of the call that it waits for; the heights are the witness of `EvalInv`.
  `not_found_stack` is as long as there are null pointers on the other (`Noted`), and
  its top is the name a dot has just visited (`KnowsId`).  The code stops at the first
  failure while calls are waiting; that the failure is also the meaning of the whole
  climbs from call to call, because each visits an argument only if those before it
  do not decide (`FailureClimbs`).  `Meanings` is a recursive function: that it exists,
  and what it is at a node, is an induction over the nodes (`MeaningsExist`).
- **InjaExpressionProofs**, expressions of any length and depth, any of the
  operators, any number of arguments of the function: `RefusalsAreJust`
  (`GrammarAccepted`) and `WholeExpression` (`NothingDropped`).  The code looks
  nowhere at which token may follow which: it fails when an operator lacks
  arguments, and a call must end with at most one.  So that a well-formed
  expression passes is a balance (`Balanced`): an operator weighs the arguments it
  takes less the one it leaves, and the argument stack of each call is as long as
  its operators weigh, and one longer after an operand.  A new operator takes off
  the stack operators that can all be fed while one is left over (`OperatorsFed`);
  the exception is "not", which comes while an operand is due, and takes nothing
  off, because what is below it binds less tightly (`LooseLast`) - `Shape.tight`
  is exactly what this needs.  That nothing is dropped holds also for malformed
  expressions, where no balance does: each operand, operator and function is in
  every set that has what the calls hold and, with a node, its arguments
  (`AllHeld`).  `ExprIInv` is the conjunction.  What a stack of operators does is an
  induction over it (`AddOperatorsInduction`); the rest needs none.
- **InjaExpressionProofs**, the tree that is built, with the same generality:
  `ParsesByGrammar` (`ParsesAsGrammar`): it is the tree that the grammar gives, and
  `GrammarIsUnambiguous`: the grammar gives but one.  The parser sees an expression
  from left to right, the grammar from its loosest operator down; what relates them
  is the invariant `GrammarIInv`, on top of `ExprIInv`.  There is a set of parts that
  have become trees, `<<n, lo, hi>>` for node `n` and the tokens `lo..hi`, each a tree
  by the grammar of shorter ones in the set (`Built`).  An operator on a stack waits
  (`Waiting`): the tokens before it, from the operator below it on, are a tree, which
  is on the argument stack where the weights of the operators say; all operators in
  it bind tighter, and no operator read since binds looser.  So when it goes off the
  stack, before a looser one or at the end of the call, it is the one that binds
  least in the part from there (`Splits`), or, for "not", is for all of the part
  (`Negates`), and the part joins the set.  A call that waits for one in parentheses
  has nothing between its last operator and that parenthesis.  A part that is built is
  in `Trees` by its length (`BuiltAreTrees`).

The named assumptions of the modules (`ASSUME ...`) are used and no others; TLC
evaluates them in every run.

Induction over data, where these proofs need it, is by a least counterexample
(`NatLessThanWellFounded` and `WFMin` of the library, as in `LeastElement` and
`ShortestSequence`), or avoided: what is reachable is defined as the least set
closed under some steps, about which closed sets say everything.

Only model-checked: liveness (`CollectedIsFreed`, `RefsDrained`,
`EveryUseReturns`, the fairness of `ImplementsLifetime`), which is out of the
prover's reach.  Every invariant that a passing run checks is proved.

## Findings

1. *An arena can be freed under a call that uses it* (`Arena.java:65`, run
   `arena_reachability`).  `fuse(a, b)` reads the two pointers and calls a static
   native method with them.  Java guarantees an object's reachability only as
   long as it can still be accessed in a continuing computation (JLS 12.6.1), and
   there is no `Reference.reachabilityFence`: after the read of `b.pointer`, `b`
   may be collected, the reaper may free its arena, and only then is the freed
   arena fused.  The counterexample: `a` and `b` are created, `fuse` is entered,
   `b` is dropped, collected and freed, and the native call joins `a`'s group with
   memory that is gone.  `getMessage` relies on the fusing
   (`JupbMessageLite.java:189-191`).
2. *Links by the wrong index* (`protoc-gen-jupb.cc:194`, run `codegen_order`).
   `collectSubmessagesForMinitable` emits a field's place in the file as the index
   for `upb_MiniTable_GetFieldByIndex`, which counts by field number.  With
   `Submessage s = 2; int32 i = 1;` the link names `i`, upb refuses it, and
   loading the class aborts the process with "setSubMessage failed"
   (`minitable.cpp:42-44`).  With two submessage fields the types would be
   swapped silently.

Met on the way, without a doc to hold against the code, and listed as hazards:

- a first use of `Messages` or `Minitable` (both public) against a first use of
  `Arena` in another thread deadlocks; a message type with a field of its own type
  cannot be initialised, and two mutually recursive ones can also deadlock;
- group fields get the accessors of a submessage but no link: `processField` asks upb's
  `IsSubMessage`, which has groups, `collectSubmessagesForMinitable` takes fields of
  type message only; `LinksOwnTypes` exempts them;
- the `setMessage` overload that takes a `Builder` passes masks as hasbit offsets
  (`JupbMessageLite.java:297`; not called); decode errors are dropped; each
  `parseFrom` leaves a minitable in the never-freed default arena, and, since
  every thread does, two that parse or initialise classes allocate there at once
  without a lock;
  `toByteArray` allocates in the message's arena, so that two threads that only
  read a message do the same;
- what `fuse` shows is true of every call that reads a pointer from a Java object and
  then uses native memory: nothing in the code keeps the object reachable.  In Runtime
  `AccessesAlive` is checked and proved on the assumption that something does
  (`FrameRoots`);
- inja's scanner remembers what a `-` means across tags, so that `{{ a }}{{ -1 }}` has
  a minus and a 1; tags of different kinds that do not nest, such as
  `{% if x %}{% for .. %}{% endif %}{% endfor %}`, are accepted, and so is a block
  without end; `a b +` is accepted as an expression, and `not not a` refused; the
  dot operator takes its member's name from the names that were not found, and
  fails if the data define a variable of that name; a member of a missing object,
  `(x).member`, dereferences a null pointer.  The generator's templates have
  none of these.

## What is not modelled

Float, boolean, double and string accessors of `Messages` (no generated code
calls them); repeated fields, oneofs, maps and extensions (the generator makes no
accessors, or upb decides); the wire format itself (upb's); failed allocations;
the text of the generated classes, names and packages; the exceptions (never
thrown); inja's built-in functions, loops over objects, template inheritance while
rendering, and the Environment's configuration; the build.  upb, the JVM's
collector and class loader, javac and protoc are external and modelled from how
the code uses them; calls into upb are atomic.

## Plan

Done: ArenaLifetime, Arena and its proofs; MessageValues, JupbMessageLite, its
refinement and proofs; Codegen, FieldAccess and ClassInit with proofs; Runtime and
its proofs; inja's scanner, statements, expressions, renderer and the evaluation of
expressions, with proofs; of expressions also against a grammar.

Left, in this order:

1. **Wire**: `toByteArray`'s null encodings and failed allocations
   (`messages.cpp` 131, 152-160; `JupbMessageLite.java` 217-218).
2. Extensions of Codegen (oneofs, nesting, several messages).
3. The renderer's loops over objects and template inheritance.
