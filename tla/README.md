# TLA+ specifications of PGBigNumber

PGBigNumber is a C++ library of integers of any size, with an evaluator of infix
expressions that can run on a thread pool, and a C binding. These specifications cover
its integer core, the copy-on-write vectors below it, conversion from and to strings and
machine integers, fractions, the evaluator from text to result, its parallel execution, and
the registry of error codes. Paths
are relative to the repository; line numbers are in `PROJECT.json`, which gives for every
definition the lines it models.

## The system

| Component | State | Operations | Used by |
|---|---|---|---|
| `Slice` (`src/Slice.h`) | shared vector, window `[lo, hi)`, slack on both sides | copy, move, swap, `cloneData`, `prepend`, `append`, `slice`, `sliced`, `preExtend`, `[]` | `BigIntegerImpl` |
| magnitude kernels (top of `src/BigIntegerImpl.cpp`, division) | none | compare, add, subtract, inc, dec, multiply, shift, complement, divide | `BigIntegerImpl` |
| `BigIntegerImpl` | sign flag, magnitude (a `Slice` of 32-bit words, least significant first), lazily cached index of the first non-zero word | assignments, arithmetic in place, shifts, bit operations, comparison, conversions | `BigInteger`, evaluator, `Fraction` |
| `BigInteger` | a `unique_ptr` to the above | copy and forward; checked conversion to 64-bit integers | clients, C binding |
| `SimpleConcurrenceQueue`, `ThreadPool` (`src/parallel`) | queue, mutex, condition variable, `m_alwaysPop`; threads, `m_running` | `push`, `pop`, `empty`, `notifyAllPop`; `addTask`, destructor | `peval` |
| tokenizer, parser, expression tree (`src/infixExpr`) | position in the text; position in the tokens, error code; node pool (an array of 32, then a deque) with one promise per node | `tokenizer`, one function per level of precedence, one callback per kind of node | `eval`, `peval` |
| `eval`, `peval` (`src/eval.cpp`) | topological queue, counters of operands not added yet, futures | evaluate sequentially, or level by level on a pool | clients |
| string conversion | none | `fromString`, `toString` by blocks of digits | clients |
| `Status`, error table | static table of codes, texts and callbacks, shared by all threads without a lock; one thread-local object with an error number | `registe`, assign a number (calls back; division by zero exits), look up, `getInstance` (the first of a thread registers the library's codes) | everything |
| `Fraction`, `gcd` | numerator, denominator | arithmetic with reduction | clients |
| C binding (`c/`) | handles | forward; its own checked conversions | C clients |

Objects interact through shared vectors: a copy of a big integer shares its words until
`cloneData()` is called by hand before a write. Threads interact through the pool's queue
and through promises and futures of nodes, and through the table of `Status`, which every new
thread writes.

### What is hard here

*Sharing.* Nothing in the type system forces a write to be preceded by `cloneData()`; the
arguments of an operation may be the object itself or share its vector, and division holds
up to six slices at once. *Slack.* Narrowing a window leaves words in the vector, and widening it
again shows them. *The cache* of the first non-zero word is invalidated by hand, is copied
and moved with objects, and is filled by const functions. *Normal form.* Comparison and the
choice of algorithms rely on magnitudes without leading zero words; every operation restores
that by hand. *Word boundaries.* Carries into a new word, lost ones of right shifts of
negatives, estimated quotient digits and their add-backs. *The pool.* `notify_one` with
several waiters, a destructor concurrent with everything, and `notifyAllPop`, which takes no mutex.
*peval.* Tasks block on promises of other tasks in the same pool; counters of operands are
unsigned, and that of node 0 wraps. *The parser.* Most of its functions go on with the null node
of an operand that failed, and the end of the tokens is found only because the last one
matches nothing. *The registry.* Every thread's first `getInstance` overwrites entries that others use.

`PROJECT.json` lists each hazard with its line and the properties that would catch it.

## The modules

| Module | Models |
|---|---|
| `Magnitude` | the kernels, as functions on sequences of words of `WordBits` bits |
| `Text` | `fromString` and `toString`, as functions on sequences of characters |
| `Fraction` | fractions and `gcd`, on integers |
| `Conversions` | exchange of `BigInteger`s with `int64_t` and `uint64_t`, comparisons with `int64_t` on either side |
| `MCMagnitude` | compares each kernel with integer arithmetic, and the functions of `Text`, `Fraction` and `Conversions` with what they should yield |
| `Words_proofs` | lemmas about the kernels: induction, recursion, the value of a magnitude, each kernel, the two divisions last; then about the member functions of `Slice`, for elements of any type |
| `MCMagnitude_proofs` | theorems about `MCMagnitude`: the kernels, the functions of `Conversions`, `Fraction` and `Text` are exact |
| `Slice` | vectors, windows and owners: each member function of `Slice` as a function on stores |
| `SliceStore` | a client with any number of slices that clones before it writes; one action per member function |
| `SequenceStore` | abstract: independent sequences |
| `SliceStore_proofs` | theorems about `SliceStore` |
| `BigIntegerImpl` | the class: each member function as a composition of `Slice` and `Magnitude` functions, then one action per public operation |
| `BigIntegerImpl_proofs` | one lemma per member function, and theorems about the client that calculates (`CalculatingSpec`) |
| `IntegerStore`, `IntegerOps` | abstract: independent integers, and the operations on them |
| `MCBigInteger` | the clients (which calls, on which objects) of the runs |
| `ThreadPool` | workers, queue, owner, tasks that add tasks |
| `ThreadPool_proofs` | theorems about it |
| `Lexer` | the tokenizer's next token at a position of a text |
| `Parser` | the recursive descent, as a machine with a stack of calls, and the node pool it fills |
| `Eval` | `eval` and `peval` from a text to an outcome, composing `Lexer` and `Parser` with the nodes' callbacks |
| `Eval_proofs` | lemmas about the tokenizer, each function of the parser and the outcomes of nodes, and theorems about `Eval` |
| `MCEval` | the texts of the run, and what they should parse to and evaluate to |
| `Status` | the registry: threads that register, set and look up codes; each access takes two steps |
| `Status_proofs` | theorems about it |
| `NodeTree` | what a tree of nodes is: the assumption of `PEval`, and what `Eval` shows of the parser's pool |
| `PEval` | the main thread of `peval` and the tasks, composed with `ThreadPool` (`Pool == INSTANCE ThreadPool`) |
| `PEval_proofs` | theorems about it |
| `Dataflow` | abstract: nodes evaluated operands first, then an answer |
| `MCPEval`, `MCThreadPool`, `MCSlice`, `MCStatus` | the instances |

Definitions named `...Never`, `...Late`, `...WithoutBorrow` and so on under a comment that
begins with *Mutant* are variants of the next definition with a plausible mistake. No
specification uses them; they record, for each property, a change of the code that it
detects.

### Stores

A state of the integer part is `mem` (the vectors, by address), `mag` (for each name, the
address of its vector and its window) and `num` (sign, cache flag, cached index). The class is
single-threaded, so a member function is one step; but inside it the code makes and
destroys locals that share vectors with objects and arguments, and that is where use
counts matter. So every member function is an operator from a *store* (a record of the
three) to a store, the locals are names of the store like any other (`Local`), and the
operator goes through the stores the code goes through, in its order. `Become` ends the
call: locals die, unowned vectors are freed, and the bounds apply. `use_count()` is the number of names that point to
the vector (`UseCount`). The vector of a new slice is filled with zeros, as
`std::vector` does, and what a narrowed window leaves behind stays.

`call` is history: it names the member function and its arguments. The abstract
specifications have it too, so that refinement says that *this* call did what *this*
call promises, not only that some call could have.

`MoveSlice(s, x, x)` and other self-moves never happen: the code does not make them.

### Words

`WordBits` and `ByteBits` stand for 32 and 8. The kernels' 64-bit intermediate values never
overflow in the code because two words fit; the models compute them as integers and take
words with `% Base`. Runs use two-bit words: four values per word are enough for carries, borrows, estimates
that are wrong by one or two, both parities of shifts and a word of ones, while three words are few
enough for all pairs. `int64_t` arguments have up to two words, as in the code
(`I64Assumption`); `INT64_MIN` is left out since the code's negation of it is undefined.

`Product` is the static `mul` with its threshold (80 words in the code) as a parameter; from four
words on the halves, rounded up and with the carry word of a sum, are shorter than the whole, so
four is the smallest threshold at which it terminates, and the one the run uses.

### Characters and fractions

A character of `Text` is its value as a digit, or a sign; whatever is no digit in the radix is
a number from the radix up. The tables of block lengths hold the largest powers of the radix below
2^31 and 2^63, and `DigitsIn` is that definition; the run has words of five bits, so that blocks have one to three
digits one way and four to eight the other. An error leaves `ok` false, success makes it
true, and `"unchanged"` stands for a return that writes neither. `Fraction` has integers for `BigInteger`s,
and a result with `ok` for the operations that can fail.

### Threads

A critical section of the queue's mutex is one step, except in `pop`, where the step from
the test of the predicate to the wait is split: `FindNothing` tests it and keeps the mutex, `Block`
enters the wait set and releases it. Between the two, `notifyAllPop`, which does not take
the mutex, may run (`SetAlwaysPop`, `NotifyAll`). `m_alwaysPop` is a plain `bool` read and
written concurrently: a reader may see the old value or the new one, which the interleaving
of its write with the reads gives. Spurious wake-ups happen at any time. `m_running` is
read outside the mutex in `addTask` and by the workers.

In `PEval` a task's step is `SetValue` (it has read its operands, and sets its promise), then
`EndTask` (its future becomes ready). Both are separate from taking the task. Nodes in
`Throwing` may end without setting their promise. The values of nodes are left out: what
matters is which are computed when.

### Texts, tokens and trees

A text is a sequence of characters. The tokenizer takes a step per blank and per token, and the parser
one per call and one per return of its functions, so that whether they end is a question about behaviours; evaluation is
one step, a function of the tree. A parser state holds the members of `ExprParser`, the node the last function
returned, or `Null`, and the calls that have not returned, each with the operands it has so far (`held`): `node` of a loop over
operators, `condition` and `then`, `argNodes`. Where the code calls a function, the machine pushes a
frame (`CallExpr`, `CallLevels`, `CallSign`, `Prim`); where a call comes back, the operator named for the function takes the
node over (`Conditional`, `BinaryOp`, `UnaryOp`, `PostfixOp`, `Bracket`, `Argument`, `FuncCall`). The nine levels of binary
operators are one function over their table (`Level`). `parseEqu`, whose loop returns after its first turn, and `parseCmp`,
which makes an `LT` of everything, are exceptions in that table (`Once`, `Made`).

Integers stand for `BigIntegerImpl`s. What is not a number is a *fault*, a name for the way
the code leaves: `exit` (division by zero ends the process), `throw`, `overrun` (the parser read
behind the tokens), `unregistered` (a status was set that has no entry), `null` (a missing
node was dereferenced) and `hang` (`peval` waits for a promise nobody sets). The order in which operands fail
is kept. `Eval` evaluates `peval`'s nodes as a set; in which order and on which
threads is the subject of `PEval`, and `FillsPoolWithTree` shows that the parser's pools
satisfy what `PEval` assumes (`IsTree` of `NodeTree`).

### The registry

Status entries are only who made them: nobody, the library or a client. An access to the table
begins and ends in separate steps. Two accesses at once, one of them a write, are undefined in C++: the
process is then `"raced"` and stops. The same goes for a callback that is not there (`"lost"`), which only
debug builds assert. Threads end and begin again, which is how `peval`'s workers come to
register the codes over and over.

## The runs

Bounds that cut behaviours are named in the modules: `MaxMag` (largest magnitude reached), `MaxVec`,
`MaxLen` (longest vector), `MaxShift`, and the sets of integers, shifts and images tried.

| Run | Shows |
|---|---|
| `magnitude` | every kernel is exact on all pairs of normalised magnitudes of up to three words (32768 states, shifts up to 7); sums, shifts and one-word products need no normalisation, which the callers rely on; Karatsuba from four words on (two levels of it); strings of up to seven characters in radixes 2 to 4; fractions with parts up to 15, of either sign; conversion of every number of up to three words to 64-bit (here four-bit) integers and its comparison with every one |
| `slice` | three-element vectors of two names, all sharings, all windows and slacks: each slice is a sequence of its own, provided the client clones before it writes (`ImplementsSequences`), and no window leaves its vector |
| `arithmetic` | one object does everything but division, with itself, a second object and integers, sharing vectors with the second object or not: exact (`ImplementsIntegers`), normalised, ordered rightly (`ComparesExact`), and the other object never disturbed (`CopyOnWrite`) |
| `dividing` | quotient and remainder by one word, by algorithm D and by the object itself, with the second result in an object that may share the dividend's vector |
| `bits` | loads from binary images of both byte orders, and bit operations on two's complement, within the limits below; what is read through the cached index is right (`ReadsExact`) |
| `thread_pool` | two workers and three tasks, added by the owner and by running tasks, the destructor at any time |
| `evaluating` | 8316 texts: every tree of depth two and its extensions by every operator on either side, written with as few brackets as the grammar allows (`ParsesBack` and `YieldsMeaning` compare with the tree they came from); numerals up to 75 in radixes 2, 8, 16 and 36; expressions with one word left out, and all strings of up to three characters over two alphabets, for the failures (`StopsInTime`, `ErrorsReachTheRoot`, `FillsPoolWithTree`, `EvalAgrees`, `ParsingEnds`) |
| `status` | three threads and three codes (one ends the process, one is a client's), every interleaving of registering, setting, looking up, first calls and thread ends |
| `peval` | nine nodes with a conditional, operators that become ready on different levels, two nodes that may throw, three workers |

`VIEW Shape` identifies states that differ only in the addresses of vectors and in `call`.
Addresses are only compared, and `call` is never read by an action, so that states of one
shape have the same futures; the action properties are evaluated on every step TLC
generates, before the view. Three names of objects, ten locals and one address more than names are enough, since
an allocation needs one free address.

In `arithmetic` the second object is written only by loading a constant. A step of the
first object does not depend on how the second came to its
value, except through the second's slack and cache, which loads after other loads vary too.
In `dividing` the divisor is loaded once and the third object holds second results,
copies, or what a swap left.

The pool's array has three places (`InitBufSize`) instead of 32, so that most trees of `evaluating`
continue in the deque. Seventy-five (`MaxNumeral`) needs two digits in radix 36 and three in radix 8. Three threads are
enough for one in its first `getInstance`, one that finished it and one client.

### Limits of `bits`

Three defects (below) would make every property fail, so the client in `bits`
stays clear of them, and only of them: it loads no image that is minus a power of two ending
inside a word (`Images`), performs bit operations only when the vector has nothing but zeros
above the window (`Clean`), and inverts bits only when that leaves the magnitude normalised.

### Fairness

`thread_pool`: a worker that can go on does (weak fairness of everything it does but
spurious wake-ups), tasks end (the pool's contract: `Finish`), and a destructor that was
entered goes on. Nobody is obliged to add a task, and no wake-up is owed to a thread that was not
notified. `peval`: the same, and strong fairness of the main thread's `Submit`, since the mutex it
needs may be free and taken again and again by workers that wake up spuriously; a mutex
that starved it for ever would not be one the standard library provides. Without fairness of
`Finish`, no task needs to end and nothing can be promised. `evaluating`: the tokenizer's loop and the
parser go on while they can; nobody else could stop them. `status`: a thread inside one of its calls
goes on, which is needed for `GetInstanceReturns` only; no thread has to make a call.

### What the code does otherwise than it says

Three runs expect a violation; `findings` in `PROJECT.json` quotes what each contradicts.

* `masking`: bit operations and `notSelf` widen the window over words that an earlier
  narrowing left, and read them as data.
* `joining`: `notifyAllPop` may come between a worker's test and its wait; the worker sleeps and
  the destructor never returns. `JoinReturnsUnlessMissed` is what is left.
* `overriding`: a thread's first `getInstance` registers the library's codes over a client's.
  `ClientEntriesStay` is what is left.

More were met and have no run of their own; the models have them, and the properties are stated
so that they show what does hold.

*Integers.* `assign(int64_t)` of ±(2^32 − 1) stores two words, the top one zero; the runs load no such
number, and `ComparesWithI64` excepts it. A binary image that is minus a power of two ending inside a word, such
as the bytes `00 ff`, is read as a power of 2^32 (`Images` leaves it out). Long division (`knuthDivImpl`) puts its second
result into the caller's object without dropping the index cached there, so that `getU32` of a negative
result reads wrong words if the object was read before, or holds a ±1 that `beOne` or `beNegOne` left.
`dividing` does not check `ReadsExact`, and `ReadsAreExact` says what is left. `notBits` does not normalise its result, so that
inverting a top word of ones leaves a leading zero (`bits` excludes it). `int64_t > BigInteger` answers
`int64_t < BigInteger` (`ComparesWithI64` says so), and
`pgbn_BigInteger_GetUInt64WithChecking` compares with an `int64_t`, so that its upper bound is −1 and it refuses every
number (`ConversionExact` says so).

*Strings and fractions.* `fromString` drops a wrong character that is not the first of its block and accepts the string
as another number, against the grammar in `BigInteger.h:35` (`from_chars` tells where it stopped, nobody looks; `12` in
radix 2 is 1). `TextExact` therefore says that every numeral is read and that a string which is rejected leaves the
object alone, not that everything else is rejected. For a string of zeros `fromString` writes neither `ok` nor the status. `toDecimal` loses the zeros
behind the dot: `FractionExact` states exactly when it is right. `Fraction::reciprocal` tests the
wrong part, and 0/1 becomes 1/0.

*Expressions.* `<=`, `>` and `>=` are parsed as `<`: `2 > 1` is 0. `%` is parsed, and evaluates to 0; so does a
power with the exponent 0. `a == b == c` stops after `b`, and whatever follows a complete expression is
ignored. A text that ends in a blank keeps the tokenizer in its loop for ever (`ParsingEnds` excepts exactly
these). The loop over decimals swallows a character behind the dot, and one more behind a digit.
An operand that is missing is a null node: `ErrorsReachTheRoot` shows that the errors the parser
*notices* always end with a null root, not that it notices all of them. After a tokenizer error the
parser may read behind the tokens (`StopsInTime` says when it cannot). A null root sets the status `~SUCCESS`, and a wrong number of arguments code 16;
neither is in the table.

*Parallel evaluation.* `pevalTask`
sets the promise after evaluating; if that throws, the promise is never set and `peval` hangs where
`eval` throws, though `README.md` says they are equivalent. `peval` also evaluates the alternatives
that `eval` skips: `EvalAgrees` states what is left of the equivalence. `Answers` therefore
promises an answer only unless a node threw, while `NeverBlocks` holds with throwing nodes too:
whoever waits, waits for a task that ended, never for one that is queued behind it.

## Proofs

### The pool

`ThreadPool_proofs`, for every set of workers and tasks:

* `TypeCorrect`: `Spec => []TypeOK`, including that the mutex is held exactly by the worker
  between its test and its wait;
* `FirstInFirstOut`: `Spec => []InOrder`, tasks are given out in the order accepted, none
  twice and none skipped;
* `DestructorDrains`: `Spec => []DrainedWhenGone`, when the destructor returns every accepted
  task was executed.

The assumptions are `WorkerAssumption` (there is a worker; `None` is neither worker nor task)
and `TaskAssumption`. `DrainedWhenGone` is not inductive. The invariant `PoolInv` adds
that `running` is false exactly when the owner has begun the destructor (`Stopped`), that a worker
tests emptiness or has left only after that, and left only with the queue empty
(`Leavers`), that what was given out is what is finished and what running workers hold (`Hands`), and
that a destroyed pool has only workers that left (`Joined`). `Leavers` is the heart: `push`
tests `m_running` under the mutex, so that once a worker has seen an empty queue of a stopped
pool nothing is ever queued again, by the owner or by a task.

One lemma per group of actions (`PushStep`, `TakeStep`, `FinishStep`, ...) shows that the
action keeps `PoolInv`; `Next_PoolInv` collects them.

### peval

`PEval_proofs`, for every tree of nodes (`TreeAssumption`, which `PoolIsTree` below shows of the
parser's pools), any set of workers that is not empty (`PoolAssumption`) and any width of the counters that can count the nodes:

* `TypeCorrect`: `Spec => []TypeOK`;
* `WorkersNeverBlock`: `Spec => []NeverBlocks`;
* `EveryNodeOnce`: `Spec => []CountsNodes`;
* `UsesThreadPool`: `Spec => UsesPool`, the refinement of `ThreadPool`'s specification, so that the theorems above
  hold of the pool inside `peval`;
* `EvaluatesAsDataflow`: `Spec => ImplementsDataflow`, the refinement of `Dataflow`.

All five follow from the invariant `LevelInv`. Its parts: the nodes added are those in `level`, each
once (`Added`); the queue holds, each once, nodes that were not added and whose operands were (`Queued`); the operands of the nodes
of the current level, and of those added, have ended (`Barrier`); a counter is the number of operands not added
yet, except that of node 0, which is zero until the root is added and wraps then (`Counters`); and the pool holds only added nodes
and is in use until the root's value is known (`Held`). `SubmitStep` is where they need each other: the counter of
the parent reaches zero with its last operand, so that it is queued once, and the only
counter that wraps is decremented when the root, the last node, is added. That `parents` is filled with zeros
matters exactly there.

### Slices

`SliceStore_proofs`, for any names, elements and bounds, with more addresses than names (`AddrAssumption`),
zero among the elements (`DataAssumption`) and a natural bound (`BoundAssumption`):

* `WindowsStayInside`: `Spec => []WindowsInside`;
* `SlicesAreSequences`: `Spec => ImplementsSequences`, the refinement of `SequenceStore`.

`WindowsInside` is inductive. The work is one lemma per member function (`PrependSound`, `NarrowSound`,
`PreExtendSound`, ...), of the form `Differ(s, t, x, v)`: the store stays sound, `x` now holds `v`, and every other slice
holds what it held. The functions that allocate get this from the address being nobody's (`AllocateSound`); those that
write in place get it from the use count, which being one means that no other slice points to the vector
(`OwnVector`): here, and only here, the rule that `cloneData` comes first is needed. `slice` inside the window
needs no owner (`NarrowSound`), which is why sub-slices may share. Each lemma serves both
theorems, and, being about stores of any kind, the proofs of `BigIntegerImpl` too: the lemmas are in `Words_proofs`.
The theorems speak of clients that keep the rule; that the calculating client of `BigIntegerImpl` keeps it is proved next.

### Big integers

`BigIntegerImpl_proofs`, for any objects, any width of words from two bits up, any integers and shifts, any bounds, with more
addresses than names (`AddrAssumption`). Its client, `CalculatingSpec`, constructs, copies, moves, swaps and loads
objects, reads them, negates, steps, adds, subtracts, multiplies, shifts and divides them, with one result or two, each with
itself, with an object that shares its vector, or with an integer; it neither works on bits nor loads binary images (`Calculations`; the
runs `arithmetic` and `dividing` are such clients). `ReadingSpec` is the part of it that gives a division with two results only objects
without a cached index for the second one (`Unindexed`), which the stale index described above asks for:

* `ObjectsNormalised`: `CalculatingSpec => [](TypeOK /\ Normalised)`;
* `ComparesIntegers`: `CalculatingSpec => []ComparesExact`;
* `CopiesIndependent`: `CalculatingSpec => CopyOnWrite`, an action property;
* `CalculatesWithIntegers`: `CalculatingSpec => ImplementsIntegers`, the refinement of `IntegerStore`;
* `ObjectsTyped`: `CalculatingSpec => []TypeOK`;
* `ReadsAreExact`: `ReadingSpec => []ReadsExact`: the words `getU32` reads are those of the integer's two's complement,
  although the index of the first non-zero word is cached between calls.

The hypothesis `LoadsNormalised` of all six keeps ±(2^32 − 1) out of the integers loaded. It is what the code needs: `assign(int64_t)` of
these leaves a leading zero word, and `Normalised` is false then. The integers of the run `arithmetic` satisfy it.

The inductive invariant is `TypeOK /\ Normalised`. `StateSound` shows that under it the state is a sound store in
which exactly the objects are alive; `StateHolds`, that each of them *holds* its integer (`Holds`: a trimmed magnitude
whose sign says whether it is empty). In between, inside a call, locals are alive and objects need not be
normalised, and the lemmas speak of stores. `Writes(s, t, x, sign, w)` says that in `t` the words of `x` are `w` and every other
living name shows what it showed in `s`; `Yields(s, t, x, v)`, that `x` holds `v` and the others are spared. A member function
is a chain of such steps (`PreservesTwice`): the steps on the vector come from the lemmas about `Slice`
(`cloneData` gives the use count that the writes need), what the written words are worth comes from those about `Magnitude`, and signs and
trailing zeros complete it (`AddMagYields`, `MulMagYields`, `ShiftRightYields`, `DivExact`, ...). The argument may be the
object itself or share its vector: no lemma has a premise that they differ, and where the code tests `this == &other`, or copies
the argument first, the proof splits on it. `Return` ends the call: locals are dropped, and `CallPerforms` turns what the
store shows into the primed state, the step of `IntegerStore` and `SparesOthers`.

*Division* has the longest chain (`DivExact`). Its two copies of dividend and divisor share the operands' vectors until something clones
them: the shift that sets the divisor's top bit does, unless it shifts by nothing (`ShiftInWord`). Then the copies made by `knuthDivImpl`
go on sharing, the loop writes through `uDividend` without a clone, and what it writes shows in `dividend` too. That is harmless because only that
local is hit, whose value nobody asks for any more: the append in `AsLong`, or `cloneData` before it, has already taken the vector away from the caller's objects.
`DifferButPreserves` and `KnuthDivides` carry this exception to "spares everybody else" through the loop, and
`LongDivides` removes it when the locals die. The quotient and remainder are those of `DivisionExact`, scaled back (`ScaledCopies`, `RestShifted`), and take
their signs last, a zero having none (`SetUnlessZeroYields`); `IntegerStore` says the same by truncation towards zero (`Truncated`).
`DividesBoth` and `DivAssignYields` are the calls: local results are moved into the dividend (`MoveAssignHolds`).

`ReadsAreExact` needs one invariant more, `Caches`: every object is `Fresh`, which is to say that a cached index is that of the first
non-zero word of the words it has now. Its lemmas lie beside those on values and use only their conclusions. Functions
on vectors write neither flags nor caches (`SlicesKeepNums`, `KernelsKeepNums`); what writes words starts with `beginWrite`, which forgets
the index (`Cools`); `assign` and `swap` carry it along with the words it belongs to, `negate` keeps it because the magnitude stays,
`beOne` sets it and `getU32` fills it in (`Renews`). Division does none of this for its results: `DivWarms` goes through the cases of `div()`, which
copy an index together with its words, or write to a result whose index was forgotten before the call (`Chills`); the local results
begin without one (`LocalCold`), and `MoveAssign` hands over what they end with. That a read of a fresh object is right is then arithmetic: `ReadsTwos` splits the
magnitude at the word read (`SplitAtWord`), and `WordOfTwos` says what the complement has there. `ReadsExact`
compares with a quotient by a power of `Base`; `MaxVecAssumption`, which TLC evaluates, gives these powers.

### From a text to an outcome

`Eval_proofs`, for every text (any sequence of strings), every symbol table and any size of the pool's array (`BufAssumption`: a number):

* `EvalTyped`: `Spec => []TypeOK`;
* `ParserStopsInTime`: `Spec => []StopsInTime`, the parser never reads behind the last token, unless the tokenizer gave up at a numeral;
* `ErrorsAreNotLost`: `Spec => []ErrorsReachTheRoot`;
* `PoolIsTree`: `Spec => []FillsPoolWithTree`, so that the assumption of `PEval` holds of every text;
* `PevalAgreesWithEval`: `Spec => []EvalAgrees`.

None is inductive, since they speak of the end of parsing. The invariant `Inv` says of the tokens that the last one is `INVALID` (`Closed`), unless
the tokenizer gave up at a numeral (`NextTokenFacts`, by cases on the token); and of every state the parser goes through that it is
one of `State`: `Good`, with a call to go back to or, at the end, with a null root if there was an error. There is one lemma per function of the
parser (`SignStep` to `ConditionalStep`) that its step leads from `State` to `State`. The parts of `Good`:

* The index is one of a token, and while the tokens are closed it stays in front of their end: no function consumes an `INVALID`
  token (`GoodConsume`), the types each one asks for being listed in `Level`, `Sign` and its code.
* The pool is sound (`PoolOK`): the array is full before the deque is used, each node has the number of operands of its
  operator (`Shaped`), and these are missing or nodes made before it.
* Calls are sound (`CallsOK`): the outermost is a conditional's, and each holds no more operands than its function collects. This is
  where an error cannot be lost: a root is only ever returned by that conditional, which tests the error code.
* As long as there is no error, the nodes of the pool, what each call holds and what was parsed last are rows of a *forest* (`Forest`,
  `Rows`): each node occurs in exactly one row, once. A push adds an empty row (`ForestGrows`), a return merges the last two
  (`ForestMerges`), a new node takes the last row and occurs in its place (`ForestTakes`), and a missing operand occurs nowhere
  (`ForestMisses`). After an error the code drops nodes that have been made, the pool is no forest any more, and the invariant says nothing of it.

At the end no call is left, and the only row besides the nodes' own has just the root: every other node is an operand of exactly one
node, operands come before operators, and so the last node can only be the root (`RootFacts`, `EndsInTree`).
For `EvalAgrees`, `Outcomes` is a recursive function on the numbers of nodes; `OfNodeLocal` and `ValuesExist` show that its equation has a
solution, because nodes refer to earlier ones only. `FaultsRise`: without conditionals a fault of an operand is a fault of the
node. If some node has a fault, or misses an operand, take the last one with a fault: it is nobody's operand, so it is
the root (`FaultsReachTheRoot`). Then everything that could keep `peval` from a number also keeps `eval` from one.

### The registry

`Status_proofs`, for any set of threads and any table of codes (`CodeAssumption`, `NoCodeAssumption`):

* `StartedKnows`: `Spec => []KnownOnceStarted`;
* `ClientsKeepEntries`: `Spec => ClientEntriesStay`, an action property.

The types (`TypeOK`) are part of the invariant `RegistryInv`, and proved with it. It adds that a thread that is registering has registered every code in front of
its place in the table (`Filled`), and stores at that place (`AtNext`); an entry is replaced but never taken away
(`NoneLost`).

### The kernels

`MCMagnitude` lets a machine pick any two normalised magnitudes, and its invariants say what
each kernel makes of them. `MCMagnitude_proofs` shows all eight for words of any width from
two bits up, and magnitudes of any length (`MaxLen`, `MaxLenB` and `MaxShift` are any natural numbers):

* `SumsAreExact`: comparison, sum, difference, increment and decrement;
* `ShiftsAreExact`: left and right shifts by any count tried;
* `ProductsAreExact`: multiplication by a word, by rows, and by halves from four words on (`ProductExact` has any threshold from four up);
* `DivisionIsExact`: division by a word, and algorithm D with each of its steps: the estimated digit, the subtraction, the
  add-backs;
* `ConversionsAreExact`: the checked and unchecked conversions to `int64_t` and `uint64_t`, and that the C function refuses every unsigned number;
* `ComparisonsAreExact`: the six comparisons with an `int64_t`, on either side;
* `FractionsAreExact`: every operation of `Fraction` yields a reduced fraction of the right value, and `toDecimal` is right
  exactly if its first digit is not zero;
* `TextsAreExact`: `toString` writes a numeral that `fromString` reads as the same number, of either sign and any size; every
  numeral is read, and a string that is rejected leaves the object alone. Radices are 2 to 4 and blocks are cut as with
  words of five bits, as in the run.

All follow from one inductive invariant, `Operands`: the magnitudes picked are normalised sequences of words. The
content is in the lemmas, which say for *every* sequence of words what a kernel returns
(`AddMagExact`, `ShlMagExact`, `ProductExact`, `AlgorithmDExact`, ...), and do not mention `MCMagnitude`.

*Induction.* The library's induction theorems take the predicate as a parameter, which the installed
provers cannot instantiate. `UpTo` is induction without one: a set of numbers that has zero, and with a number its
successor, has all of them up to a bound. It comes from the well-foundedness of `<` (a set of
counterexamples would have a least element). A predicate becomes the set of the numbers that satisfy it. Definitions by
recursion (`CHOOSE` of a function that satisfies its equation) are opened by `Recursion`, `GuardedRecursion` and `Iterate`, which
show that there is such a function for any step function.

*Powers.* The provers know nothing of `^`. Three assumptions give them what they need, and TLC evaluates them in the run:
`PowerAssumption` and `ShiftAssumption` say that a power of two doubles from one exponent to the next, up to
`WordBits` and `MaxShift`; `BoundsAssumption` says that the bounds are numbers.
Powers of `Base` are never used: a word's weight is a member of a sequence that multiplies by `Base` from place to
place (`WeightsExist`).

*Value.* `ToNatUnfolds` turns the fold in `ToNat` into Horner's rule, and `ToNatLinear`, `ToNatParts` and `ToNatLess` say
what that gives: it is linear in the words, splits at any place, and is less than the weight behind the last word. The
loops with a carry are one operator, `Ripple`, and `RippleExact` is the one induction about it: words out, plus the
carry, are worth the words in. `RippleRange` bounds the carry by the range of what goes in. Sum, difference,
increment, multiplication by a word and both shifts are instances.

*Products.* A row of the schoolbook product adds one multiple of the first operand at its place (`RowExact`), and the invariant of the
rows is that the result holds the product with the words done so far. `Product` calls itself on halves and on
the sums of halves, which have a word more than the longer half. `CallsShorten` shows that from four words on these are
shorter than the longer operand, so that the recursion is well founded; below four they need not be, which is why `ProductExact` asks for
a threshold of four. `Karatsuba` is the identity; that its two differences never borrow is part of it.

*Division.* `QHatBounds`: with a divisor whose top bit is set, the digit estimated from three words by two is at least
the true one, and at most `Base`. `MulSubExact` says what the subtraction leaves, a
negative window being its complement; `AddBackExact`, that adding the divisor back while there is a borrow ends at the true digit.
`DigitExact` puts these together, and `KnuthLoopExact` is the loop's invariant: quotient so far times divisor, plus what is left,
is the dividend, and what is left at each place is less than the divisor. `NormShiftExact` finds the shift that sets the top
bit and shows that the divisor does not get longer (`NormalisedDivisor`); `ScaledDivision` takes the scale back out of the remainder.

*Conversions.* The complement that `getU32` forms word by word is split at the first non-zero word
(`FirstNonZeroProperties`, `ComplementProperties`): below it zeros, there a negation, above it inversions.
The two low words are the number modulo 2^64 (`LowWords`); the bound `MaxU64` is made in the code by shifting
`MaxI64` and setting its last bit, which `OrOne` follows through `|`, defined bit by bit. `ComparesWithI64` keeps its
exception, the numbers ±(2^32 − 1), and the proof shows it to be the only one: every other `int64_t` is stored normalised (`OfI64Exact`).

*Fractions.* `IsGcd` says what a greatest common divisor is without naming an algorithm: its divisors are the common ones of
the operands. `GcdSteps` shows that a step of `gcd` keeps it, `EuclidSolvable` that the equation of `gcd` has a solution at
all, and `EuclidExact` that no solution is anything else. From `GcdExact` it follows that `fix` leaves a quotient in
lowest terms (`FracExact`), of operands of either sign, and then the rest is cross multiplication. The digits of
`toDecimal` come from `to_chars`, a recursion on quotients: `Descent` opens recursions whose argument gets smaller.

*Texts.* `SchemeSplits` is about Horner's scheme of digits: reading on from a place multiplies what was read by a power of the
radix, and adds the number of the rest. `BlocksCover` shows that the blocks of `fromString`, cut from the end so that only the first
may be short, cover the numeral without gap or overlap, and `AssembledExact` that multiplying by the block radix and adding the next
block reads it whole, from the first digit that is not zero. On the other side `ToCharsNumeral` and `StringNumeral` show that
`toString` writes a numeral of its argument: each block but the top one is padded to the block's length, so that its
weight is a power of the block radix, although this block is longer than that of `fromString`.
The entries of the two tables are computed (`TableU32`, `TableU64`) from powers listed one by one, which is why radix and width are
those of the run.

### Only model-checked

* Liveness (`EveryTaskRuns`, `JoinReturnsUnlessMissed`, `Answers`, `ParsingEnds`, `GetInstanceReturns`), which TLAPS does not reach.
* That texts written from trees parse back to these trees and evaluate to what they mean (`ParsesBack`, `YieldsMeaning` of `MCEval`). The
  texts are made by recursive operators (`RECURSIVE`), and tlapm has no SMT backend in such modules.
* Bit operations and binary loads of `BigIntegerImpl` (`bits`, where `ReadsExact` is checked too). For clients that invert bits or
  perform bit operations without the limits of `bits`, `TypeOK` and `Normalised` are not invariants (the defects above).

## Not modelled, and what is left

* The static `mul` and `div` with aliased results, and Karatsuba on shared vectors; `INT64_MIN` in `BigIntegerImpl`.
* The pointer inside `BigInteger` and the handles of the C binding: lifetimes that are the client's business, and one-line
  forwarding besides the conversions. The number, context and texts in a `Status`, and callbacks that call the registry.
* `BigIntegerImplToStringHelper`, the iterator behind the stream output; formatting, `VM.h` and debug macros, which hold no
  state that the other parts depend on.
* `tryPop` and the queue's copy constructor, which nothing calls, and a pool of
  zero workers (`hardware_concurrency()` may return 0), a plain deadlock.

Next would be the bit operations in `BigIntegerImpl_proofs`, the static overloads in it, and fractions as objects with chains of operations.
