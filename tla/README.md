# Models of roscha

roscha is a template engine in C: a host program adds templates to an environment, stores
reference-counted objects in `env->vars`, and renders a template by name. This directory
holds TLA+ models of it, the TLC runs that check them, and proofs about the objects, the
hash map, the evaluators of expressions and of blocks, the environment, the lexer and the
parser. Line numbers refer to the sources next to this directory (`src/src`,
`src/include`).

The program has one thread. What makes it hard is not concurrency but
bookkeeping: every container call moves a reference in its own way, loops
overwrite variables of the host and must put them back on every way out, three
flags live in the environment and not in the call that uses them, and pointers
between templates outlive the render that set them.

## Inventory

| part | state | operations | what makes it correct |
|---|---|---|---|
| objects (`object.c`) | type, refcount, contents | new, ref, unref with its recursive destructor, set/get/pop/unset, push/pop | every count is the number of owners; nothing reachable is freed; nothing unreachable is kept |
| hash map (`hmap.c`) | bucket lists, `size`; iterators with `index`, `count`, `cur` | set, get, remove, destroy, free, iterate | a map; an iteration yields each pair once and stops inside the array |
| vector (`vector.c`) | array, `len`, `cap` | push, pop, iterate | length and contents agree |
| slices (`slice.c`) | none | compare, print | pure |
| tokens (`token.c`) | keyword table | look up a word | constant once initialised |
| lexer (`lexer.c`) | position, `in_content`, token being read | next token | every byte of the source is in one token, lines are counted |
| parser (`parser.c`) | two tokens of look-ahead, errors, blocks by name | parse block, tag, loop, branch, expression | tags match, a failure frees what was built and reports an error |
| syntax tree (`ast.c`) | blocks, branches, expressions | destroy; print, for tests and messages | everything is freed once |
| evaluator (`roscha.c`) | `env->vars`, `eval_tmpl`, `brk`, `errors`, `child` of each template, the C stack, what each function holds while it evaluates an operand | `eval_template`, `eval_subblocks`, `eval_branch`, `eval_loop`, `eval_tblock`, `eval_expression` | the text is what the templates mean; variables and counts are as before; every render ends |
| environment (`roscha.c`, `template_destroy` of `ast.c`) | templates by name with the keys of their nodes, `child` pointers, errors, the table of keywords | init, deinit, new, add template, load directory, render, check errors, destroy | failures are reported and successes complete, nothing is used after it was freed, and what is not freed is known |

Interactions: the host calls the environment and the object functions; the
evaluator calls `object.c`, which calls `hmap.c` and `vector.c`; a destructor
runs inside `hmap_destroy`, through a callback; the parser pulls tokens from the
lexer and hands its block map to the template; templates point at each other
through `child` while `extends` is followed.

The behaviours that tests hardly reach are listed, at their lines, under
`hazards` in `PROJECT.json`.

## Modules

| module | what it is |
|---|---|
| `ObjectHeap` | the object functions as operators from heaps to heaps; no behaviour |
| `Objects` | any host that uses them as `object.h` says: the calls as actions, the destructor one object and one cell at a time |
| `ObjectHeapProofs`, `ObjectsProofs` | lemmas about the operators, theorems about `Objects` |
| `HmapSpec` | what `hmap.h` promises: a map, and iterators as sets of pairs still to come |
| `Hmap` | the bucket lists of `hmap.c`, shown to implement `HmapSpec` |
| `HmapProofs` | theorems about `Hmap`, the refinement of `HmapSpec` among them |
| `Expr` | `eval_expression` and all below it, over a heap of `ObjectHeap` |
| `ExprRef` | what an expression means, by recursion on its tree, and the comparison |
| `ExprProofs` | theorems about `Expr` |
| `Render` | the evaluator of blocks and templates, over a heap of `ObjectHeap` |
| `RenderRef` | what a template means, by recursion on its blocks, and the comparison |
| `RenderProofs` | theorems about `Render` |
| `Lexer` | `lexer_next_token`, one action per way through it |
| `LexerProofs` | theorems about `Lexer` |
| `Tokens` | tokens as the parser sees them |
| `Expressions` | the expression parser, as recursive operators; no behaviour |
| `Parser` | the block parser, what its failures free, and the decision of `roscha_env_add_template` |
| `ParserProofs` | theorems about `Parser` |
| `Source` | `Lexer`, `Parser` and `Expressions` composed: from text to tree |
| `EnvSpec` | what `roscha.h` promises of an environment: a map from names to templates |
| `Env` | the life of an environment, of its templates and of their memory, shown to implement `EnvSpec` |
| `EnvProofs` | theorems about `Env`, that it implements `EnvSpec` among them |
| `MCObjects`, `MCHmap`, `MCExpr`, `MCRender`, `MCLexer`, `MCParser`, `MCSource`, `MCEnv` | values of the constants for TLC |

Operators named as variants "with a mistake" stand next to what they vary. No
specification uses them; putting one in the place of its neighbour makes TLC
find a violation, which is how each property is known to say something.

### Objects

A heap is a record of functions from addresses: `kind` (`"none"` for memory that
is no object), `rc`, `cell` (what a container points at), `len`. `hold` is what
the host owns. Each action of `Objects` is one call of `object.h`, with the
transfer of references its comment describes: a set hands back the old value
*with* the map's reference, a get lends, a pop gives, an unset drops; a
`set_new` and a `push_new` (`vector_push`, which takes no reference of its own) give the
container the reference the object is born with. `roscha_object_unref` is
split where the code has steps: the decrement, then one action per cell the
destructor unrefs (`DestroyCell`) and one for the final `free` (`DestroyObject`).
In between, other destructors it started are interleaved in every order, which
includes the depth-first order of the C recursion. The host calls nothing
meanwhile (`Quiet`). Integers, strings and slices are leaves that differ in
nothing here.

### Hmap

A node is named by its bucket and its place in the list. `Pos` is the hash
reduced modulo the number of buckets, an arbitrary function. `Overwrite` and
`Insert` are the two ends of `hmap_sets`; `IterNext` is `hmap_iter_next` with its
unbounded scan for the next list (what it would read past the end is `Wild`).
Nothing changes a map while an iterator is in use: that is how `eval_loop` and
`hmap_string` use them. `Without` is `hmap_removes` relinking around a node, and `Free`
is `hmap_free`, which no callback can watch.

### Render

The C stack is the variable `stack`: a frame for each active `eval_subblocks`,
`eval_branch` and `eval_loop`. A frame of `eval_loop` holds its locals (`loopv`,
`indexv`, `outerloop`, `outeritem`, `seq`, the position of the map's iterator)
and moves through `bind`, `unbind`, `loop`, `item` and `leave`, the places
between which something else may run. Heap changes go through the operators of
`ObjectHeap`, so a destructor that a restore starts runs to its end before the
evaluator goes on. Abstracted: text is an opaque chunk, an integer prints its
value, a container what it holds prints; of expressions there are identifiers, `not`
and map keys, which have every outcome that `eval_expression` has for its
callers: an object of the heap, a static object, an error. That an expression
can be one step here is `HostUntouched` of `Expr`. Templates are the
trees the parser builds, closing tags left out because evaluating one does
nothing. A read through a null or wild pointer leads to the mode `"crashed"`.

Three variables are ghosts: `start` (the environment when the render began),
`path` (the templates it went through), and `lost` (references a return dropped
without giving them back), which only `eval_loop` adds to: where it returns early,
and where it puts the outer `loop` back over what a loop in its body that returned
early has left there.

`Pieces` are the blocks that the templates of `Projects` are made of, at any depth.
The constants have the assumptions that the proofs need and that code outside of
the model ensures: `TemplateAssumption` says what the parser leaves, `HostAssumption`
that the host counted its own references right. A loop needs two unused addresses
(`Room`): a bound of the model, as allocation does not fail.

`roscha_object_string` calls itself for the members of a container, and nothing looks for
one that holds itself: `Nested` is the set of containers that are printed so many calls
below a value, and a print takes a step (`Variable`) if there are none where the stack
ends (`Prints`), or else is the end of the render (`PrintOverflows`). `bool_string` drops
the pointer `sdscat` returns, so that printing a boolean leads to freed memory whenever
the text has to be moved to grow; that is up to the allocator, and a choice here
(`PrintMoves`).

The C stack ends at `MaxDepth` frames, in the mode `"overflow"`: the deepest of the other
templates and values stays below that, so only blocks that contain themselves and
containers that hold themselves get there (`OverflowsInCircles`). `MaxText` bounds what a
render may print; no render of the run stops at it, since each one ends (`RenderEnds`).

### Expr

`stack` has a frame for each active `eval_prefix`, `eval_infix`, `eval_mapkey` and
`eval_index`, with the object it holds while it evaluates another operand. Every
object has a `word`, the first of its union: an integer in two's complement of
`Width` bits, or the address a string or container has. `Compare` reads that word
for every type, as `eval_boolean_infix` does for whatever is no pair of integers.
`Divide` has no step for a divisor that is 0, nor for the least integer by -1:
the instruction traps (`Traps`), which is a crash here. Sums wrap. `Beyond` is the
comparison with `len - 1` in unsigned words, which an empty vector turns into the
largest; what is read past the vector's length is a crash too. `obj_null`,
`obj_true` and `obj_false` are outside of the heap and have no count. The caller
is `eval_variable`, which prints a value and gives it back (`Release`).

### Env

The k-th attempt at a template, accepted or not, allocates its name, its text and
its tree: three blocks of memory, and `frees` counts how often each was free'd.
Pointers are numbers of attempts: `templates` is the map, `key` says whose name the
key of each node points to (`hmap_sets` leaves the key of a node it finds),
`child` is the field of that name. What the parser makes of a text is a record of
what it extends and which errors it has. `roscha_env_load_dir` takes a step for
`opendir`, for each entry with its `stat`, and for each `open` with what it reads;
in between, or before a call, others remove files, put a directory in their place
or make them unreadable (`Change`). A read that fails is tried again for ever
(`"spin"`); one that fills the buffer writes the byte behind it, which may crash
or not (`Crash`). Of a render there is what decides which templates it reads its
blocks from: the way along `extends`, and the `child` chain that `get_child_tblock`
follows (`Chain`). Evaluating these may report an error, one at most, since that stops
it, and the text appended so far is returned all the same (`Answer`). `paths` says if the
path of a directory's entry was ever allocated: nothing frees any. The table of keywords
is shared by all environments and survives them: `roscha_deinit` frees it and keeps the
pointer, after which `roscha_init` does nothing, the next word that is parsed is looked up
in freed memory (`Crash`), and a second `roscha_deinit` frees it once more; without a
table, `hmap_free` follows NULL.

`EnvSpec` knows neither memory nor children nor files: a map, the errors, and the
templates that a render of a name goes through.

### Lexer

A text is a sequence of characters, each a string of length one; letters and digits are
sets, so one of each stands for all. `lexer` is `struct lexer` without the text:
`word.start` and `word.end` (offsets from 0), `in_content`, `line`, `column`. `ReadChar`,
`PeekPrev`, `PeekNext` are the functions of the same names, with their guards as they are;
`Skip` is the five loops that read while a character is one of a set, as a recursive
function. `tokens` is the history of what was returned: a token is its type, the offsets
of its literal, and its position. `Space` is what `isspace` takes for space in the C
locale. Reading past the `'\0'` that ends the text is undefined, so a behaviour ends there
(`Inside`).

### Expressions

`Expression` and `Infixes` are `parser_parse_expression` before and in its loop;
the tables of `parser_init` are sets and a function. An outcome is the tree, the
token the parser stands on, the number of errors, and whether a null pointer was
followed. A tree may have the null pointer `NoExpr` in it, as the code's can:
whatever prints or destroys such a tree (`Whole`) crashes. What `expression_string` prints
is not modelled, nor is it an expression of the same tree: it puts no space behind a
prefix operator (`not a` is printed `(nota)`, `ast.c:46-54`) and no quotes around a string
(`ast.c:40-44`). It serves the tests and the text of three messages.

### Parser

The C stack is the variable `stack`: a frame for the template and for each active
`parser_parse_loop`, `parser_parse_branch` and `parser_parse_tblock`. A block
without a body is one action; one with a body is a `Call`, the blocks of the body
as they `Take` place in it, and a `Finish`, or an `Unwind` if one of them is
NULL. Every `malloc` appends to `node` and every `free` adds to `freed`, so that
what was lost can be told from what was destroyed. `cur` is the current token;
the one after it is `peek_token`. Which expressions there are is left to the
constant operator `ParseExpr`: `MCParser` gives it the few outcomes its templates
need, and an assumption that TLC evaluates compares them with `Expressions`. What is
proved about `Parser` is proved for every `ParseExpr` that ends no further than the
end of the template, pushes no more errors than it takes tokens, and takes a name
that stands alone for an expression (`ParseExprAssumption`); that the real one does is
part of `HolesReported` in the run `source`, and the last of it in what `parser_parse_expression`
does in front of a `}` or a `%`, at which its loop stops (`parser.c:148`).

### Source

`Source` extends `Lexer` and has an instance of `Parser` and of `Expressions`: `toks` of the
parser are the tokens of the lexer, seen without their text (`Seen`), and `ParseExpr` is
`Known`, what blocks need to know of the outcome of the whole expression parser. The lexer reads to its end first (`Read`, then `Parse`): the
parser only ever asks it for the next token, so when it asks makes no difference. A
number is the token `"0x"`, which is an error, where `strtol` reads on beyond it (`ReadsOn`):
that is a lone `0` in front of an `x` and a hexadecimal digit, unless those digits are the
last characters of the text, where `*end` is the `'\0'` that `parser_parse_integer` takes for
a good end.

## Runs

| run | shows |
|---|---|
| `objects` | counts are exact, nothing dangles or leaks, destructors end, cycles included, for every sequence of calls on three addresses, one key, vectors of at most two, at most two references per object in the host's hands. Three objects are a container in a container that contains the first: cycles, a last reference held by a dying container, an overwritten value that is the map itself |
| `hmap` | lists, size and iterators are sound, and the map implements `HmapSpec`; two keys collide, a third lies behind an empty bucket, two values, two iterators at once |
| `expr` | see below; over 3 000 expressions: every operator over every pair of fourteen leaves, and over operands that succeed, fail or crash at each place, three levels deep. The host has the least of the integers of four bits, -1 and 2, a vector of two, an empty one, a map and a text; every node of a tree makes at most one new object, and five spare addresses are never used up |
| `render` | see below; 25 sets of templates, two renders of any of three templates, and the host may store, replace and unset variables and take the errors before each; loops over vectors and maps, nested on one item, left by breaks of their own and of an overriding block; blocks that contain themselves through an override; booleans, a vector in a vector, a map and a vector that holds itself, printed |
| `parser` | owners, tokens, tags, blocks by name and acceptance; 22 000 templates: up to four pieces that open, continue, fill and close bodies with larger choices at the end, and each way a header can be incomplete behind and between them; every template comes to an end |
| `source` | see below; 38 256 texts in three families. Characters: all texts of up to three of thirteen, and all continuations by up to four of nine behind an opening brace, by up to three behind a tag on the second line. Expressions behind `{{`: all sequences of up to five of six tokens, of up to four of eight with a number and a dot, of up to four with words and with numbers of several forms; all chains of up to four operators of different precedence, and shorter ones in brackets and in parentheses. Templates: up to three or four pieces, tags of each kind, closed properly, with a space in the closing, or not at all, and what may stand around them or be mistaken for a part of one |
| `env` | see below; two names, three attempts, a template that extends itself or the other, one that extends nothing, one with two errors; a directory with each kind of file, and one change to it; evaluations with and without an error |
| `item_named_loop`, `freed_tblock`, `load_endless`, `token_positions`, `destroy_leaves` | disagreements between code and documentation, see Findings |

The templates of `render` are in `MCRender`: loops over a vector, a map, the
loop variable itself and things that are no sequence; loops nested with the same
item; breaks under a condition, in an inner loop, in an overriding block inside
a loop of the base; errors in a body, in an inner sequence, in a condition;
if/elif/else; three levels of inheritance entered at any level; a missing
parent, an empty template, an extends tag that is not first. Two renders are
what it takes for anything left over (a child, a flag, an error, a variable) to
meet a render that could mind; eight spare addresses are what two nested loops
need after one render lost four objects. `MaxRenders`, `MaxHold`, `MaxLen` are
the only bounds on behaviours; the sets of addresses, keys and templates bound
the data.

The properties of `render`:

* `RefAccounting`: at every step each count is what containers, host,
  environment, the frames on the stack and `lost` own.
* `NoDangling`: what the stack owns or has borrowed is alive, borrowed items of
  a sequence and the unowned outer item included.
* `ScopeRestored`: a render leaves `env->vars` as it found it; only one that adds
  an error may leave `loop` behind.
* `ChainIsExtendsPath`: the `child` chain that decides which block is used is
  exactly the way this render came, although no one clears the fields.
* `BreakConsumed`: one break ends one loop.
* `OutputMatches`: text and failure agree with the recursive meaning in
  `RenderRef`, where scopes are values and need no restoring.

* `OverflowsInCircles`: the stack is exhausted only where a block contains itself, counting
  overrides, or where a value is printed that leads to a container on a cycle.
* `RenderEnds`: every render returns, crashes or overflows.

The properties of `expr`:

* `Balanced`: after every step of an evaluation each count is what containers,
  host, the functions on the stack and the value on its way up own.
* `HostUntouched`: a value comes with one reference of its own, a failure leaves
  the heap as it was, and so does the caller once it has given the value back. No
  integer of the host is computed with in place.
* `MeansWhatItSays`: the value, or the failure, or the crash, is that of the
  recursive meaning in `ExprRef`, where a failure is exactly one message. It says
  nothing of what has no meaning in the language (`"open"`): sums out of range, an
  order of integers of different signs, comparisons of strings and containers
  with anything but themselves.

The properties of `env`:

* `Alive`: nothing is freed twice; the templates in the map, their texts, the names
  that keys point to and the children that renders left are not freed.
* `OnlyReplacedLost`: what is not freed in the end is no more than the templates that were
  replaced and the texts of accepted files: no failure on the way loses what it had
  allocated. That even these stay is the finding of `destroy_leaves`.
* `ResultsTrue`: adding and loading fail if and only if they report errors. A render that
  fails reports that a template is not there; one that returns a text may have reported an
  error of evaluating it, so the text alone does not say that all is well. A directory that
  loads, unchanged meanwhile, is in the map with all of its files.
* `ImplementsPromise`: `Env` implements `EnvSpec`; keys that outlive their template,
  children of earlier renders and failures half way make no difference to what a
  render reads, and a render overflows for templates that extend each other in a
  circle and for no others.

The properties of `source`:

* `EveryCharOnce`: each character that is not a space is in one token, in order, and
  the lexer leaves its text in two named ways only.
* `ContentBetweenTags`: text stands only at the start and right behind a closed
  tag, where `in_content` is turned on by what may come from two different tags.
* `LinesFollow`: the line a token is told, which every message gives, is that of the end of
  the token before, with the exception the code makes (a newline at offset 0).
* `ReadToTheEnd`: every token moves the lexer on.
* `HolesReported`: an expression with a null pointer in it has pushed an error, so
  no accepted template can make the evaluator follow one; and an expression ends inside of
  its template, with no more errors than it took tokens.
* `EveryTokenInTree`: the tree of an expression without errors has all tokens that were
  read, in order, but for parentheses and closing brackets.
* `PrecedenceRespected`: what `tests/parser.c` checks on a list of expressions, for all.
* `TextKept`: each character of an accepted template, read to its end, stands in
  one tag or is printed once; what alone can be lost are spaces behind a tag
  whose two closing characters stand apart.

The properties of `parser`:

* `EveryTokenOnce`: nothing is dropped or repeated on the way from tokens to blocks, and an
  accepted template lost no memory.
* `OwnedOnce`: what calls in progress or the tree lead to is not freed, and leads
  nowhere twice, through all chains of branches.
* `ClosingsMatch`, `AcceptedIffBalanced`: of the templates made of complete tags
  exactly those are accepted whose tags match as brackets do (`Open` is the
  reference); some may stay open. A template is `Tidy` if each of its tags and
  variables is complete, with a name for an expression, and the words of the tags that
  bracket stand nowhere else. A condition right inside another is left out:
  the parser takes it for an alternative of the outer one. What is accepted
  without having been read to its end stopped at a closing tag without its brace.
* `LatestBlocks`: of several blocks of a name, inheritance finds the last to end.

Four or five pieces are enough for the interesting cases: a branch, its
alternative, something in it and two closing tags; a block in a branch of a
branch; a failure under two open tags of different kinds, whose unwinding
differs. The parser keeps no other memory between pieces than its stack and
`tblocks`, for which two names are used.

Three attempts are enough for a template that replaces one another extends, or
that was the child of an earlier render, and for a directory that is loaded over a
template the host added.
`MaxErrors` bounds only what is left standing before a call, `MaxPaths` is more
than there are names, so that the stack overflows for circles only.

`CHECK_DEADLOCK FALSE` is set where the system may stop: a host that has used up
its addresses or its renders, a text or template that was read to its end, or a
crash.

### Fairness

`Objects` and `Render` assume weak fairness of the code's own steps only (the
destructor, the evaluation): they are parts of one C call, which runs once
begun. So do `Parser`, which is one call of `roscha_env_add_template`, and `Source` of
`Read`: the caller of the lexer, the parser's loops, asks for tokens until `TOKEN_EOF`
comes. The
host is not assumed to do anything. `Hmap` assumes that a loop over
an iterator calls `hmap_iter_next` again, which is what `hmap_iter_foreach` is. `Env`
assumes weak fairness of the steps of a load and of those of a render; the
directory need not stop changing for anything but the bound on changes. The
properties of `Expr` are safety properties and need none.

## Proofs

`ObjectsProofs` proves for `Objects`, for every finite set of addresses and keys
and every bound:

* `TypeCorrect`, `FreedIsEmpty`, `CountsAreExact`: `Spec => []TypeOK`, `[]Shape`,
  `[]RefExact`;
* `NeverDangling` and `NeverLeaks`: `Spec => []NoDangling`, `[]NoLeak`.

The inductive invariant is `TypeOK /\ Shape /\ RefExact`. `RefExact` alone is not
inductive: freeing an object removes the references in its cells unless it has
none, which needs the guard of `DestroyObject` and `Shape`; allocating at an
address needs that nothing points at freed memory, which is `RefExact` at count
zero together with `Shape`. `NoDangling` and `NoLeak` follow from the invariant
in each state: a cell that points at an object is in `CellsOf`, so the count is
positive; a count without references of the host comes from a cell, and by
`Shape` its container is allocated. The step from cells to counts is the set
arithmetic of `ObjectHeapProofs`: writing one cell takes the pair out of one set
and into another, so cardinalities change by one. The assumptions are those of
`ObjectHeap` (`HeapAssumption`), which TLC evaluates in every run.

`HmapProofs` proves for `Hmap`, for every finite set of keys, every set of values and of
iterators, every number of buckets and every hash:

* `ListsAreSound`: `Spec => []ChainsSound`;
* `IteratorsAreSound`: `Spec => []IterSound`;
* `PromiseIsKept`: `Spec => KeepsPromise`, the refinement of `HmapSpec`.

`IInv` says that every list is `Good` (its keys belong there and differ), that `size`
counts the places unless `hmap_destroy` is running (`Counted`), that each iterator
in use is `Placed`, and that none is while the map is being destroyed (`Calm`).
`GoodCons`, `GoodSet`, `GoodWithout` and `GoodTail` say what each change of one list
leaves in it, and `Changed` what it does to the number of places. `Stepped` is the
heart of `hmap_iter_next`: a count above zero means a node in front, hence a list
that is not empty at or behind `index`, so the scan ends inside the array, at the
least of these. That a set of numbers has a least member is the one induction, and comes
from the well-foundedness of the natural numbers. For the refinement, `Remapped`
turns a changed list into a changed map, and `PairsAre` says that the nodes at the places
are the pairs of the map, each at one place: hence what an iterator has not
reached is what it has still to yield. `HmapAssumption` asks that keys be finitely
many and that `NULL` be no value, place or set of nodes.

`EnvProofs` proves for `Env`, for every set of names and templates, every directory,
and any number of attempts, errors and changes:

* `NothingFreedInUse`: `Spec => []Alive`;
* `LossIsKnown`: `Spec => []OnlyReplacedLost`;
* `ResultsAreTrue`: `Spec => []ResultsTrue`.

`Alive` is far from inductive: that the name a key points to is not freed depends on
every other block. `IInv` says exactly how often each block was freed, from what
became of its attempt: rejected, accepted, replaced, and whether the environment
was destroyed (`Unmade`, `Texts`, `Templates`). `Entries` and `Latest` say that what the map
has under a name is the last that was accepted under it, from which `Mapped` gets
that `roscha_env_destroy` frees those that were not replaced, each once.
`Children` needs `Stack`: a child is set to a template that the map had, since the
stack of `eval_template` holds no others. For `ResultsTrue`, `Outcome` says that a call
under way has reported nothing yet, so that what it says in the end is all it says, and
`Walked` that each file of a directory
being loaded is still to come, at hand, or in the map. The assumptions are those
of `Env` (`EnvAssumption`), which TLC evaluates in the runs of `MCEnv`.

It also proves `EnvironmentKeepsPromise`, `Spec => ImplementsPromise`, for every
finite set of names. The step that needs an argument is the end of a render.
`EnvSpec` says at once where the names lead; `Env` went from one to the next and left
in `child` the way back. `RInv` says that each template on the stack is what the map
has for its name and extends the next (`OnTheWay`), and that the children lead back
along the stack as long as no template is there twice (`Offspring`). In a render
that ends the names differ: of two that are the same, take the last to be
repeated; the names behind both are the same again, or one of them extends nothing
(`NoRepeat`). So there are no more of them than names (`Fits`), and the stack does not
overflow; if it does, the line of `EnvSpec` is longer than there are names
(`GoesRound`). `EnvSpec`'s line and `Env`'s chain are recursive functions; both are
`Walk`, and `WalkIs` says that a walk goes where each element leads to the next. Its
induction is over a set of numbers, with a least counterexample.

`ExprProofs` proves for `Expr`, for every set of trees that the parser makes, every heap
of the host and every width of integers:

* `CountsBalance`: `Spec => []Balanced`;
* `HostIsUntouched`: `Spec => []HostUntouched`.

`HostSide` of its `IInv` says that on what the host stored nothing but counts
changes, and those by what the C stack holds; that what the evaluator made has no
cells; and that what was freed nobody holds. The last is what lets a new object
take an address: counts alone do not tell whether a function still holds it.
`Control` says which frames there can be and that a call that returned has left
none. `HostAssumption` is that the host's own counts are exact, which is `RefExact` of
`Objects`; `TreeAssumption` says what trees the parser makes. TLC evaluates both.

`RenderProofs` proves for `Render`, for every set of templates, every heap of the host
and any number of renders, with `NoLoopItem`: no loop calls its item `loop`. Without
that the counts are wrong, as the run `item_named_loop` shows.

* `TypeCorrect`: `Spec => []TypeOK`;
* `CountsAreOwners`: `Spec => []RefAccounting`;
* `NothingDangles`: `Spec => []NoDangling`;
* `VarsAreRestored`: `Spec => []ScopeRestored`;
* `ChildrenAreThePath`: `Spec => []ChainIsExtendsPath`.

Its `IInv` has a part for each thing that could go wrong. `Control` says what a frame
of `eval_loop` holds at each of its places (`Sound`), that the item of the top one is
out of `env->vars` between two bodies (`Bound`), that all frames but the top one wait
for the one they called (`Resting`), and that a failure lets no frame begin anything
(`Finishing`). `Books` is the accounting: counts are exact, freed memory is empty,
`env->vars` is in no container. `Scopes` is the reason why variables come back: the
frames are links of a chain of values of `env->vars`, from what it is now to what it
was at `start`, each undoing what its loop has bound. `Trail` ties `child` to `path`.

It also proves `BreakEndsALoop`, `Spec => []BreakConsumed`, with `BreaksInLoops`: what can
be evaluated outside of loops, overriding blocks included, holds no break. A break
is set where some loop is on the stack (`Breaking`), below which the frames hold
only what may stand outside of loops (`Unlooped`). `BreaksInLoops` takes any block of a
name for one that may override, which is more than a render can reach; TLC checks
it of all templates of the run (`Reached` in `MCRender`).

`ParserProofs` proves, for every set of templates and every `ParseExpr` with
`ParseExprAssumption`:

* `TreeOwnedOnce`: `Spec => []OwnedOnce`;
* `TreeHasTokens`: `Spec => []EveryTokenOnce`;
* `TreeClosed`: `Spec => []ClosingsMatch`;
* `TreeNamed`: `Spec => []LatestBlocks`;
* `AcceptsBalanced`: `Spec => []AcceptedIffBalanced`.

What `OwnedOnce` says of the top of the C stack is not enough: an `Unwind` frees what
is below a block, and the calls underneath still hold theirs. `Owned`, the heart of its
`IInv`, is about all that was not freed: it leads to nothing freed, each node has one
parent at most, and the roots (the template, the blocks of the calls in progress, and
the one being returned) have none. Then what is freed with a root is reached from
nowhere else. There are four kinds of change, a lemma each: new nodes (`GrowOwned`), a
block pushed to a body (`PushOwned`), branches that go from one condition to another
(`AdoptOwned`), and a root freed with all below it (`ReleaseOwned`). `Frames` says which
block and which body each call holds, and `Upward` that what a node leads to is newer:
so `Below` is a recursive function with one value, the least set that is closed under
children (`TreeIs`, by a greatest counterexample). A case of `parser_parse_block` ends in
one of four ways (`Making`, `Failing`, `Calling`, `Crash`), and each keeps `IInv`.

The next three speak of a template that was read to its end. Their invariant `TInv` says
of the part that was read what they say of all (`Track`), as long as nothing failed.
Nodes are allocated in the order of their tokens (`InOrder`) and leave none out
(`Covered`); what is below a node was allocated without a break (`Nested`), so the
calls in progress divide all that is alive between them (`Regions`), and at the end
the template has all of it. The bodies being read have no closing tag yet
(`OpenBodies`), those that are not have one, an alternative, or the last token
(`AllEnded`); and of two blocks of a name that have ended, `tblocks` has the one that is
around the other or behind it (`Latest`). Two kinds of step change the tree: a block is
made or a body begins (the lemmas `Grow...`), and what came back joins the body it
came back to (`Join...`).

`AcceptsBalanced` compares the parser with a reader of brackets, who has no tree, no
lookahead and no calls: `Open` is a fold over the tokens that pushes the tags that open,
pops those that close, and keeps `Mismatch` once something did not fit. The parser has
two memories where the reader has one, the calls in progress and the chain of branches
inside of a condition, and fails in a dozen places. The invariant `BInv` is about `Tidy`
templates without a condition right inside of another (`Lawful`). As long as nothing
failed, no error was pushed, the parser stands in front of content, of a variable or of
a tag (`AtBody`) or at the end of one (`AtReturn`), and the calls on the stack stand for
what the reader has open there (`Fits`), the calls for alternatives in one chain all for
the `if` the chain began with. Once a call fails, an error was pushed, and the reader
has found a mismatch, which stays one to the end of the template (`MismatchStays`). For
each way through the parser one lemma says that no guard but that of the reader can fail
(`...Goes`); that every other token is where it should be follows from `Tidy`, and that
the expression in a tag is whole from `ParseExprAssumption`. `FitsCall` and `FitsReturn`
keep the two stacks together. That what was accepted was read to its end or to a closing
tag without its brace, which is said of all templates, is an invariant of its own
(`Halted`): a failure that pushes no error can only begin in `Closing`, and what unwinds
it pushes none and reads nothing.

The assumptions are `SourceAssumption`, that no token is both a name and the end and
none of a template is its end, and `ParseExprAssumption`, of whose parts only
`AcceptsBalanced` needs the one about a name that stands alone; TLC evaluates both in the
runs of `MCParser`.

`LexerProofs` proves for `Lexer`, for every set of texts, of any length, and every table of
keywords:

* `TextCutOnce`: `Spec => []EveryCharOnce`;
* `ContentInTurn`: `Spec => []ContentBetweenTags`;
* `LinesAreTrue`: `Spec => []LinesFollow`;
* `ColumnsAreBehind`: the lexer's column is that of its character, less the symbols of two
  characters before it on its line. That is what the code does, not what its test states.

Its `Inv` adds to these what holds between two calls: the lexer stands right
behind its last token (`InTurn`), which tells by its type and by the character it ends
in what `in_content` is; and line and column are those of the text, less the pairs
(`Stands`), and each token has been told those of the end of the one before it (`Told`). `InTurn` is why `PeekPrev` may look at a character where a tag is closed by
two adjacent tokens: a token that ends in a brace or a percent sign is one of these,
unless it is content, and behind content there is no closing brace. That the first
character is missed does not matter, since no tag is closed there. `Skip` is a
recursive function: `RunsExists` says that there is one, since each character that is
read leaves fewer before the end of the text, and `SkipStops` that what a read does
not end, all of `Skip` does not. Each way through `lexer_next_token` is shown to be a cut (`Cuts`),
and a cut to keep `Inv`. `LexerAssumption` asks that letters, digits, spaces and braces
differ, that a text has no NUL in it, and that the table of keywords has no type of a
brace, of a pair, of content or of the end, as the one in `token.c` has none; TLC
evaluates it in the run `source`.

Only model-checked: everything that needs `Expressions` (`HolesReported`,
`EveryTokenInTree`, `PrecedenceRespected`, `TextKept`); of
`Render`, `OverflowsInCircles`, which depends on how deep a stack the other templates
need; `OutputMatches` and `MeansWhatItSays`, whose references
`RenderRef` and `ExprRef` are recursive operators, which cannot be used in a proof; and
all liveness properties.
What a tree or a sequence is by recursion, of any depth, cannot be proved
anything about by induction here: `Expressions` is recursive throughout.

## Findings

Each is shown by a run whose property states what the documentation or a test says:

1. An item named `loop` in a nested loop frees an object that stays in
   `env->vars` (`item_named_loop`).
2. A closing tag without its last brace is no error; if it stood in a condition
   with a block in it, the accepted template's `tblocks` leads to a block that was
   freed (`freed_tblock`).
3. Loading a directory with a file that cannot be read never returns: the -1 of
   `read` is kept in a `size_t` (`load_endless`).
4. Tokens are not where they are said to be: the position is taken before spaces are
   skipped (`lexer.c:142`, 156), and a symbol of two characters takes one column (161). The
   table in `tests/lexer.c` has the positions of first characters (`EXTENDS` at 1,4 behind
   a space, 42; `RBRACE` at 19,13 behind `<=`, 178), but for a few that are off (`FALSE` at
   5,12, 68); the test compares types and literals only (`token_positions`).
5. `roscha_env_destroy` frees "all memory associated with the environment, including parsed
   templates" (`roscha.h:49`), but not those that were replaced, nor the texts of the files
   it accepted, nor the path of any entry of a directory (`destroy_leaves`).

Met while modelling, and part of the models, where the passing properties name
them as their exceptions:

* `child` is "NULL'ed after evaluation" according to `ast.h`, and never is. Renders
  are not affected (`ChainIsExtendsPath`, `ImplementsPromise`), and what it points to
  is not freed (`Alive`).
* A `for` whose sequence fails to evaluate loses its locals and leaves `loop` in
  the host's variables: the ghost `lost`, and the exception in `ScopeRestored`.
* An `if` right inside the body of an `if` is taken for its alternative.
* Freeing a template when it is replaced would not do: the node's key is its name
  (`Alive`).
* Once `roscha_deinit` was called, `roscha_init` leaves the freed table in place, and a
  second `roscha_deinit` frees it again.
* A render returns a text even where evaluating it reported an error (`ResultsTrue`).
* A container that holds itself is printed until the stack ends (`object.c:40`, 57). A
  boolean is appended to a text that may have moved (`object.c:29`).
* A file that fills the buffer of `roscha_env_load_dir` is written one byte past it;
  a read that fails, one byte before it.
* Spaces behind a tag whose closing characters stand apart are not printed.
* Comparisons read the union's boolean member: a negative integer is larger than
  all that are not, and strings and containers are compared by address. An index
  into an empty vector passes the check of bounds, and so does the type of an
  index that failed to evaluate; a division by zero traps.
* A `break` outside a loop is accepted by the parser and cuts the next render
  short after its first block: `OutputMatches` and `BreakConsumed` speak of
  renders that start with the flag clear.
* A condition that fails to evaluate (`roscha.c:316`) and the first block of an
  empty template (488) are read without a check; a missing or incomplete
  expression is followed by the parser (`parser.c:264`, 280, 295) and by what
  destroys a block (`ast.c:233`). All of these lead to a mode `"crashed"`.
* A string without an end and spaces at the end of a template inside of a tag
  take the lexer behind its text: `Strayed` in `EveryCharOnce`.
* A newline that is the first character of a template is not counted (`LinesFollow`).

`Render` runs on trees of templates that were accepted and read to their end, and
has no condition right inside another.

## Not modelled

Slices and strings are pure functions. `sds` is a git submodule whose sources are
not here. Vector growth, allocation failure and the reads of `vector_foreach` one
past the last element are below the model's level. Printing of trees (`ast.c`) is text
only. `hmap_walk` changes nothing, and nothing calls it. Left out of `Env` are what a
failing read appends to the text, NUL bytes in a file, and a host that frees a text whose
template is in use. In
`Lexer` characters outside ASCII, for which `isspace` and `isdigit` of a negative
`char` are undefined, do not occur. Which value `strtol` makes of a number is
left to the values in `Expr`'s trees.

## Plan

Done: objects, hash map, lexer, expression parser, block parser, their composition,
the evaluator of expressions and of blocks, the environment; the proofs about
objects, the hash map and the environment with their refinements, about what
the evaluators do to counts and variables, about the tokens the lexer cuts and about
the trees the parser makes.
