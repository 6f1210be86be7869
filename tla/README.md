# A verification development for jsregexp

jsregexp gives Lua the regular expressions of JavaScript. It consists of

* a Lua module (`src/jsregexp.lua`) with the methods of JavaScript's `RegExp`,
* a C binding (`src/jsregexp.c`) that keeps RegExp objects and subject strings and translates positions,
* the engine `src/libregexp/`, which compiles a pattern to bytecode and runs it by backtracking.

This directory models the parts in which a mistake would be hard to find by testing: the loops of the Lua methods
over the shared `last_index`, the translation between bytes and UTF-16 units, the names of groups on their way from
the compiler to the match object, the reading of a character class with its strings, the algebra of character sets,
case folding over the generated tables, the code generator, the interpreter with its single capture array and undo
stack, and the lookup of a character in a class.
TLC checks the models on small instances; TLAPS proves the safety of the binding, of the interpreter, of the algebra of
character sets and of the lookup for every value of the constants.

## Running the checks

In this directory, `tlc -config X.cfg M` runs the model checker on a module `M` named `MC...` and
`tlapm M.tla` checks the proofs of a module `M` named `..._proofs`. PROJECT.json lists the runs, for every modelled
definition the source lines it stands for, and for every property a small change of the model (a *mutant*, in the
modules under names such as `PieceEnded_All`) that the property detects.

## Inventory

| Component | State it keeps | Operations | Where it is hard | What makes it correct |
|---|---|---|---|---|
| Lua methods (`jsregexp.lua`) | locals of the loops; closures of `match_all` with a private RegExp | `match`, `match_all`, `match_all_list`, `search`, `split`, `replace`, `replace_all` | every loop is driven by `last_index`, which is shared with user code: replacement functions, other coroutines, the code between two calls of a closure | results of the JavaScript reference; every loop ends |
| RegExp object (`jsregexp.c`) | bytecode, `last_index` | `compile`, `exec`, `test`, assignment of `last_index` | byte positions against unit positions; two early exits that reset `last_index`; errors after it was stored | positions at boundaries of characters; a match is the engine's match |
| Subject string (`jsregexp.c`) | text as bytes or UTF-16, tables `indices` and `rev_indices` | `jsstring_new` | two tables filled at different strides in one loop; surrogate pairs; malformed input half-way | the tables are inverse and monotone; nothing is written past them |
| Match object (`jsregexp.c`) | a Lua table | built by `exec` | a walk over the names of the groups; groups that took no part | names, contents and indices belong together |
| Pattern compiler (`libregexp.c`) | bytecode buffer, counters of groups and registers | `lre_compile` | code inserted in front of code with relative jumps; predictions that leave checks and resets out; register allocation by one linear pass | the program accepts what the pattern means; every register is stored before it is read |
| Bytecode interpreter (`libregexp.c`) | `pc`, `cptr`, `capture[]`, one stack of undo entries and saved states, `bp` | `lre_exec` | backtracking restores a shared array; assertions drop saved states but keep undo entries; growth of the stack | every saved state is resumed with its captures; the stack never overflows; it ends |
| Class lookup (`libregexp.c`) | two indices | `re_emit_range`, `REOP_range`, `REOP_range32` | unsigned arithmetic at 0; `0xffff` with two meanings | exact membership, no read outside of the table |
| CharRange algebra (`libunicode.c`, `libunicode.h`) | an array of points with its room | `cr_op`, `cr_op1`, `cr_invert`, `cr_compress`, `cr_add_interval`, `cr_union_interval`, `cr_copy` | a merge whose output depends on parities; compression in place; memory | the set is that of the operation; points in order |
| Class sets and string lists (`libregexp.c`) | hash table of strings; one frame per nested class | `re_parse_nested_class`, `get_class_atom`, `re_string_list_op`, `re_string_list_canonicalize`, `re_emit_string_list` | rehashing; which operator may follow which operand; folding before or after inversion; jumps to an end not yet known | the class denotes what its text says, longest string first |
| Case conversion and Unicode data (`libunicode.c`, `libunicode-table.h`) | generated tables; in `cr_regexp_canonicalize` a growing list of intervals | `lre_case_conv`, `lre_canonicalize`, `unicode_case1`, `cr_regexp_canonicalize`, `lre_is_cased`, `lre_is_id_start`, ... | one fact written twice, as masks and as cases; an index into packed run lengths | a folded set is the set of the folded characters; the index agrees with the runs |
| Sorting (`cutils.c`) | a stack of segments, a partition in three | `rqsort` | the stack has no check; block swaps; the way to heapsort | sorted, a permutation, the stack in its bounds |
| Buffers, UTF-8 codec (`cutils.c`) | DynBuf | append, decode, encode | growth, an error kept in a flag | nothing is written outside |

A pattern's character class passes through four of these: the parser makes lists of strings and sets (class sets), each
operator of a set is a merge of two arrays of points (CharRange), the `i` flag folds the set over the generated tables
and sorts the result (case conversion, sorting), and what comes out is written into the bytecode and looked up by
halving (class lookup).

How they interact: a Lua method calls `exec` in a loop. `exec` turns `last_index` (a byte) into a unit with
`rev_indices`, calls `lre_exec` on the subject, and turns the answer back with `indices`. Lua runs one coroutine at a
time, so everything is atomic between two points at which user code is in control. The only such points inside a
method are the call of a replacement function and, for `match_all`, the time between two calls of its closure. The
engine is sequential; its difficulty is in data that many ways through a program share.

## Modules

Arrows go from a module to the one it uses; `INSTANCE` and comparison are named.

```
binding     MCJsRegExp --> JsRegExp --> RegExpExec, JsReference (compared with)      JsRegExp_proofs --> JsRegExp
                              |    +--> JsString <-- JsStringNew --> Utf8ToUtf16
                              |    MCUtf8ToUtf16, Utf8ToUtf16_proofs --> JsStringNew
                              +-- refines --> GlobalScan
            MCMatchObject --> MatchObject --> GroupNames          MatchObject_proofs --> MatchObject

engine      MCBacktrack --> Backtrack --> ReOpcodes <-- BacktrackSearch (Backtrack refines it)
                 |              ^-- Backtrack_proofs
                 +--> ReCompile, ReSemantics (compared with)

classes     MCCharClass --> CharClass --> CharRange --> CodePoints     CharClass_proofs --> CharClass
                                |--> RangeMatch --> CodePoints
            MCClassSet --> ClassSet --> StringList
                 +--> CaseConv --> CaseTables
            MCUnicode --> CanonClass --> CodePoints, Rqsort, CaseConv  Rqsort_proofs --> Rqsort
                 |                                                     Canon_proofs --> CanonClass, Rqsort_proofs
                 +--> CharProps --> CaseConv, PropTables               CharProps_proofs --> CharProps, Canon_proofs
```

### The binding

**`Utf8ToUtf16`** is `jsstring_new` with the loop of `utf8_to_utf16`. `p` and `q` are the positions in the bytes and
the units, `indices` and `rev` the two tables, and one action is one turn of the loop (`DecodeBmp`, `DecodePair`,
`Malformed`). A character is abstracted to the width of its encoding. **`JsStringNew`** says what the loop is given for
a text and compares its result with **`JsString`**, a closed form of the userdata from which the other modules start.

**`RegExpExec`** is `regexp_exec`. The body of a pattern is abstracted to the function `ends`, which says for each
unit whether the pattern matches there and where that match ends; `IsMatchAt` adds what the search prefix and the
`y` flag do with it. `TranslateLastIndex` is the loop that moves an index to the next character and translates it.
`Exec` keeps the order of the early exits and of the assignments of `last_index`. `ok` is FALSE when the translated
end lies before the translated start, in which case pushing the match fails.

**`JsRegExp`** composes the object with the Lua methods. A *thread* is an activation of a method, a coroutine with a
`match_all` closure, or a replacement function's caller; `running` is the thread in control. Each turn of a method's
loop is a step (`MatchStep`, `ListStep`, `SplitStep`, `ReplaceAllStep`); `SetLastIndex` and `ExecCall` are user code
and happen only while user code is in control. `split` and `match_all` work on a private copy with its own `li2`.
`Raises` is an error of the engine (out of memory) or of the replacement function.

**`JsReference`** is what the JavaScript reference says of a global scan (`ScanFrom`) and of `split` (`PiecesFrom`), on
the same `ends`, as recursive functions of the unit they are at; **`GlobalScan`** is the same scan as a state machine in
units, without `last_index`. The refinement mapping (`ScanPhase`, `ScanPos`, `ScanOut`) is at the end of `JsRegExp`: it
takes a thread that iterates with `match_all` to the scan and translates the bytes of its private copy to units.

**`GroupNames`** and **`MatchObject`** follow the names of groups through both halves of the program. `GroupNames` is
the part of the parser that touches `group_names`: a pattern is the sequence of its opening parentheses, bars and
`\k<name>`, and the buffer is kept byte by byte, because the walk over it is what may go wrong. `DuplicateName`,
`OpenGroup`, `NextAlternative`, `Reference` and `UndefinedName` read one token each; `Compiled` is the end of
`lre_compile`. `MatchObject` extends it with the end of `regexp_exec`: `StartExec` fetches the names, `PushGroup` is one
turn of the loop over the groups with the pointer `name_at`. The tables lie on the stack of Lua and are addressed by
their distance from its top, which differs with the flag d and with names: `stack` is that stack, `Prepared` the calls
(`createtable`, `pushvalue`, `setfield`, `insert`) that lay the tables below the match, `fields` which table is a field
of which, `entries` and `named` their contents, and `TableAt(k, values)` the table at place `k` under what one turn has
pushed. A value is abstracted to the number of the group it
comes from. `Undefined` is a step with any outcome, where the code computes with a null pointer or reads names that
were never written.

### The engine

**`ReOpcodes`** gives the effect of every instruction on `pc`, `cptr` and `capture[]` as a value (go on, branch, fail,
end an assertion, write slots); what it means for a program to be well formed is `JobOK`: jumps stay in the program,
slots and registers exist, and lookaheads are nested (`NestingOK`: only the start and the end of a lookahead lead into
it and out of it, which holds of what `re_parse_term` emits because the inside of a lookahead is one disjunction, and
its jumps are all inside). The opcodes that differ only in their encoding (8, 16 and 32 bit characters, with and
without case) are one instruction with a parameter. It is used by two machines:

**`Backtrack`** is `lre_exec_backtrack`: one capture array, one stack of *undo entries* (two words) and *saved states*
(three words), `bp` as the index of the last saved state with links to the ones below. `Continue` and `TakeBranch` run
an instruction with its `CHECK_STACK_SPACE`; `UndoTop` and `Resume` are the loop at `no_match`, `PopNegative` and
`PopLookahead` the ones that close assertions; `OutOfMemory` is a failed reallocation.

**`BacktrackSearch`** is what the interpreter promises: a depth-first search in which every way not taken has its own
copy of the captures.

**`ReCompile`** is the code generator from a syntax tree: `Term`, `Quantifier` with all its forms, `Alternative`
(with the reversed order in lookbehinds), `Disjunction`, the two predictions `NeedCheckAdv` and `NeedCaptureInit`,
the register allocation and the prologue that searches for a start. The listings it gives for the patterns of
`MCBacktrack` agree instruction by instruction with those `lre_compile` prints when built with `DUMP_REOP`.

**`ReSemantics`** is the reference for patterns: the ordered list of results of each term as ECMAScript defines it,
on the same trees and independent of any bytecode.

### Character classes

**`CodePoints`** says what the points of a `CharRange` stand for: half-open intervals, the last of which may have no
end. A point is an index of a half-open interval as in the code, so empty and touching intervals are representable.

**`CharRange`** is the code that works on the points. `CallOp` is `cr_op1` (and, with a one-interval operand,
`cr_union_interval`): `cr` becomes `a`, and `TakeA`, `TakeB` and `TakeBoth` are one turn of the merge, which puts a
point out when the operation changes its answer (`AddPoint`). `SkipEmpty`, `StartInterval`, `JoinNext` and
`CopyInterval` are the two nested loops of `cr_compress`, in place; `Invert`, `AddInterval` and `Copy` the other calls.
Every `cr_realloc` may fail (`OutOfMemory`);
the set is then given up, as all callers do.

**`RangeMatch`** is `re_emit_range` with the halving search that reads its table, and **`CharClass`** composes the two:
any sequence of calls, the writing, the lookup.

**`StringList`** is `REStringList`: the characters, and a hash table of chains for the strings. The order of the chains
and of the rehashing is kept, because the order of a list is that of its table. **`ClassSet`** is the parser of a class.
Its recursion over nested classes is a stack of frames; one action reads one atom, operator or bracket (`ReadAtom`,
`Open`, `OpenUnion`, `AtOperator`, `OpenOperand`, `NoOperator`, `Close`), with the fallbacks that apply without the u
flag, and `EmitClass` writes the bytecode of the result, instructions with their jumps, which `Ends` runs. The text is a
sequence of tokens: a letter, an escape with its letters, a bracket.

**`CaseTables`** and **`PropTables`** are the generated tables themselves, unpacked but complete. **`CaseConv`** reads
the first as `lre_case_conv`, `lre_canonicalize` and `unicode_case1` do; **`CanonClass`** is `cr_regexp_canonicalize`,
one action per character folded, with the list of intervals that may fail to grow, the sort (**`Rqsort`**, one action
per pop, choice of a pivot, turn of the partition, pass of the insertion sort or of the heap) and the removal of overlaps.
**`CharProps`** is the lookup in the packed run lengths: the halving search of the index, then byte after byte.

## What the runs check

| Run | Bounds | Shows |
|---|---|---|
| `utf8_tables` | all texts of up to 4 characters of 1 to 4 bytes, malformed at any place (4088 states) | the tables are mutually inverse (`TablesInverse`), monotone (`IndicesIncrease`), and equal, with their allocation of one entry per byte, the closed form of the other modules, so that nothing half-converted becomes a subject (`MatchesJsString`); the loop ends (`Converts`) |
| `methods` | one caller; subjects: empty, ASCII, two-byte, with a pair, *every* aligned pattern function on them; `split` and the replacements also on three-character subjects with 3-byte characters, without empty matches; patterns that see the two units of a pair separately and consume text; flags g and y; user assignments of 0, 1, 3, 4 | whatever was in `last_index` before: `match` lists the matches of the reference (`MatchListsAll`), `search` finds the first (`SearchFindsFirst`), `split`, `replace` and `replace_all` cut and replace as the reference (`SplitsAsReference`, `ReplacesAll`); also when the replacement function moves `last_index`, only matches are replaced and none is left out in front of one that is (`ReplacesOnlyMatches`); and all of them end (`MethodsEnd`) |
| `iterators` | 2 threads with `match` and `match_all` on one object, a subject with a pair | the closure of `match_all` refines `GlobalScan` whatever the other thread and the user do to the object (`IteratorScans`) |
| `match_objects` | all sequences of up to 5 groups, bars and references over no name and two names, one the beginning of the other (with the u flag and the flag n, up to 2); 4 as the number of groups that is too many | names are found again as recorded (`LookupExact`), two groups of one name are separated by a bar (`OneNamePerScope`), references get existing groups of their name (`ReferencesNamed`); the walk of `exec` stays inside the names (`InsideNames`); with and without d and names, what is returned has `indices` and `groups` exactly then, all groups by number in both tables, and in `groups` and `indices.groups` the same names for the same groups (`IndicesAgree`) |
| `vm_results` | 224 patterns with quantifiers and 32 with assertions on the strings over {a, b} of length up to 3 (with quantifiers, those of length 3 begin with a); 7 on all strings of a, a high and a low surrogate, from every start (of length up to 2 with the flag y); 6 with all combinations of i, m with s, and u on the strings of a, A and a line end of length up to 3 (up to 2 with u) | the compiled program ends (`Ends`) with the reference's match and captures (`ResultIsReference`); the stack is a linked chain (`FramesLinked`) within its allocation (`StackFits`); registers are stored before they are read (`RegistersStored`); assertions are closed (`AssertionsClosed`) |
| `vm_shared` | 4 patterns in which loops, assertions and captures meet | `Backtrack` refines `BacktrackSearch` (`CopiesCaptures`); every saved state keeps standing for the captures it was saved with (`RestoresCaptures`) |
| `char_classes` | operands: every pair of points over 0, 3, 0xffff, 0x10000 and the largest value and every two intervals over three of them, touching and empty ones included; any sequence of calls while the set has at most 4 points; any realloc fails; and all classes of 1 to 3 intervals over 8 points, some of 4 and 5 | each call gives the set of its operation (`RangeOpExact`) and leaves the points in order at every call, also after one that failed (`ReadyForLookup`); the lookup in what is written is membership (`FoundIffMember`), stays in the table (`InBounds`) and answers (`Answers_Eventually`); from the operation to the lookup nothing is lost (`MatchesDenoted`) |
| `unicode` | the real tables; 13 sets that touch every type of run, with and without u, and at most one failed allocation; all arrays of 2, 3, 5 and 7 elements of 3 or 4 sizes; all characters around an index entry or the end of a run of the tables, and a sample between | a set is canonicalized to the canonical forms of its characters, except for what a failed append drops (`CanonExact`); arrays are sorted and the stack of segments stays in its bounds (`SortCorrect`); the index gives what adding up all runs gives (`IndexAgrees`); the characters that masks of run types select are those a conversion changes (`CaseSetExact`) |
| `class_sets` | 2 and 3 operands over 8 leaves (characters, sets, intervals, lists of strings with the empty one) with all operators and wrong mixtures of them, nested up to three deep, inverted, with and without i (v flag); 18 odd tokens, intervals included, at the second place with u, v or neither | strings stay in the chain where they are looked up (`StringsInPlace`); a class is refused iff ECMAScript does not allow its text, apart from three known disagreements, named below, and otherwise denotes what ClassContents denote (`ClassDenotes`); its bytecode tries the longest string first and each once (`LongestFirst`) |

The bounds are small but not accidental. A subject needs one narrow, one multi-byte and one astral character next to
each other for each case of the translation; three characters let a match begin, end and be followed by another one.
As `ends` is an arbitrary function, the runs of the binding hold for all patterns on these subjects. Three characters
over two letters suffice for a loop to run, to backtrack by one turn and to be left; the families of atoms contain, for
each of the two predictions of the compiler, atoms on both sides of it. `StaticWords` is 4 instead of 1024 so that the
stack grows several times in every run. Three constants of the code are scaled the same way: the hash of a string has
5 bits and the first table 2 chains (32 and 16 in the code), so that lists of three strings already grow, collide and
move; `rqsort` sorts by insertion up to 3 elements and turns to heapsort after 2 partitions (6 and 50), so that arrays
of 7 take each of its ways. No property depends on these numbers. In `char_classes` the largest `uint32_t` is
2^31 - 1, because TLC counts with 32 bits; nothing but being larger than every character is used of it.

### Disagreements between the code and its documentation

Three runs stop at a counterexample, each to a sentence of the documentation.

* `replace_empty`: nothing steps over an empty match in `replace_all`, so it never returns. `split` has the same loop.
* `groups_named`: the compiler writes a name and *two* bytes per group, the walk of `exec` advances by the name and
  *one* byte. From the second group on it lags behind, so `m.groups` misses names or gives them to another group.
* `class_lookbehind`: in a look-behind one step back is written around a whole class, although its strings may be
  longer than one character; `(?<=[\q{ab}])c` with the v flag does not match `abc`.

Others have no run of their own.

* `indices` has no entry for the second unit of a surrogate pair (the comment at `jsregexp.c:86` promises one for each
  unit). A pattern without the u flag can match between the two; the position becomes byte 0, `last_index` goes back to
  the start, and `match` lists the same match again. With an empty match it does so for ever, which is why `methods`
  gives such patterns only matches that consume text, and states results for `Aligned` patterns.
* A replacement function runs between two calls of `exec` on the same object; if it uses that object, matches are
  skipped. JavaScript collects the matches first. `ReplacesAll` asks that `last_index` is what it was whenever the function
  returns (`alone`); using the object in between is allowed. What holds of such a function too is `ReplacesOnlyMatches`:
  a match may be skipped or replaced twice, but what is replaced is a match, and the text kept in front of it hides none.
* `split` never increments `count`, so a limit other than 0 has no effect (`jsregexp.lua:91`, `README.md:71`).
* The flag `n` sets the bit that says names follow the bytecode even if none do (`jsregexp.c:564`); `HasNames` and
  `Undefined` model what follows. Groups that took no part have NULL in `capture[]`, and `jsregexp.c:402` looks the
  distance from it up in the tables of a wide subject; `Undefined` has any outcome there too.
* `\k<name>` gets the groups of that name before it, or, if there are none, all of them (`libregexp.c:2066-2078`);
  the comment at line 2082 speaks of all in both cases. They differ when the same name follows in another alternative.
* `capture[]` at `jsregexp.c:285` has room for the groups, but `lre_exec` also keeps registers in it
  (`lre_get_alloc_count`); the model gives it as many slots as are counted.
* Three kinds of class are allowed or refused otherwise than in ECMAScript. `ClassDenotes` tests the rules of ECMAScript
  (`Allowed`), with each of these as an exception by name:
  - `NegatesNoString`: a class must not be negated if by its text it may contain strings; the code looks at the
    strings it does contain, and so accepts more (`libregexp.c:1521` says so), e.g. `[^\q{ab}&&\q{cd}]`.
  - `QuotesMinus`: `\-` is an escape of a class with the v flag; the code refuses it inside of `\q{}`
    (`libregexp.c:1101-1103`).
  - `HasPair`: without the u flag a character beyond the BMP is two characters of a class; the code refuses it
    (`libregexp.c:1211-1212`, with a comment that it should not).
* `cr_regexp_canonicalize` ignores the result of `cr_add_interval` (`libunicode.c:712`): an interval that gets no memory
  is missing without an error. `CanonExact` allows exactly this. `seq_prop_cb` (`libregexp.c:863`) ignores one as well.

## Fairness and deadlock

`FairSpec` of `JsRegExp` assumes weak fairness of `Step(t)` and of `CallbackReturns(t)`, for each thread. The first is
the Lua interpreter, which keeps running the function in control; the second says that a replacement function returns
or raises. No fairness is assumed of user code: nobody has to call anything. The other specifications are sequential
programs, for which weak fairness of `Next` only says that they keep running; `ClassSpec` of `CharClass` assumes it of
the lookup alone, since no caller has to make or write a class. Runs that may stop (`CHECK_DEADLOCK FALSE`) are those
where a string has been converted, a match object built, a class read or refused, an array sorted, or where user code
need not do anything; the machines of the engine have an explicit step after the end instead.

## What is proved

All proofs hold for every value of the constants that the named assumptions admit; TLC evaluates the assumptions in
every run.

* **`Utf8ToUtf16_proofs`**: `TypeCorrect`, `TablesAreInverse`, `TranslationIsMonotone`, for strings of any length
  (assumption on `Inputs`: the widths describe a string). `TablesInverse` is not inductive: it says nothing before the
  end. The inductive invariant says which part of each table is final: entries below `p` and `q` are as they will stay
  and inverse (`Stored`), entries above are still 0 (`Untouched`), so that a turn of the loop cannot meet an entry it
  would overwrite. The other two are about what the tables are, for every text, of which some bytes may be malformed
  (`TextsAssumption`). `UserdataIsRight`: the closed form of the userdata is `JsStringOK`, which `JsRegExp_proofs` assumes
  of its subjects. `ConversionIsRight` (`MatchesJsString`): the loop makes exactly this userdata. The invariant `TextInv`
  counts characters, which the loop does not: it stands at the start of a character, and what is stored is the starts of
  those before it (`UpTo`). Together they take what is proved of the methods back to the bytes Lua passes in.
* **`JsRegExp_proofs`**: `TypeCorrect` (`TypeOK`), `MatchIsComplete` (`MatchListsAll`), `SearchIsFirst`
  (`SearchFindsFirst`), `IteratorsScan` (`IteratorScans`), `EachIteratorScans`,
  `ReplaceIsWhole` (`ReplacesAll`), `ReplacementsAreMatches` (`ReplacesOnlyMatches`), `SplitIsExact`
  (`SplitsAsReference`): every safety property of the methods, for all subjects, patterns, flags, threads and
  assignments to `last_index`. The assumptions are `InputsAssumption` (`JsStringOK`:
  the tables of the subject are monotone and inverse, as the theorems about `Utf8ToUtf16` say; `RegExpOK`: a match ends
  in the subject) and `IndicesAssumption`. The properties themselves ask for `Aligned` patterns, for the reason given
  above. The argument has three layers.
  First, bytes and units: `exec` from a `last_index` finds exactly the next match of the reference from the unit it
  stands for (`ExecIsNext`), and one byte further stands for the next character (`GoesOn`, `NextByte`).
  Second, the lists of the reference, which are recursive functions chosen by `CHOOSE`. That `ScanFrom` and `PiecesFrom`
  satisfy their equations (`ScanEquation`, `PiecesEquation`) needs a function that does; it is built from the end of the subject
  downwards (`ListsDown`, `CutsDown`, with `Descent` instead of an induction scheme).
  Third, one invariant for each loop, on top of the types and of who is in control (`JInv`): what was collected followed
  by what the reference has from here on is what it has of the whole subject (`MInv` for `match` and `search`; `CutUpTo`
  in `SInv` for `split`; `Covers` in `PInv` for `replace_all`, which at an empty match is `Stuck` and never finishes).
  A replacement function that moves `last_index` destroys this; `OInv` is what remains, of each piece by itself:
  whatever `exec` starts from, it answers with the first match from there, so none begins in the text skipped (`BeforeStart`).
  For `match_all` the refinement is proved step by step: the call of a closure is a step of `GlobalScan`, everything
  else, by any thread or the user, is a stutter (`Scans`); `IterInv` says that what it has collected are spans between
  boundaries, so that translating them back is exact.
* **`CharClass_proofs`**, the sets: `RangesExact` (`RangeOpExact`) and `RangesReady` (`ReadyForLookup`): for all operands of any
  length, all characters and all failures of memory, each call gives the set of its operation, and every set is ready
  for the next call and for the lookup. `RangeOpExact` speaks of the end of a call, so the invariant has a part for
  each loop: in the merge, the points put out answer for every character as the operation does on the points taken, and
  the parity of their number is its answer beyond them (`Merged`); in the compression, the points below `k` are strictly increasing and
  make the set of those below `i`, while the ones from `i` on are still the old ones, which is what makes the work in place
  right (`Halfway`, `Joined`). `CodePointsAssumption` and `OperandsAssumption` say that operands are arrays of an even
  number of points in order, which `ReadyForLookup` gives back for every result.
  The lookup alone: `TypeCorrect`, `LookupInBounds` (`InBounds`), `LookupIsExact` (`FoundIffMember`), for classes of any
  number of intervals (`RangeAssumption`: sorted ends). The invariant is `Bracket`:
  if `c` is in any interval, that interval lies between `idx_min` and `idx_max`; the two checks before the loop establish
  it and exclude that `idx - 1` wraps. Then the composition: `ClassMatchesDenoted` (`MatchesDenoted`) and
  `ClassStaysRight`. What is proved of a finished set is what the lookup assumes of a class, so the invariant
  of `CharClass` is the two put together with "the class looked up is the set that was made" (`ClassInv`).
* **`MatchObject_proofs`**: for every pattern, every set of names and every limit (`NamesAssumption`: a name is not
  empty and contains no zero; `PatternsAssumption`), `TypeCorrect` and
  - `WalkStaysInside` (`InsideNames`). The walk is out of step with the records, so the invariant cannot speak of them. It
    counts instead: each group has left a zero in the buffer (`Zeros`), and before group `k` is pushed the walk has not
    passed the zero of group `k` (`NotPast`). The string it takes ends at that zero or before, hence before the zero of
    the next group.
  - `NamesAreFound` (`LookupExact`), `NamesAreApart` (`OneNamePerScope`), `ReferencesAreNamed` (`ReferencesNamed`). The
    parser's own loop does follow the records. The invariant `RInv` says what lies in the buffer (`Recorded`): one record
    after the other, each with the name of the token that opened its group, with the present scope if no bar was read
    since. Reading the buffer from the front then meets each record in turn, although a record has no length of its own.
  - `TablesAgree` (`IndicesAgree`). `PreparedIs` runs the calls that build the stack, for d or not and names or not: which
    tables lie on it (`StackOf`) and which are fields of which (`FieldsAre`). With that the places of `PushGroup` are those
    of the tables it means (`PlacesAre`), and the invariant `AInv` goes from one group to the next. That there are names
    does not change on the way, because the walk never comes back to NULL (`StillThere`), which rests on `InsideNames`.
* **`Backtrack_proofs`**: `TypeCorrect`, `FramesAreLinked`, `StackAlwaysFits`, for every program that is well formed
  (`JobOK`) and every subject. They need each other: `StackFits` after a lookahead counts what `PopLookahead` takes
  out, which takes the links to be right, and a resumed state has a type only because what is popped is a saved
  state. So the invariant is their conjunction with `job \in Jobs`. The proof goes in layers: the effect of each
  instruction (`EffectOK`, one lemma per group of opcodes), the effect of each change of the stack on the chain
  (`PushUndo`, `PushSaved`, `TakeOut`, `PopUndo`) and on the count of words (`WordsPushed`, `WordsTakenOut`,
  `WordsPopped`), then one lemma per action.
  On top of that, for the same programs and subjects:
  - `CapturesAreRestored` (`RestoresCaptures`): what a saved state stands for is, slot by slot, the value in the oldest
    undo entry above it, or the present one. A store adds an entry above unless there is one already above the last
    branch, undoing takes the youngest away, and a lookahead takes saved states out from between the entries: none
    changes what is oldest above a state that stays (`StepKeeps`).
  - `InterpreterSearches` (`CopiesCaptures`): the ways of the search are the saved states in the order of the stack, each with
    the captures it stands for. Every step of the interpreter is a step of the search on these, and undoing one entry is
    a stutter.
  - `AssertionsAreClosed` (`AssertionsClosed`): at each moment the lookaheads open at the instruction are those that have a
    way on the list that is not a split's, in the same order (`Nested`); the same holds of each way at the place where it
    is. This is where `NestingOK` is needed. A match is outside of all lookaheads, so none is open there.
* **`Rqsort_proofs`**: `SortInvariant` and `ArraysSorted` (`SortCorrect`), for every array, every size of small
  segments from 3 on and every limit of the depth (`SortAssumption`; below that the three samples for the pivot would
  be the same one). A position is a *cut* when nothing before it is greater than anything from it on. The invariant
  `Whole` says that the segments still to be sorted lie apart (`Laid`), that every position not strictly inside one of
  them is a cut (`Cuts`), and that the elements are those given (`SameElements`); so once no segment is left, every
  position is a cut. Changing the order inside a segment leaves the cuts around it alone (`CutsKept`), so that each
  phase needs to be looked at inside its segment only, with an invariant of its own in `PhaseInv`: the five zones of
  the partition (`Parts`), the element insertion moves down (`Inserting`), a heap, perhaps with one element too small
  for its place (`HeapFrom`, `HeapBut`), before a tail that is sorted (`TailSorted`). The stack has no check in the
  code: it does not overflow because the segment at position `k` has been partitioned `k` times at least, and
  partitioning ends at the limit (`DepthBounds`).
* **`Canon_proofs`**: `CanonicalSetIsExact` (`CanonExact`), for every set, both flags and every failure of memory
  (`CanonSpec`, the part of the runs' specification that is about `CanonClass`). `CanonInv` says at each place what was
  made so far: what was collected, with the interval that is being extended and what was lost, is the forms of the
  characters of `cr_inter` below `c`. The lemmas under it are about the operators. The points of a set operation, in
  order, make the set (`Operation`, `Toggles`). Searching the table by halving finds the entry with the character
  (`EntryOfIs`), so a form does not depend on whether the entry was sought that way or upwards as in the loop. Sorting
  keeps the intervals, which is the theorem about `rqsort` used again (`SortInvCorrect`), and the pass that removes
  overlap keeps the characters in them (`UnitedNext`: after `n` intervals the result is in order, apart, and has the
  characters of these `n`). Two assumptions are about the generated table, and TLC evaluates them on all of it:
  `TableAssumption` (it is in order) and `FoldingAssumption` (an interval of the mask lies in one entry; what is not in the mask
  is its own form; for ASCII the table says what the code does without it).

* **`CharProps_proofs`**: two results about the packed tables of properties and the entries of the conversion table, for
  every character.
  - `LookupsAreExact` (`IndexAgrees`). The answer is the parity of the number of runs of the table that end at the
    character or before. `Reading` says of the runs read from the first byte on that each that starts before the end of
    all is followed by the next; so a byte read by the loop moves that number as it moves `bit` (`Parities`), wherever the
    loop began. The invariant `LookupInv` has the rest: the character lies between the blocks that are left of the index,
    `pos` and `code` are a start of a run and `bit` is the parity there, and when the second table of `is_id_continue`
    is asked, the first has said no (`Decided`).
  - `CaseSetIsExact` (`CaseSetExact`). Joining the points of all entries in halves gives the characters of each
    (`JoiningGives`); the points of one entry are the characters that one of the conversions changes (`PointsOfEntry`), type by
    type: all of a run (`WholeRun`), every second one (`Alternating`), two of three (`Triple`); and a conversion goes by
    the entry the character is in, also for ASCII, which the code converts without the table (`ConversionByEntry`).

  What is assumed of the generated data, TLC evaluates on all of it: `IndexAssumption` (the tables are read to the last
  byte; each block of the index starts at a run that is not in the property, and the last one behind all) and
  `ChangesAssumption` (the first two entries are the ASCII letters; a run that is mapped as a whole is not mapped to
  itself, alternating runs are even, a run of triples is one). `QueriesAssumption` only says what a question is.

## What is only model-checked

* Liveness (`Converts`, `MethodsEnd`, `ReplaceEnds`, `Ends`, `Answers_Eventually`) and refinements whose
  abstract specification has fairness: out of the prover's reach, as is `ENABLED`.
* Everything about `ReCompile` and `ReSemantics`, which are recursive over the syntax tree: the prover has no
  induction over data, and recursive operators cannot be used in modules with theorems. So `ResultIsReference` and
  `RegistersStored` (a property of the compiled programs, not of all well formed ones) hold for the families of
  `MCBacktrack`. The same goes for `ClassSet` and its reference (`StringsInPlace`, `ClassDenotes`, `LongestFirst`).

## What is not modelled, and why

* The text of a replacement string (`get_substitution`), which is string building without state, and the capture groups
  between the pieces of `split`.
* Inline modifiers such as `(?i:...)`, and the letters of `compile`'s flags.
* The reading of a pattern's text outside of classes: `ReCompile` starts from the syntax tree, so its syntax errors and
  fallbacks of Annex B are not covered. In classes the digits of `\x`, `\u` and octal escapes are left out.
* Normalization, scripts, general categories and the sequence properties (`libunicode.c:760-2124`): they expand further
  generated tables without an index, one interval after the other. `ClassSet` takes their results as a table.
* `DynBuf` and the UTF-8 encoder and decoder (`cutils.c`): byte copies and bit fields. What other modules need of them,
  the width of a character, malformed input, a buffer that does not grow, is an input or an outcome there.
* `lre_check_timeout`: the binding's callback never asks to stop (`jsregexp.c:43`).
* Garbage collection and memory, except for failures of allocation in the interpreter's stack, in a `CharRange`, in
  the parser of classes and in `cr_regexp_canonicalize`.

## Further work

1. `DynBuf` and the codec against encodings by value; the scanner of `$1`, `$<name>`, `$&` in replacement strings.
2. The parser outside of classes, inline modifiers, the stack program of `unicode_prop_ops`.
