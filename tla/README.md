# Verification of fb_utils

`fb_utils` is a collection of C++ utilities: a ring of memory shared by two
threads, a parser for configuration files, glue between that parser, logging and
`boost::program_options`, flags as text, and wrappers of operating system calls
(large pages, processors, network adapters, threads).  The parts are small and
mostly independent of each other.  What they have in common is that they are
right for reasons which the code does not state: a counter that two threads
change without a lock, a set in which looking at one neighbour is enough, a
buffer whose size was asked for a moment ago.  This directory states those
reasons, model-checks them with TLC and proves the most important ones with TLAPS
for every size, every file and every number of threads.

Paths below are relative to `src/`.

## 1. Inventory

### Modelled

| component | state | operations | what is hard | what makes it correct |
|---|---|---|---|---|
| **circular memory** `utils/circular_memory.hpp` | `tail_` (producer only), `free_.counter` (atomic, both threads), a header in front of each block | `allocate`, `release`, `empty` | one allocating and one releasing thread without a lock; a place is chosen from a counter that is already old; alignment padding and the bytes skipped at the end of the buffer | live blocks are disjoint, aligned and inside; releases give back every byte; nothing is refused that fits; small requests are served again and again |
| **ini parser: files** `utils/ini_parser/ini_parser.cpp` 76-158, 230-318 | the C++ call stack (stream, line number, prefix), `includes_`, `values_` | `parse`, `operator()`, `process_include`, unwinding | recursion over files that include each other while other processes replace them: a file is opened before its path is looked up | no path is read by two activations; parsing ends; a section's prefix neither leaks into nor out of an included file; success exactly for well-formed trees; an error leads to the line at fault |
| **ini parser: lines** `utils/ini_parser/ini_parser.cpp` 11-229, 261-318 | `begin`, `last`, the tokens | `tokenize`, `find_quote`, `process_quoted_value`, `trim`, `process_key`, the interpretation | whether a character is a delimiter depends on the tokens before; positions are stepped forth and back by one | no character is lost or read twice; quoting is lossless; a line has one meaning or is an error |
| **option names** `utils/program_options/ini_parser.cpp` | the set of allowed prefixes and options | `parse_ini` | names that end in `*` stand for all keys with that prefix; conflicts and matches are looked for at one or two neighbours in an ordered set | the set is prefix free; conflicts are found in every order; a key is registered exactly if some option describes it |
| **option values** `utils/program_options/{net,chrono}.hpp`, `validators/{net,chrono}.hpp` | the object that is parsed into | `validate` for endpoint, credentials, scheme_endpoint, duration, list of durations | a second attempt parses into the object that the first one left half filled; numbers that do not fit; units that are prefixes of each other; overflow of the conversion | what is stored is the one meaning that the format gives the text |
| **log settings** `utils/program_options/log.cpp` | a property tree, the variables map | both overloads of `init_log_from_unrecognized_program_options` | options of two owners in one list, with opposite precedence; the log may be set up again | settings go to the tree with the last value, options of the program to the map with the first; the sink of the last section for the console is what the program gets |
| **console sink** `utils/program_options/console_sink.cpp` | `console_sink_`, a weak pointer of two words | `register_console_sink_factory`, `create_sink`, `console_sink` | assigned without a lock while other threads lock it; a later section is wrong after a sink was made | every call returns; one that nothing disturbs finds the sink that is remembered, and that is what the log has; a handle owns what it points to |
| **huge pages** `utils/win/huge_pages.cpp`, `utils/memory.hpp` | the caller's in-out parameters; the privilege | `alloc_huge_region` | the parameters a call writes are passed to the next; two attempts with different pages; rounding may wrap around | strict means strict; a region fits; the parameters are true |
| **system queries** `utils/win/sysinfo.cpp`, `win/nic_addresses.cpp`, `win/thread.cpp`, `win/experimental/sysinfo.hpp` | a buffer and its size | five functions that ask for a size, then for the data | the data changes between two calls | the result is the data of one moment; only data that keeps growing makes a call fail; every call ends |
| **network interfaces** `utils/win/nic_addresses.hpp` | a static of the function | `get_nic_addresses`, `get_nic_info` | threads race for the initialization, which may throw; the static was filled for the type of the first call | all threads get the same answers; nobody waits for ever |
| **threads** `utils/posix/thread.cpp`, `utils/win/thread.cpp` | what the system keeps: the class of the process, policies, levels, sets of cpus | `set_thread_priority`, `pin_thread_to_core`, `set_thread_cpu_set`, `get_thread_cpu_set` | two calls for one priority on windows, the first of which moves all threads; the macros for sets are told a number of cpus where they take bytes; cpus go away | threads run in the order asked; the set has room for every id below the number of cpus, so what was chosen is read back |
| **flags** `utils/flags/flags.hpp` | - | `to_string`, `parse_string`, `from_string` | bits without names, names that look like numbers, equal names, the bit of the sign | reading gives back what was written exactly if nothing is ambiguous |

### Not modelled

| component | why |
|---|---|
| network interfaces, posix (`posix/nic_addresses.cpp`) | one pass over the list of `getifaddrs` that groups it by name: no state, no failure but an empty result, nothing that depends on an order a unit test could not write down |
| memory and system information, posix | stubs that return nothing, and two calls of `sysconf` |
| logging for DPDK (`log.hpp`) | formatting into a buffer of the thread and one `fwrite`; nothing is kept between calls |
| histogram axes (`histogram/chrono_axes.hpp`) | adapters for types of boost::histogram, and the layout of a report in floating point |
| `workarounds.hpp`, `buffer.hpp` | a conversion of ranges, an alias |
| build files, tests | read for what they expect, nothing to model |

Of components that are modelled in part, the following is left out.

* `win/sysinfo.cpp`, `win/experimental/sysinfo.hpp`: what is copied out of the
  records once they are there (`numa_node_workset`, `cores_info`, the views); the
  way the records are got is `SizedQueries`.
* `win/nic_addresses.hpp`: copying of addresses, and the look-up by name, which a
  test reaches.  The parameter `retries` of `get_nic_addresses` is not passed on by
  the code, so that `Retries` is always the default of `get_adapters_addresses`.
* `win/memory.cpp` and the privilege behind large pages but for its effect.
* `win/thread.cpp`: functions of one call of the system.
* `flags_parser`, which calls the modelled `parse_string` after skipping spaces.
* validators for addresses, urls and points in time, which only call boost, and
  boost's test for an option that occurs twice.

### How the parts interact

`parse_ini` (module `OptionNames`) calls `ini::parse`, which is `IniParser` over
files and `IniTokenizer` within a line; `IniParser` takes lines as what
`IniTokenizer` says they are (`pair`, `section`, `include`, `blank`, `bad`) and
`OptionNames` takes keys in the order in which `IniParser` appends them.  The
unregistered options that `parse_ini` lets through are the input of
`LogSettings`; the others go through `validate` (`OptionValues`).  `HugePages`
produces memory for a ring such as `CircularMemory`, which does not know where its
memory comes from.  Between these modules only values are passed and no state is
shared; each is therefore checked with all values the other may produce, and not
in a product.

Two compositions are modules of their own, because there the parts overlap in
time.  `LogSetup`: the settings that `LogSettings` collects become sections, for
which boost::log calls the factory of `ConsoleSink` while other threads ask it for
the sink.  `AdapterCache`: the static of `NicAddresses` is filled by the calls of
`SizedQueries` while adapters change and other threads wait.

The real concurrency is in five places: the ring (two threads and an atomic), the
file system under the parser (other processes), the system under the queries and
the static behind the adapters (threads and changing data), the weak pointer of
the console sink (threads without a lock), the class of a process that every
thread may change.  The modules have actions for each of these actors.  The other
components are sequential; their modules take every input of a bounded shape.

## 2. Plan

Order of the modules, most important behaviour first.

1. `FifoRegions` (abstract) and `CircularMemory`, with `CircularMemoryProofs`
2. `IniParser` and `IniTokenizer`, both with `IniParserProofs`
3. `OptionNames` and `OptionValues`, both with `OptionsProofs`
4. `HugePages` with `HugePagesProofs`
5. `SizedQueries`, `NicAddresses`, and `AdapterCache`, which composes the two and
   implements both; all three with `AdapterCacheProofs`
6. `Flags` with `FlagsProofs`
7. `LogSettings`, `ConsoleSink`, and `LogSetup`, which composes the two; all three
   with `LogSetupProofs`
8. `ThreadPlacement` with `ThreadPlacementProofs`

All of these exist, and each safety and action property of the passing runs is a
theorem (section 5).

Modules that a proof is about have no RECURSIVE operators: `Closure` of `IniParser`
is the least closed set, `Power` of `Flags` and the scans of `IniTokenizer` are
recursive functions, and so is `Number` of `OptionValues`; `GetCpuSet` of
`ThreadPlacement` chooses its sequence by what it lists.  `IniTokenizer`,
`OptionValues`, `AdapterCache` and `LogSetup` name their specifications so that they
can stand next to the one of another module (`LineSpec`, `ValueSpec`, `CacheSpec`,
`SetupSpec`).

## 3. Modules

In every module the actions are the steps of the code in the order in which it
takes them, and the comments name their lines.  Definitions with an underscore
in their names are wrong on purpose: a plausible bug each, which a property has
to see when the variant takes the place of the definition after it.  No
specification uses them.

Where the code leaves something to its callers, the model takes it as a condition
on them and says so: the order of releases and the range of a request
(`CircularMemory`), cpu ids that the set has bits for (`ThreadPlacement`), names
without the delimiter (`Flags`), strings in pairs (`LogSettings`).

### `CircularMemory`, `FifoRegions`

`free` is `free_.counter`, `tail` is `tail_`.  The producer's `pc` splits
`allocate` at its accesses to shared memory: `LoadFree` (line 61) reads the
counter, `Refuse` or `StoreHeader` (67-86) decide from that value, `Commit`
(87-90) subtracts from the counter and moves `tail_`.  The consumer's `cpc`
splits `release`: `ReadHeader` (102), `AddFree` (96).  The sequence `blocks`
holds what the code has in the headers of the buffer, oldest first.  The model
is sequentially consistent; the code uses the atomic's default order, and each
thread otherwise reads only what it wrote or what the client's queue handed over.

The class relies on its clients to release blocks in the order in which they
were allocated: the counter says how much is free and never where.  The queue
between the threads is the client's and is modelled by that order.  Only one
thread allocates and only one releases, as the plain member `tail_` demands.

`FifoRegions` is what the ring promises, without headers, counters and
wrap-around: regions that are aligned and disjoint, taken back in order.
`ImplementsRegions` is the refinement: a region becomes live at `Commit`, where
`allocate` returns, and dies at `AddFree`; all other steps stutter.

### `IniParser`

`stack` is the C++ stack of `operator()` and `includes_` at once, which the sentry
keeps in step.  `OpenRoot`/`ReadInclude` open a stream on what a location refers to
now; `Enter` looks the path up again, refuses it if it is on the stack and starts
to read otherwise; `ReadPair`, `ReadSection`, `ReadBlank`, `ReadBad` are the kinds
of lines; `Leave` is the end of a stream; `Unwind` one frame of an exception.
`Relink` is another process that creates, removes or replaces a file between any
two of these steps, at those locations that a behaviour has in `mutable`; in the
others nothing changes, and there the result is compared with the files.

### `IniTokenizer`

Works on character classes; `first` and `last` are positions in the line, `stage`
says whether its tokens are complete.
`Text`, `Equals`, `Section`, ... are the branches of `tokenize`, `Interpret` what
`operator()` makes of the tokens.  `OutcomeMatchesFormat` compares with a
definition of the format that does not parse: which splits of a line into key,
value and comment make sense.

### `OptionNames`

Characters are numbers and strings are ordered as `std::string` orders them.
`ExtendsPrefix` and `ExtendedByPrefix` are the two looks around `lower_bound`,
`Registered` the look-up of a key.  The variable `named` is what the exception's
message says, kept because the message is wrong in one case (section 6).

### `OptionValues`

One action for each validator, two for the one that tries twice, and one for each
duration of a list.  `res` is the object that is parsed into, and stays as the
first attempt leaves it.  What x3 does is modelled: alternatives in order, strings
appended to, numbers read whole or not at all, the longest symbol.  An overflow
of a conversion gives any result (it is undefined in C++).

### `LogSettings`

One action for each way an option can go: `Setting`, `OtherOption`, `Ignored`
(registered, or not a name with one value); `InitFromSettings` is the call of
boost::log, which may throw.  Names are sequences of their parts between dots.

### `ConsoleSink`, `LogSetup`

`object` and `count` are the words of `console_sink_`.  `Begin` is
`init_from_settings`; `CreateSink` makes the sink of a section (24-53),
`WriteObject` and `WriteCount` are the assignment of line 54, in either order,
`ReturnSink` is line 55; `SectionThrows` a section that is wrong, `AddSinks` the
end.  `LoadCount`, `Lock`, `FindNothing`, `ReadObject` are `weak_ptr::lock` in
`console_sink()`; with no sink yet, or one that is gone, `FindNothing` returns null.
How boost::log uses the factory (all sinks are made before any
is added, none is added if one throws) is modelled from the code's use of it and
marked external.

`LogSetup` extends `ConsoleSink` and puts `LogSettings` in front: `Sections` is
what boost::log takes out of the tree, in the order in which `put` made the nodes;
`SetUpAgain` is a program that reads its options once more.

### `ThreadPlacement`

A behaviour is on posix or on windows.  `SetClass` and `SetLevel`/`SetLevelFails`
are the two calls of `set_thread_priority` on windows, `SetSched` the one on posix,
`SetNumber` the overload for a number.  `SetCpuSet`, `PinToCore` and `GetCpuSet`
compute with the bits that `CPU_ALLOC` makes room for (`Room`, of the number of
cpus that the code passes) and those that the macros admit (`Admitted`), which are
not the same: the macros are told a number of cpus where they take bytes, and it is
the allocation that keeps an id in the set.  A bit past the set is not followed.
`Unplug` takes a cpu away.  The rounding of `CPU_ALLOC` (`RoomFor`), the table of base
priorities and the kernel's view of cpus are external.

### `HugePages`

`params` is the caller's object, which survives from call to call, with `Prepare`
for a caller that changes it.  `Call` is lines 55-70, `Succeed`, `FallBack` and
`Fail` are the answers of `VirtualAllocEx` to the first or second attempt.  Sizes
are of `Width` bits and `Rounded` wraps around.

### `SizedQueries`

`query` says which of the functions runs; they differ in the size they offer
first, in the unit and in how often they try again (`MayRetry`).  `Change` is the
system giving the data another size between two calls.  `Fail` is an error of the
system, `FailWithoutError` a failure that names none: an assertion where the list of
processors is asked for, and an empty result where assertions are compiled out.

### `NicAddresses`

One static and the threads that call its function.  `Fill`, `Filled`,
`FillThrows` are the initialization that the language guards: no thread
fills while another does.  `Found`, `Return` are the look at it afterwards,
`Change` the administrator.

### `AdapterCache`

Extends `SizedQueries` and has an instance of `NicAddresses`.  Every step is one of
`NicAddresses`, of `SizedQueries` or of both: `Fill` begins the
query, `AskAgain` is one more time around its loop, `Filled`, `GivesUp` and
`FillFails` end both at once.  What `NicAddresses` calls the addresses that the
system has is the number of the last change.

### `Flags`

A text is the sequence of what is between its delimiters.  `WriteBit`/`EndWrite`
are the loop of `to_string`, `ReadToken`/`StopAtUnknown` that of `parse_string`.  A
name may be empty; that it does not contain the delimiter, which the code does not
check, is a condition on the caller.

## 4. Runs

| run | question | bounds, and why they are enough |
|---|---|---|
| `ring` | can two threads ever get the same byte, lose one, be refused wrongly or for ever? | 16 bytes, header of 2, four requests, of which one fits only an untouched ring; the base is odd, so offsets and addresses are aligned differently. All positions of `tail_` meet all requests; both runs, exact fits and skipped ends occur |
| `includes` | what is parsed, refused, blamed, and does it end while files are replaced? | 3 files in 2 directories, all contents of up to 2 lines of every kind but blank, and for the root also a section, an include and a pair in any order: cycles of length 1 to 3, diamonds, missing files, an include in the middle of a section; or lines that include or are blank while one location changes at any time |
| `option_names` | are conflicts and matches found at the neighbours? | all descriptions of up to 4 of 11 names over 3 characters, one of them `*`: neighbours on both sides, nesting over two levels, equal names, `*` alone |
| `overlap_message` | does the message name two options that overlap? | the same; expected to fail (section 6) |
| `ini_lines` | is a line read as the format says? | all lines of up to 5 characters of the ten classes, and longer ones around `=` and quotes |
| `huge_region` | is the region what was asked for, after any calls? | 5 bits of size, pages of 2 and 8: sizes at the end of the range round to nothing |
| `sized_queries` | what does data that changes do to a call? | 6 sizes, 3 retries as in the code, up to 4 different sizes in a call: more changes than there are retries |
| `adapter_cache` | what do racing threads get while adapters come and go? | 2 threads, 2 types; 3 retries and 3 different data of 4 sizes, above and below the buffer, so that the first filler can give up and the second go on; 1 error of the system |
| `flags_text` | is reading the inverse of writing? | 3 bits, up to 3 names out of words, the empty name and numbers that are bits, no bits, out of range; texts of up to 3 tokens; signed and unsigned |
| `log_setup` | where does each option go, and which sink does the program get? | up to 2 options among names that are, or nearly are, settings, or up to 3 settings of 2 sections; an earlier value in the map; a second setup with other options; 2 threads that call `console_sink()` at any time |
| `thread_placement` | who runs at which priority, and where? | 2 threads that set priorities for themselves and each other (two are enough for one to move the other); or cpus of 4 machines: fewer than a word, more, and two with gaps between the ids, where the last id still has a bit in the set and where it has none; bytes of 2 and words of 4 bits |
| `option_values` | is a value stored as its format says? | all texts of up to 5 pieces; ports up to 2, durations up to 15, ticks that divide the units and one that does not |

`includes`, `option_names`, `ini_lines`, `flags_text`, `log_setup`,
`option_values` and `thread_placement` do not check for deadlock: the function
they model returns, and there is nothing to do after that; in `thread_placement`
some choices of cpus leave nothing to choose.

Every module defines a type invariant.  Those of the modules with proofs are
theorems (section 5), and `ring` checks its own.

What they show, by property:

* `ring`: `ExclusiveExtents` (headers and payloads of blocks share no byte, even
  while one is being stored), `SplitWithinFree` (the assertion of line 65),
  `EmptyIffNothingLive` (`empty()` is exact; no padding is lost),
  `RefusalJustified` (`nullptr` only if no run on either side of `tail_` could
  hold the request), `ImplementsRegions` (refinement), `AlwaysServed` (liveness).
  A run of free bytes *across* `tail_` is out of the algorithm's reach, so that an
  empty ring can refuse a request of more than half its size for ever; `Servable`
  says for which requests that cannot happen.
* `includes`: `PrefixIsLocal`, `ParsedIffWellFormed`, `NothingSkipped`,
  `ErrorLeadsToFault` - the `(line)` prefixes of a message lead from the root,
  `#include` by `#include`, to the line at fault; `IncludesDistinct`, `Terminates`.
* `option_names`: `PrefixFree`, the invariant that a comment of the code names;
  `OverlapIffAmbiguous`; `RegisteredIffDescribed`.
* `ini_lines`: `TokensTile`, `QuotingLossless`, `OutcomeMatchesFormat`.
* `huge_region`: `KindAsAsked`, `RegionFitsRequest`, `ParamsTrue`.  A relaxed
  request that got large pages comes back with parameters that are strict: the
  next call with them does not fall back.
* `sized_queries`: `ReturnsOneMoment` holds for `get_thread_cpu_set` only if the
  set does not shrink between its two calls, and the property says so: the ids
  left over are zeros.  `GivesUpOnlyIfGrowing`, `CallEnds`.
* `adapter_cache`: `CachedWhole` (the static has the data of one moment, and
  nothing of an attempt that threw), `AnswersAgree`, which says as well that only
  the type of the first call is ever answered with addresses; `ImplementsStatic`
  (refinement of `NicAddresses`), `CallsEnd`.
* `flags_text`: `RoundTripIffUnambiguous` names the texts that are read as
  something else: those with an empty name, with the name of a lower bit, with a
  number that is a name, with the bit of the sign.  `MeansUnion`.
* `log_setup`: `ValuesThatCount`; `HandlesWhole`, which says how a handle can be
  torn: only when its thread was in `console_sink()` while the factory assigned the
  second sink or a later one; `SinkCallsReturn`: every call of `console_sink()` ends,
  also before there is a sink; `SinkFound`: one during which nothing is assigned
  returns the sink that is remembered, or null if there is none; `ConsoleRemembered`: after an initialization that
  failed behind a sink for the console, `console_sink()` no longer finds the sink
  that the log still has; `SettingsReachSink`: the sink that the program gets is
  that of the last section for the console.
* `thread_placement`: `OrderAsAsked`, also between the two calls and after the
  second has failed: the level alone keeps the order, whatever the class;
  `CpusReadBack`: every id below the number of cpus that was chosen and is online is
  listed, in order, on machines without gaps and on those with gaps whose last id
  still has a bit.  On a machine with gaps the ids from the number of cpus on are
  not listed, because the code stops there.
* `option_values`: `OutcomeMatchesFormat`; the object that the first attempt leaves
  half filled is never stored.

Each property of a passing run has a mutant in `PROJECT.json`: with that variant
of a definition TLC finds the property violated.

### Fairness

* `CircularMemory`: weak fairness of each thread.  They are loops of the client
  that run as long as the program does; a refused producer tries again, the
  consumer releases what it was handed.  `AlwaysServed` depends on both.
* `IniParser`: weak fairness of the parser, a function called by a running
  thread; none for the processes that change files.
* `SizedQueries`, `AdapterCache`: weak fairness of the calls (`Asking`, `AskAgain`,
  `Running`: a running thread, a system that answers), none for changes and
  failures; the language wakes a thread that waits for a static that is free.
* `LogSetup`: weak fairness of each thread that is in `console_sink()`, which makes
  no call that waits; none for the setup, which need not happen.

## 5. Proofs

Checked by TLAPS for all values of the constants that satisfy the assumptions
named in the modules (TLC evaluates these on each instance).

* `CircularMemoryProofs`.  The properties are not inductive: nothing in the class
  says where the free bytes are.  `IInv` does: the blocks tile the ring, in their
  order, from `Oldest == Wrap(tail + free)` to `tail`, each in one piece inside its
  share (`WellPlaced`, `Chained`, `Ordered`); what the producer has loaded is no
  more than what is free now.  The arithmetic of `%` is moved into lemmas
  (`ModIsWrap`, `SplitRuns`, `PadAligns`, `DistAfterRelease`), one lemma proves each
  action, and from `IInv` follow `TypeCorrect`, `AssertionHolds`, `Exclusive`,
  `EmptyIsExact` and `Implements`, the refinement of `FifoRegions`.  `Justified` says
  that nothing is refused that fits, and needs one fact more, `Covered`: every byte of
  the ring is counted as free or belongs to the share of a block.  Assumed:
  `WidthAssumption`, a counter that can hold twice the size of the buffer, and
  `HeaderAssumption`, requests for which the sum with the header is in range.  Line
  61 adds two values of up to the size and line 68 the header to any size, and
  nothing in the class refuses a larger buffer for a narrow counter or a larger
  request.
* `IniParserProofs`, whatever other processes do: `TypeCorrect`, and `NoCycle`: no
  path is on the stack twice.  It is inductive with the types, because `Enter`
  compares with every frame and the path it compares is the one it pushes.
  `LocalPrefix` (`PrefixIsLocal`) is about values only; the invariant behind it,
  `PrefixesInForce`, is about the stack: every activation has the prefix that is in
  force at its own line, and those below the innermost stand at an `#include`,
  which is no section, so that going on to the next line keeps it so.
* `IniParserProofs`, while files are left alone: `MessageLeads`
  (`ErrorLeadsToFault`), `AllRead` (`NothingSkipped`), `ParsedWhenPossible`
  (`ParsedIffWellFormed`), for any number of files and lines.  Three invariants.
  `Chain`: each file on the stack is what the `#include` line of the one below refers
  to, and the lowest is the root.  `Blame`: once an exception is thrown, the lines of
  the stack followed by those of the message (`Lines`) lead to the line it was
  thrown for; each frame that unwinds only moves its line from one to the other.
  `Cover`: there is a set of files that have been left; these, and the lines before
  the current one of each frame, are free of faults and include only files of the
  set, none of which includes itself; and the values are exactly those of their
  keys.  `Leave` adds a file to the set.
  What connects them with the properties are lemmas about `Closure`: it is closed and
  the least closed set (`ClosureClosed`, `ClosureLeast`), and a path along `#include`
  lines never leaves it (`PathStays`).
* `IniParserProofs`, within a line: `LineCovered` (`TokensTile`) and `QuotingReadBack`
  (`QuotingLossless`), for lines of any length.  The invariant `Scanned` says that
  the scan always stands at the first character of a token or at the end, behind all
  tokens so far, and that each quoted token ends where `FindQuote` found the quote;
  `TokenAdded` is the one step that all branches of `tokenize` come down to.  The
  lemma behind quoting is `QuotedText`: what `FindQuote` has let through is a
  sequence of escapes and other characters, and on these `Escape` undoes `Unquote`,
  from the closing quote backwards.
* `IniParserProofs`, what a line means: `LineRead` (`OutcomeMatchesFormat`) and
  `LineTypeCorrect`, for lines of any length.  The format speaks of all the ways to
  split a line, the code takes one token after the other.  `ValueOnce` and `KeyOnce`
  say that from any position the format sees at most one value and one key, and that
  it is the token of the scan; `QuoteEnds`, the converse of `QuotedText`, that it sees
  no other end of a quoting than `FindQuote` does.  `Lexed` are the tokens up to where
  the next one would start, and `MeansVerdict` that the line then means what
  `operator()` makes of them if only a comment is left, and nothing otherwise.  The
  invariant `LineMeant` is that the tokens are `Lexed` while the line is scanned, and
  up to the comment once it is; each branch of `tokenize` either adds such a token
  (`PushMeant`) or ends the line for a reason that leaves it no meaning (`Settle`).
  `last` is in front of `first` once there is a token, so that the tests
  `last + 1 == n` of lines 298 and 305 can hold only in a line of one character, where
  the search would find nothing either: they never decide anything.
* `OptionsProofs`, the names: `TypeCorrect`, `NoPrefixOfAnother` (`PrefixFree`), `OverlapFound`
  (`OverlapIffAmbiguous`), `KeysMatched` (`RegisteredIffDescribed`), for any alphabet,
  names and keys of any length, and any number of options.  First the order of
  strings: it is total and transitive, a finite set has a least and a greatest
  element, and whatever starts with a prefix comes right behind it.  So in a prefix
  free set a string that extends an element extends the greatest one below it,
  which is what makes one neighbour enough; that the set is prefix free is kept by
  the two tests before an insertion.  `Building` and `Matching` tie the sets and the
  result to the options and the keys passed so far.
* `OptionsProofs`, the values: `ValuesTypeCorrect` and `StoredAsMeant`
  (`OutcomeMatchesFormat`), for any alphabet, texts of any length and any units.  The
  format speaks of all splits of a text and the grammar of the first colon;
  `SplitMeans` says that no other split counts, and `EndpointMeans`, `SchemeMeans` that
  what is read to the end of the text is its one meaning.  `SchemeInv` is what the
  first attempt leaves behind: an endpoint only if `://` was found, and then the
  second attempt cannot read the text to its end, because no port starts with a
  slash (`SlashesNoPort`).  `DurationInv` ties the durations read so far to the fields
  of the list in front of `begin`: no number with its unit passes over a comma
  (`ReadToMeans`), because no symbol has one.  That the ratio in lowest terms converts
  as the ratio itself does is `TicksConverted`.
* `FlagsProofs`: `TypeCorrect`, `Union` (`MeansUnion`), `RoundTrip`
  (`RoundTripIffUnambiguous`), for any width and any list of names.  `Written` says
  which tokens the text has at each bit, `ReadSoFar` that the result is the union of
  the tokens passed; `Clear` is when the token of a single bit is read as that bit.
  The two meet because a power of two has one bit (`PowerDoubles` and what follows).
* `HugePagesProofs`: `TypeCorrect`, `StrictAndRelaxed`, `Fits`, `ParamsAreTrue`, by an
  invariant that says that a waiting attempt belongs to the present call.  `Fits`
  holds although the rounding may wrap: it then asks for nothing, and the system
  does not give a region of no bytes.  Assumed: the number of sizes is a multiple of
  the page sizes (all are powers of two).
* `AdapterCacheProofs`, the queries: `TypeCorrect`, `OneMoment` (`ReturnsOneMoment`) and
  `OvertakenByGrowth` (`GivesUpOnlyIfGrowing`).  The last speaks of moments that no
  variable remembers; the invariant (`QueryInvariant`, of `Asks` and `Grew`) has them
  as a witness: for each call so far a moment, later than the one before, at which
  the data had a size greater than any before, the last of them the size that is
  offered now.
* `AdapterCacheProofs`, the composition: `QueryImplemented` and `StaticImplemented`,
  that every step is one of `SizedQueries` or a stutter, and one of `NicAddresses` or a
  stutter (`ImplementsStatic`).  The invariant of the static, that it is written
  once, by the one thread that fills it, before any answer (`FillerAlone`,
  `AnswersFromStatic`), gives `Agreement` (`AnswersAgree`); `Whole` (`CachedWhole`) adds
  that there is no other query than the one that fills the static (`OneFill`).
  `CacheTypeCorrect` has the types of all of it.
* `LogSetupProofs`: `InductiveInvariant` says which sinks the two words of the weak
  pointer may refer to at each point of an initialization, and for each thread what
  it can have read so far, before the first sink as well; `Whole` (`HandlesWhole`),
  `Remembered` (`ConsoleRemembered`) and `Found` (`SinkFound`) follow for any threads
  and settings.  `Found` is about steps: `Returns` says of
  the one that ends a call what it returns, from what the call has read.  `ValuesCount`
  (`ValuesThatCount`): each node of the tree has the last, each name in the map the
  first of its values, for any options.  `SinkImplemented`: the composition is a
  behaviour of `ConsoleSink`, because what is collected are sections.  `SinkReached`
  (`SettingsReachSink`) combines the two: the sections that are still to come and
  the sinks that are made already are, in this order, those of the tree.
* `ThreadPlacementProofs`: `TypeCorrect`, `InOrder` (`OrderAsAsked`) and
  `ReadBack` (`CpusReadBack`), for any number of threads, any width of words and any machines.  The order follows from the
  levels alone, by cases of the class.  That the ids read back are ascending rests on
  counting: the k-th of them is the one with k ids up to it (`Place`).

The library's theorems for induction take an operator as a parameter and cannot be
used.  What needs induction is shown by a least counterexample instead: a set of
numbers that is not empty has a least element (`NatMin`, from the well-foundedness
of `<`), and a case that fails would have an earlier one.  `FromTheEnd` is that for
positions in a text.  Recursive functions are got in the same way: a function that
satisfies the equations up to n can be continued (`DoublesExists`, `RunsExists`).

Model-checked only:

* liveness (`AlwaysServed`, `Terminates`, `CallEnds`, `CallsEnd`, `SinkCallsReturn`),
  which is out of reach of the prover.

Four hazards have no property.  A release out of order (`circular_memory.hpp` 96)
cannot be told from one in order by the class, which leaves the order to its
clients.  A counter too narrow for its buffer (line 61), or a request too close to
the end of `size_t` (line 68), is excluded by `WidthAssumption` and
`HeaderAssumption`, because the class states no limit that could be checked.  Strings
that do not come in pairs (`log.cpp` 82) are excluded by the input of `LogSettings`,
which are pairs.  An overflow when a duration is converted (`chrono.hpp` 37) may give
any result in the model, so that nothing is said of it.

Some properties describe a behaviour which a reader may find surprising, and do not
forbid it, because it is what the code does: a relaxed request becomes strict when
its parameters are used again (`ParamsTrue`), cpus that are deselected between two
calls come back as zeros (`ReturnsOneMoment`), only the type of the first call is
answered (`AnswersAgree`), a call that overlaps the assignment of a second sink may be
torn (`HandlesWhole`), a sink is forgotten when a later section is wrong
(`ConsoleRemembered`), all threads move with the class of the process
(`OrderAsAsked`).  Such a property fails when more than that goes wrong.

## 6. Findings

`overlap_message`: the exception for options that overlap
(`utils/program_options/ini_parser.cpp` 44-46) names two options that "will both
match the same arguments".  The iterator it reads may have been moved by the
second test (line 39) after the first one (line 35) had found the conflict; then
the message names an option that has nothing to do with it: with `a*`, `b*` and
`b*` it names `b*` and `a*`.
The decision to throw is right in every case (`OverlapIffAmbiguous`).

## 7. Running

    tlc -config MCCircularMemory.cfg MCCircularMemory.tla
    tlapm CircularMemoryProofs.tla

and likewise for the other modules; `PROJECT.json` lists all runs, their
properties, mutants and theorems, and the lines of code that each definition
stands for.
