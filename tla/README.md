# Verification of the AWS Lambda C++ runtime

TLA+ models of `aws-lambda-cpp`, the library a Lambda function written in C++
links with, the TLC configurations that check them, and theorems about them
that the TLA+ proof system checks for every value of the constants. Paths below
are those of the repository (`src/runtime.cpp`, `include/...`).

To check a model: `tlc -config MCRunHandler.cfg MCRunHandler.tla` and likewise
for the other rows of the table of runs; to check the proofs:
`tlapm RunHandlerProofs.tla` and likewise for `InvocationsProofs`,
`ExchangeProofs`, `MessagesProofs`, `LoggingProofs`, `PackagerProofs`,
`BackwardProofs` and `CrashProofs`.

## 1. The system

A function's `main` calls `run_handler(handler)`. The loop in it asks the
Lambda *Runtime API*, an HTTP service outside this repository, for an
invocation, calls the handler, and posts the result. Several threads of one
process may do so (`tests/unit/thread_local_curl_test.cpp` drives one runtime
from many threads). When `main` returns or the process dies, the platform starts
another process.

```
      clients ── requests ──►  Runtime API  (external: RuntimeApi)
                                │  ▲
        GET next: request id,   │  │  POST response|error: request id,
        invocation id, deadline ▼  │  invocation id, payload
   run_handler ─► get_next() / do_post() ─► curl, one handle per thread
    (RunHandler)   (GetNext)  (PostResult)    │ callbacks: write_header, write_data,
        │          └── Exchange ──┘           ▼            read_data
        ▼                            http::response (HttpResponse, Exchange)
   user's handler ─► invocation_response (PostResult) ─► json_escape (JsonEscape)
        everything ─► logging::log (Logging) ─► stdout

   a signal in any thread ─► SignalHandling (Crash) ─► StackTrace ─► TraceResolver
        (ObjectFiles, Symbols | DebugInfo) ─► Printer (Printer, Snippet) ─► stderr

   packager (Packager): a shell script, makes the zip that the platform starts
```

### Inventory

| Component | State | Operations | Module |
|---|---|---|---|
| `run_handler`, the loop (`runtime.cpp:478-535`) | `retries`, the request and the result of one iteration | ask, count failures, call the handler, post, return | `RunHandler` |
| HTTP client (`runtime.cpp:46-60, 76-88, 143-166, 180-457`) | one curl handle per thread with options and pointers into the caller's stack; the read context | `get_next`, `post_success`, `post_failure`, `post_init_error`, `do_post`, the callbacks | `Exchange` (and its outcomes in `RunHandler`) |
| `http::response` (`response.h`) | code, body, content type, list of headers | `write_header`, `add_header`, `get_header`, `append_body` | `HttpResponse`, `Exchange` |
| `invocation_response`, `json_escape` (`runtime.cpp:537-612`, `runtime.h:85-186`) | payload, type, cause and success of a result | the constructors, `success`, `failure` | `JsonEscape`, `PostResult` |
| logging (`src/logging.cpp`, `logging.h`) | a buffer per call | `log` and its wrappers | `Logging` |
| `outcome<TResult, TFailure>` (`outcome.h`) | a union and a flag | construct, copy, move, assign, read, destroy | `Outcome`, `TaggedValues` |
| deadline (`runtime.cpp:327-340`, `runtime.h:242-246`) | a time point | parse, convert, remaining time | `Deadline`, in `GetNext` |
| packager (`packaging/packager`) | the directory `./tmp`, the zips | copy libraries, write bootstrap, zip, move, remove | `Packager` |
| Backward (`src/backward.h`, `src/backward.cpp`) | signal dispositions and a stack, a trace, resolvers and their caches, open source files | handle a signal, unwind, resolve, show a snippet, print | `Crash`, `StackTrace`, `ObjectFiles`, `Symbols`, `DebugInfo`, `Snippet`, `Printer` |
| version, CMake files, CI, examples, tests | | | not modelled |

The Runtime API is modelled from what the code sends it and reads from it. It
identifies an invocation twice: by a *request id*, which stays when a request is
tried again, and by an *invocation id*, fresh for every attempt and sent in an
optional header that the runtime echoes.

### What is hard

* **Ambiguous failures.** A transport error tells neither `get_next()` nor
  `do_post()` whether the service acted. An invocation handed out may be lost;
  a result taken may look as if it were not.
* **Late results.** A handler that outlives its deadline does not know it. Its
  result arrives while another attempt of the same request is open.
* **Threads in one process.** They share the runtime object, and a crash: when
  one handler takes the process down the work of all is lost. Their curl
  handles are separate only because they are `thread_local`.
* **Pointers that outlive their frame.** A handle keeps the addresses of locals
  of the last call. Every call has to reset and set all of them before curl runs.
* **Retries at two levels.** `run_handler` counts consecutive failures of
  `get_next()` and never repeats a POST; curl repeats a request on its own when
  a kept-alive connection turns out closed.
* **A handler inside a crash.** `SignalHandling` allocates and takes locks in a
  signal handler, on a stack that is freed at exit, in a process that may be pid
  1 and immune to what it raises.
* **State carried along.** One `outcome` is assigned eight headers in turn; one
  stream serves all snippets of a file; a flag of one sibling in a tree of
  debugging entries is seen by the next; a file is checked, then opened by path.
* **Leftovers.** The packager ends at any command that fails and leaves `./tmp`
  to the next run.
* **Boundaries.** Status codes 200 and 299, three retries, chunks of the size
  curl chooses, 512-byte buffers, the last control character, signed `char`.

`PROJECT.json` lists each of these at its line with the properties that cover it.

### What makes each component correct

* `run_handler`: a result reaches the attempt it was computed for; no work is
  posted twice; it gives up after three consecutive failures, or a failed POST,
  and for no other reason; nothing is lost without a failure outside of it;
  every request is answered in the end if the endpoint stays.
* HTTP client: a call sends its own payload, whole, once, and returns the whole
  answer to its own request, and curl never follows a dangling pointer.
* `http::response`: a lookup finds the first header of a name in any spelling.
* `json_escape`: a JSON parser reads the message back.
* logging: a line is printed whole from a buffer that holds it and is freed.
* `outcome`: exactly one member is alive at any time, and destroyed once.
* deadline: the remaining time is what the header says, or the failure is seen.
* packager: the zip holds the files of this binary and no others.
* Backward: a trace is the one of the stack the signal found, named after the
  files that are mapped, printed once, in order, and the process then ends.

## 2. Modules

`RuntimeApi` ◄ `RunHandler` (EXTENDS) ◄ `MCRunHandler`, `RunHandlerProofs` ◄
`InvocationsProofs`;
`RunHandler` instantiates `Invocations`. `Exchange` ◄ `MCExchange`,
`ExchangeProofs`. `Outcome`, which instantiates `TaggedValues`, and `Deadline` ◄
`GetNext`. `GetNext`, `PostResult`, `HttpResponse` and `JsonEscape` ◄
`MessagesProofs`; `Logging` ◄ `LoggingProofs`. `StackTrace` ◄ `Crash` ◄
`MCCrash`, `CrashProofs`. `ObjectFiles`, `Symbols`, `DebugInfo`, `Snippet` and
`Printer` ◄ `BackwardProofs`; `DebugInfo` ◄ `MCDebugInfo`.
`Packager` ◄ `MCPackager`, `PackagerProofs`. `MCParts` EXTENDS the modules of the parts that take
no step with each other: `HttpResponse`, `JsonEscape`, `PostResult`, `Logging`,
`GetNext`, `Snippet`, `MCDebugInfo`, `ObjectFiles`, `Symbols`, `Printer`. Each of
them is a specification of its own; `part` chooses one for a behaviour, so that
the states of one are not multiplied by those of another.

**RuntimeApi** owns the service's state: the requests that wait, which request
an attempt was made for, the attempt the service waits on for each request, and
the results it took. A POST that names an attempt is taken only if the service
still waits on that one; a POST without an invocation id, as an older service
would cause, is credited to whatever attempt of the request is open.

**RunHandler** has one program counter per thread:

| `pc` | where the thread is |
|---|---|
| `loop` | at the condition of `while` (`runtime.cpp:494`) |
| `next` | in `curl_easy_perform` of `get_next()` (`:254`), then in what follows it |
| `handler` | in the user's handler (`:514`) |
| `post` | before the POST (`:518`, `:524`) |
| `posting` | in `curl_easy_perform` of `do_post()` (`:430`), then in what follows it |
| `returned`, `down` | `run_handler` has returned; the process has died |

An exchange has three steps: the thread enters curl, the service answers into
`wire`, the thread leaves curl with the answer or, at any time, without. The
four ways out of `get_next()` other than success are actions of their own:
no response, an error code or no request id, no content type (a null pointer
given to `std::string`), a bad deadline (an `assert`, if compiled in). `origin`
travels with an attempt and is in no message: it records whose work a result is.
`streak`, `refused`, `posts` and `named` are history, read by properties only.

**Invocations** says what clients of a function are promised: attempts of a
request one after the other, each answered once, with its own result, or
abandoned; an answered request stays so. `RunHandler` implements it under the
refinement mapping at its end.

**Exchange** opens one call of `get_next()` or `do_post()`. Each thread has a
handle (`opts`: verb and pointers), a `frame` (the locals: payload length,
`ctx.second`, the body of the response) and a connection (`net`). A byte is a
pair of the frame it belongs to and its position, so that a byte of another
call, a repeated or a missing one would all be seen. A callback through a
pointer to a frame that is gone is not enabled (its effect is undefined);
`PointersFresh` says that curl never has such a pointer while it runs.

**HttpResponse** feeds header lines, character by character over a small
alphabet, to `write_header()`, and compares `get_header()` with what the lines
say, defined without reference to the code's scanning.

**GetNext** is `get_next()` after curl has returned, one step for each statement
on `out` and `req`: the lookup into a temporary, the move assignment, the end of
the temporary, the use. A value is named after the header it came with, so that
one in the wrong field is seen. The result goes to the loop in a second
`outcome`, as in `run_handler`. **Outcome** has the bytes of every object: the
flag and the member alive in the union; reading or destroying a member that is
not alive, or building over one that is, leaves it `Corrupt`.
**TaggedValues** says what an `outcome` promises, with no storage in it.
**Deadline** has `strtoul`, the asserts and the conversions at a width of `Width`
bits, with the wrap that the builds give.

**PostResult** is the other direction: the ways to make a response, the endpoint,
and the list of headers `do_post()` builds, merged with curl's own by curl's
rules (a header of the list replaces curl's of the same name, and one without a
value removes it).

**JsonEscape** escapes messages byte by byte. Its `FirstFour` is what `snprintf`
with six bytes leaves of `%04x` of an `int`, including negative ones.

**Logging** is `log()` with its two `vsnprintf` passes, for several threads; a
message is its formatted length, or one that cannot be formatted.

**Packager** is the script, one action for each command that changes files. A
file has a content that says which run wrote it and from what, or that it was cut
short; `Fail` may end a run at any command. Runs follow one another for one or
several functions on one machine, which is what `ldd` and the package manager
say of it.

**StackTrace** is what `load_here()` and `load_from()` keep of the frames the
unwinder comes to. **Crash** is `SignalHandling`, installed by the static object
of `backward.cpp`: dispositions, masks and the alternate stack, the process as
pid 1 or not, exit, and a handler whose steps wait for the allocator's lock. The
kernel's side (delivery, default actions) is external. **ObjectFiles** is how the
resolver over libbfd finds a file for an address: the path is resolved, its inode
compared, and the file opened, each a step of its own between which the file
system may change, with `/proc/self/exe` as the last resort. **Symbols** is what
it then does in that file: sections, two readings of the address, two tables.
**DebugInfo** is the resolver over libdw on a tree of debugging entries: the unit
of an address with and without an index, the depth-first search with its flag
`branch_has_pc`, the calls inlined there. The search for a function below an entry
is the one definition that is not written as the code runs: `find_fundie_by_pc()`
recurs into every child that is no declaration, and `FoundFrom` are the entries
from which it so comes to a given one. **Snippet** has the streams `SourceFile`
keeps open and the unsigned arithmetic of lines. **Printer** writes a trace in the
steps of its loops: the line of the object, each inlined call, the source, each
line of a snippet, with the state of `Colorize` and of the terminal. What a trace's
block (the text from one `#` to the next) names is kept in `os`, and `stained`
remembers what was printed in a colour.

## 3. Runs

| Run | Module, cfg | Checks | Size |
|---|---|---|---|
| `run_handler_safety` | `MCRunHandler`, `MCRunHandler.cfg` | `TypeOK`, `NoCrossWiring`, `ResultMatchesRequest`, `PostedAtMostOnce`, `ReturnsOnlyWhenSpent`, `NoAttemptWasted` | 2 threads, 2 requests, 3 attempts, 3 faults |
| `run_handler_live` | `MCRunHandler`, `MCRunHandlerLive.cfg` | `GivesUp`, `EventuallyAnswered`, `ImplementsInvocations` | 2 threads, 1 request, 3 attempts, 2 faults |
| `run_handler_no_content_type` | `MCRunHandler`, `MCRunHandlerNoType.cfg` | `NonSuccessIsRetried`: **violated** | 1 thread |
| `exchange_safety` | `MCExchange`, `MCExchange.cfg` | `TypeOK`, `PointersFresh`, `AnswerIsOwn`, `TakenIsWhole`, `TakenOnce` | 2 threads, 2 calls each, bodies and chunks up to 2 bytes |
| `exchange_live` | `MCExchange`, `MCExchangeLive.cfg` | `CallsReturn` | 1 thread, 2 calls, bodies up to 3, chunks up to 2 |
| `parts` | `MCParts`, `MCParts.cfg` | one or two properties of each part, below | below |
| `json_escape_signed` | `JsonEscape`, `MCJsonEscapeSigned.cfg` | `EscapesAreCodepoints`: **violated** | signed `char` |
| `logging_format_error` | `Logging`, `MCLoggingError.cfg` | `ErrorsAreReported`: **violated** | 1 thread |
| `packager` | `MCPackager`, `MCPackager.cfg` | `PackageIsComplete`, `PackageIsOwn` | 3 runs, 2 functions, 4 machines |
| `packager_default_libc` | `MCPackager`, `MCPackagerDefaultLibc.cfg` | `DefaultLibcHasNone`: **violated** | the same machines |
| `crash` | `MCCrash`, `MCCrash.cfg` | `TraceIsWhole`, `FirstCrashIsTold`, `CrashEnds` | 2 threads, 2 signals to come, 4 stacks |
| `debug_info_declaration` | `MCDebugInfo`, `MCDebugInfo.cfg` | `FunctionHasTheAddress`: **violated** | trees of 5 entries |

The parts of `parts`, which take turns as `part` says:

| Part | Properties | Size |
|---|---|---|
| `headers` (`HttpResponse`) | `LookupIsFirstSaid` | 2 lines, 5 characters |
| `json` (`JsonEscape`) | `RoundTrip` | 15 boundary bytes, 2 per message, both signs of `char` |
| `post` (`PostResult`) | `FramedByLength`, `SaysWhatHandlerSaid` | every way to make a response |
| `log` (`Logging`) | `WritesFit`, `PrintedWhole`, `NoLeak` | 2 threads, lengths 510, 511 and 512 |
| `outcome` (`Outcome`) | `OneMemberAlive`, `OutcomeIsTagged` | 3 objects, 2 values, any sequence of operations |
| `request` (`GetNext`, `Deadline`) | `RequestIsTheAnswer`, `DeadlineIsHonest`, `OneMemberAlive` | every subset of headers, 12 deadlines, 5 bits, with and without `assert` |
| `snippet` (`Snippet`) | `ShowsItsLine`, `SnippetIsOneRun` | 2 disks, 2 paths, both context sizes, 8 lines |
| `debug` (`DebugInfo`) | `InlinersAreAround`, `UnitHasTheFunction` | all trees of 5 entries a compiler may write, with and without index |
| `objects` (`ObjectFiles`) | `SymbolsAreTheProcess`, `LastResortWorks` | executable and library, 3 inodes, 2 changes |
| `symbols` (`Symbols`) | `SymbolIsTheAddress` | a relocated library, an executable that is not |
| `printer` (`Printer`) | `ReadsAsTheCalls`, `ColorsEnd` | up to 2 frames of 9 kinds, every colour mode |

What they show:

* With the invocation id, no result is ever credited to another attempt
  (`NoCrossWiring`); without it, never to another request
  (`ResultMatchesRequest`), but possibly to another attempt of the same one,
  which is what the header is for.
* `PostedAtMostOnce` holds because the loop ends at a failed POST. The comment
  "TODO: implement a better retry strategy" (`runtime.cpp:520`) marks the line
  that has to keep it true.
* One fault costs at most one attempt of each request (`NoAttemptWasted`): a
  crash in one thread takes the attempts of all of them along.
* curl's own retry cannot make the service take a payload twice (`TakenOnce`),
  as there is nothing that rewinds the read context. An empty payload is not
  covered: nothing of it has to be rewound.
* `get_next()` returns the request the answer describes, each header in its own
  field and none left from another (`RequestIsTheAnswer`), because the move
  assignment leaves exactly one member alive (`OneMemberAlive`). A deadline header
  of 0, of no number or out of range ends a debug build. In a release build a
  deadline the clock can count is the header's, and nothing, the wrap of one above
  about 9.2e12 included, gives the handler more time than the header does
  (`DeadlineIsHonest`).
* A zip that is said to be created is complete whatever earlier runs left behind;
  it has nothing but its own files if the run before it did not fail
  (`PackageIsOwn`), and may have others if it did.
* A crash trace that is printed to the end is the one of the stack its own signal
  found, whatever other signals come (`TraceIsWhole`). Where the signals come to
  one thread, each once, the first trace is printed before a signal ends the
  process (`FirstCrashIsTold`); with several threads, or a signal twice, it may be
  cut short. A handler ends the process, unless the signal stopped a thread
  inside the allocator: then it waits for a lock that is never released (`CrashEnds`
  names this case), and so does the handler of any other thread.
* The symbols of the executable are those of the mapped file although its path
  may name another by now, but for a change between the comparison of inodes and
  the opening (`SymbolsAreTheProcess` excepts it).
* Five disagreements between code and its own words, each in a run of its own:
  1. `get_next()` reads the content type before the status code, and an error
     answer without one ends the process instead of being retried
     (`runtime.cpp:276`, against the message at `:504`).
  2. `json_escape()` on a platform with signed `char` turns each byte of a
     multi-byte UTF-8 character into `\uffff` (`runtime.cpp:574`, against the
     comment at `:571`). Messages of ASCII, and all messages where `char` is
     unsigned, come back unchanged (`RoundTrip`).
  3. `log()` adds 1 to the result of `vsnprintf` before it asks whether it is
     negative; -1 becomes 0, and an unwritten buffer is printed where "error
     occurred during log formatting!" should be (`logging.cpp:49`).
  4. The packager tells C library files by their paths, and packages one in spite
     of `-d` where `ldd` and the package manager differ (`packager:148`, against
     the help at `:20`).
  5. `deep_first_search_by_pc()` keeps `branch_has_pc` from one sibling to the
     next; a declaration after the function that has the address is then taken
     for the function (`backward.h:2109`, against the comment at `:737`).

### Bounds

* `MaxFaults` bounds what goes wrong outside the runtime: lost answers, error
  answers, incomplete answers, crashes, expiry of an attempt somebody works on,
  the endpoint going away. Three are enough to spend `max_retries`, or for a
  late result to meet a replacement and a third attempt. Once the endpoint is
  gone (`GoDark`) failures no longer count.
* Two threads and two requests suffice for cross-wiring between threads and
  between requests; three attempts give one request two and leave one.
* `MaxStreak` caps the history `streak` one above `max_retries`, so that a loop
  that did not count would still be finite and be seen to go on.
* `run_handler_live` has three attempts and two faults: one attempt more than
  faults can use up, so that running out of them cannot end a behaviour. To spend
  three retries and then lose an attempt takes four faults and five attempts,
  which are finite but too many with two threads; the safety run spends them
  with three.
* In `Exchange`, two calls are the fewest with a dangling pointer between them,
  and bodies of 2 bytes, in chunks of 1 and 2, have a first, a middle and a
  last call of `read_data()`. `exchange_live` adds a payload longer than a chunk.
* Header lines: five characters are enough for two headers of which one has a
  value (`n:` and `N:v`), for two colons, and for blanks inside and around.
* `Lengths` in `Logging`: 510 characters and the terminator are the most that
  `log()` puts on the stack (`logging.cpp:57` compares with `>=`), 511 would just
  fit and go to the heap, and 512 would not fit; the theorems have all lengths.
* `Codes` has one 2xx and 300, the first code `is_success()` rejects.
* `Width` is 5 bits and a clock tick a third of a millisecond: `Texts` are the
  numbers on both sides of 0, of what is a time point, of the signed and of the
  unsigned range. The proportions of 64 bits and 10^6 ticks are the same.
* `MaxRuns`: a run that fails, one after it and a third that meets what the two
  left. The four machines are those the script's comments tell apart; one lists the
  loader under a second name, which must not be packaged as well.
* `MaxSignals`: two signals make every pair of threads and moments, and `Signals`
  has one twice, as `make_default_signals()` has SIGABRT by another name. `Depth`
  and `Slack` are 2 and 1 for 32 and 8, so that stacks are deeper than a trace.
* `MaxDies` is 5: root, unit and three more, the fewest with a function, a call
  inlined in another, and a declaration beside it.
* A source file has seven lines, more than one context and fewer than two, blank
  ones at both ends of it. `UINT_MAX` is 255, far from any line but around 0.
* `MaxChanges`: a file is deleted and replaced, or the reverse.
* `MCImages`: the executable is longer than its base, so that both readings of an
  address are addresses of some section.

Deadlock is not checked in any run: threads end, processes stay down once the
endpoint is gone, calls, lines, runs, signals and attempts are bounded.

### Fairness

* `RunHandler`: a thread that can go on does (the operating system's
  scheduling); the handler returns (the platform kills one that does not, which
  is a crash); the service answers an open exchange; an attempt nobody works on
  expires; a dead process is replaced. Transport errors are fair only once the
  endpoint is gone, when connections are refused at once. Both kinds of call set
  `CURLOPT_TIMEOUT` to 0, so a peer that accepts a connection and stays silent is
  waited for for ever: the models assume that a reachable service is not silent.
  Faults are never fair; services answer without a fault.
* `Exchange`: the thread, curl and the service make progress while the
  connection is up. Losing a connection and reconnecting are not fair. Answers
  to a POST need the announced number of bytes, which is what `CallsReturn` is
  about.
* `Crash`: a thread in the handler goes on whenever it can, also if what it waits
  for is free only again and again, as locks of the C library are handed on (SF);
  a thread of the program that holds the allocator's lock releases it (WF), unless
  a signal stopped it there. No signal is fair.

## 4. Proofs

The modules `*Proofs` hold theorems of the specifications themselves, without
bounds on threads, requests, attempts, calls, bodies, lengths, objects, files,
runs, stacks or signals. They rest on named assumptions of the modules only, which
TLC evaluates in every run of a module that has them. Most give a bound or a
symbol its kind (`NoIdAssumption`, `CodesAssumption`, `FlagsAssumption`,
`MaxFaultsAssumption`, `ExchangeAssumption`, `LoggingAssumption`,
`ObjectsAssumption`, `TextsAssumption`, `DeadlineAssumption`, `BytesAssumption`). The others say:

* `LocalsAssumption` (`GetNext`): the three outcomes that are alive at once, two
  in `get_next()` and one in the loop, are objects of the model.
* `LengthsAssumption` (`PostResult`): a length in digits is not the empty value.
* `LoadersAssumption` (`Packager`): a program is linked to one loader, and the name
  of a loader is not empty. The script's variable `PKG_LD` has room for one.
* `CrashAssumption` (`Crash`): a trace keeps at least one frame, and the unwinder
  reads as many more as the handler adds to a stack (`load_from()` reads 8 more).
* `ImagesAssumption` (`Symbols`): what linkers and loaders do. Code is in a section
  that is loaded, a relocated object is put above the addresses of its file, and a
  function has a name. An executable that is not relocated is the exception that
  section 5 names: no table may know a function at just its base below its code
  in another section.
* `ProgramsAssumption` (`DebugInfo`): what compilers write. The entries are a tree,
  numbered from the root on; a function is in a unit, none with code is within a
  declaration; and where there is an index, what it says of a unit are the
  addresses of the functions found in it.
* `SnippetAssumption` (`Snippet`): lines are numbered at least a context below the
  largest `unsigned`, and a context is not 0 (they are 5 and 7).
* `BacktracesAssumption` (`Printer`): debug information that has inlined calls has
  the source of the trace as well.
* `StacksAssumption` (`Crash`): the platform's side of a stack. An address is in the
  function that `FunctionOf` says, a return address after one in it; and no frame
  of the handler has the program counter of the code that the signal stopped.

| Theorem | Module | States |
|---|---|---|
| `Safety` | `RunHandlerProofs`, `ExchangeProofs` | `Spec => []IInv` |
| `TypeCorrect` | the same two | `Spec => []TypeOK` |
| `NeverCrossWired` | `RunHandlerProofs` | `Spec => []NoCrossWiring` |
| `ResultsMatch` | `RunHandlerProofs` | `Spec => []ResultMatchesRequest` |
| `NeverPostedTwice` | `RunHandlerProofs` | `Spec => []PostedAtMostOnce` |
| `ReturnJustified` | `RunHandlerProofs` | `Spec => []ReturnsOnlyWhenSpent` |
| `ImplementsAbstract` | `InvocationsProofs` | `IdSent = {TRUE} => (Spec => ImplementsInvocations)` |
| `FaultsAreAllThatWaste` | `InvocationsProofs` | `IsFiniteSet(RequestIds) => (Spec => []NoAttemptWasted)` |
| `PointersStayFresh` | `ExchangeProofs` | `Spec => []PointersFresh` |
| `AnswersAreOwn` | `ExchangeProofs` | `Spec => []AnswerIsOwn` |
| `PayloadsAreWhole` | `ExchangeProofs` | `Spec => []TakenIsWhole` |
| `PayloadsTakenOnce` | `ExchangeProofs` | `Spec => []TakenOnce` |
| `HandlersGetTheAnswer` | `MessagesProofs` | `RequestSpec => []RequestIsTheAnswer` |
| `HandlersDeadline` | `MessagesProofs` | `RequestSpec => []DeadlineIsHonest` |
| `PostsAreFramed` | `MessagesProofs` | `PostSpec => []FramedByLength` |
| `PostsAreTheResult` | `MessagesProofs` | `PostSpec => []SaysWhatHandlerSaid` |
| `LookupsAreFirstSaid` | `MessagesProofs` | `HeadersSpec => []LookupIsFirstSaid` |
| `BodiesAreReadBack` | `MessagesProofs` | `JsonSpec => []RoundTrip` |
| `MembersAlive` | `MessagesProofs` | `OutcomeSpec => []OneMemberAlive` |
| `OutcomeIsTagged` | `MessagesProofs` | `OutcomeSpec => ImplementsTaggedValues` |
| `BufferIsSafe` | `LoggingProofs` | `LogSpec => []WritesFit` |
| `MessagesAreWhole` | `LoggingProofs` | `LogSpec => []PrintedWhole` |
| `BuffersAreFreed` | `LoggingProofs` | `LogSpec => []NoLeak` |
| `SymbolsAreSafe` | `BackwardProofs` | `ObjectsSpec => []SymbolsAreTheProcess` |
| `LastResortIsSafe` | `BackwardProofs` | `ObjectsSpec => []LastResortWorks` |
| `SymbolsAreTheAddress` | `BackwardProofs` | `SymbolsSpec => []SymbolIsTheAddress` |
| `TheUnitIsFound` | `BackwardProofs` | `DebugSpec => []UnitHasTheFunction` |
| `SnippetsShowTheirLine` | `BackwardProofs` | `SnippetSpec => []ShowsItsLine` |
| `SnippetsAreOneRun` | `BackwardProofs` | `SnippetSpec => []SnippetIsOneRun` |
| `PrintsInTheOrderOfTheCalls` | `BackwardProofs` | `PrintSpec => []ReadsAsTheCalls` |
| `ColorsAlwaysEnd` | `BackwardProofs` | `PrintSpec => []ColorsEnd` |
| `TracesAreWhole` | `CrashProofs` | `Spec => []TraceIsWhole` |
| `FirstIsTold` | `CrashProofs` | `Spec => []FirstCrashIsTold` |
| `Safety` | `PackagerProofs` | `Spec => []IInv` |
| `CreatedIsComplete` | `PackagerProofs` | `Spec => []PackageIsComplete` |
| `CreatedIsOwn` | `PackagerProofs` | `Spec => []PackageIsOwn` |

**RunHandler.** That a result is credited to the right attempt is not inductive:
it depends on what threads and messages on the way hold. `IInv` adds that a
thread that works holds exactly one attempt, made for the request it names, with
its id if that was sent (`Holding`); that no two threads or answers hold the same
attempt (`Disjoint`); that what is in flight was assigned to that request; and
that `retries` equals the streak of failures and reaches `max_retries` only where
the loop ends (`Counting`). One lemma per group of actions shows that it is kept.

**Invocations.** The assumption `IdSent = {TRUE}`, that every attempt comes with
its id, is needed: without it a late result is credited to the attempt that
replaced its own. `RInv` adds to the invariant of `RunHandler` that every attempt
has its id (`AllNamed`) and that a request waits in the queue, waits for an
attempt, or is answered, and only one of them (`OnePlace`); the cases of `StatusOf`
then exclude each other (`StatusIs`). Every step hands out an attempt, takes a
result, lets an attempt expire, or leaves what clients see alone (`StepsSeen`); the
first three are `Issue`, `Answer` and `Abandon`, each of one attempt
(`StatusChanges`).

**The price of a fault.** `NoAttemptWasted` compares numbers of attempts with
numbers of faults, and is proved by keeping an account. An attempt is `Lost`
once it can no longer be answered with its own work. The fault that causes this
may come earlier: an answer of the service that will cost its thread, or by a
crash all threads, what they hold is a fault when it is sent and is `Flawed` until
the thread consumes it. So `Charged` counts both: what is lost, and for each
flawed answer on the wire one attempt of each request, are paid for by the faults so
far. `Kind` says what a step may do to the account: nothing, a fault that takes
attempts in flight at once, a fault that is still on the wire, or such a fault
consumed. At most one attempt of each request is in flight, so a fault costs at
most as many as there are requests; that there is a finite number of them is the
theorem's only hypothesis. Ids need not be sent.

**Exchange.** `Pointing` says that the handle has the options of the call in
progress, which is so because no other thread has the handle and every call
resets it. From it follow `Sending`, the bytes on the connection are the part of
the payload that was read, and `Receiving`, the body of the response is the part
of the answer that was delivered. `Taking` adds that a payload the service took
has left a non-empty trace on the connection, so that curl's retry is ruled out.
The proof has a lemma that reduces a step to the part of one thread
(`OneThread`), four about sequences of bytes, and one per action.

**GetNext.** `RequestInv` says at each statement what the locals are. `Locals` has
the lifetimes: `out` is alive from the first lookup on, `tmp` between a lookup
and the end of its statement, `next` once the loop has the result, and each that is
alive has the member its flag names, with the header it was looked up for
(`Finds`). `RequestOK` has the request: at the nth statement the fields looked up
so far are those of the answer and the later ones are as constructed
(`Filled`). The deadline is arithmetic for a clock of any width and tick:
`AsCount` is the wrap, of a product that can be any number of turns away from
the count, and the lemmas bound what is left of the time by the header whichever
turn it is.

**PostResult.** `PostInv` is that the POST the service got is what `do_post()`
makes of some result and id. The rest are lemmas about lists: the entries of a
list that is put together are those of its parts (`Joined`), and the merge with
curl's own headers is by name, so that the names of the two sides decide which
of them the request has.

**HttpResponse.** The list of headers is shorter than the list of lines, as a line
without a colon leaves none. `HeadersInv` relates the two by name: the first header
of a name has the value of the first line that tells it (`Telling`), and there is
none if no line does. `TellsIsSays` is that what the scan for the colon and
`trim()` find is what the line says: the text between the blanks of a part is
unique (`TrimIsPadded`, `PaddedIsTrimmed`), and the CR LF that curl passes with a
line is trimmed off (`TrimDropsCRLF`). That a set of positions has a first and a last
is where an induction would be expected; it comes from the library's theorem that
the order of the natural numbers is well-founded (`HasLeast`, `HasGreatest`).

**JsonEscape.** `JsonInv` is that what is written is, byte by byte, the escape of
what was read. Of one byte (`EscapeIs`): its escape is legal in a JSON string, is
not a quote that could end one, and stands for the byte if the byte is ASCII or
`char` is unsigned. So the first quote after the one that opens a string is the
one the frame closes it with (`ClosesAt`), the strings are found where
`failure()` puts them (`InTheFrame`), and decoding is a matter of one byte at a
time.

**Outcome.** `OutcomeInv` is the type of the storage, `OneMemberAlive`, and that a place
where no object is made holds no value. Each of `Built`, `destroy`,
`Made` and `Assigned` has a lemma about one object; `OneChanged` and `TwoChanged`
lift them to the objects a step touches. The same case analysis shows that each
step is one of `TaggedValues`, so that the refinement is proved with the
invariant, and not only checked.

**Logging.** `IInv` ties each thread's place in `log()` to the length it measured,
the size it passes and where its buffer is (stack, heap, none).

**ObjectFiles.** What has to be added is about the cache: what it has for the
executable's path was the mapped file when it was loaded, what it has for
`/proc/self/exe` always is (`CacheIsTheProcess`), and between the comparison of
inodes and the opening the path still leads to what was compared, unless the file
system changed (`CheckHolds`).

**Symbols.** A section answers for an address with one of two readings of it. For a
relocated object only the reading less the base is in a section of the file, and
for one that is not relocated the other reading is known to no table, so that a
section that finds something finds what the tables know of that address
(`FindsTheAddress`), and where they know something some section finds it
(`SomeSectionFinds`). The first section that finds it is therefore as good as
any. `ImageInv` carries this from the step of one trace to the next.

**DebugInfo.** `DebugInv` is that a resolved trace has the unit that `resolve()`
computes. That the unit has a function with the address is a lemma on trees
(`IsInAUnit`): the entries from which a function is found are those reached from it
through parents that are no declarations, and among these is one below the root,
because numbers fall towards the root and a set of numbers has a least one
(`HasLeast`), which takes the place of an induction over the tree.

**Snippet.** `SnippetInv` says that the last snippet is the one that a stream just
opened would have given: what earlier reads left in the stream, position or
failure, makes no difference (`LinesAre`), because `get_lines()` clears the stream
and goes back to the start. The rest is arithmetic that wraps round
(`UnsignedIs`, `StartIs`): from half the context on, the line is among those read,
and is kept if it is not blank. What is kept is one run (`KeptIsOneRun`). For the
lines before, the start wraps round to a number that the end, which wraps too, is
not above: nothing is read, and no other lines are shown instead
(`ShownIsOneRun`).

**Printer.** `PrintsTheCalls` says what `os` is at every step: a block for each
trace that is done, which is `CallsOf` it (`BlockIs`), and for the one at hand as
much as the loop over the inliners has come to (`Upto`). `ColorsAreBack` is that
between two lines of a snippet no colour is on, and that none is ever on unless
`Colorize` is enabled.

**Crash.** The lemmas on `load_from()` say what the trace of a stack is: the frames
of the handler are skipped because the search for the program counter finds it
just below them, and the frames nearest to it, as many as `Depth`, are kept
(`LoadedIs`). `HandlerInv` then follows every thread in the handler: `Tracing`, what
it has loaded, resolved and printed is what its own stack gives, up to the line
it is at. This is what no other thread in the handler may disturb. `Waits` is for
`FirstCrashIsTold`, whose hypothesis is that signals come to one thread, each
once: the first signal that was handled is told to the end, or its thread is in
the handler with its stack and the process is not ended by a signal.

**Packager.** What is in `./tmp` at any moment is the work of several runs, so
`IInv` tells them apart. `Collected`: the files this run was to write so far are
there, written by this run and whole, first in `./tmp`, then in the zip there,
then in the zip outside; the loops are covered by what is left in `todo`. `Clean`: if the
run before did not fail, there is nothing else, and one file at each place.
A library that is copied twice is what makes this hard to see by looking at
one command: the second copy replaces the first, and has to be as good.

**Only model-checked:** liveness (`GivesUp`, `EventuallyAnswered`, `CallsReturn`,
`CrashEnds`), which is out of the prover's reach; and `InlinersAreAround` of
`DebugInfo`: what the depth-first search calls back for is a recursive function of
folds over the tree, and what it yields for every tree needs an induction over
data, with an operator as parameter. Every other property of a passing run is a
theorem; `OutcomeIsTagged` is so as `ImplementsTaggedValues`, of `OutcomeSpec`
instead of the behaviours of `parts`.

## 5. Not modelled

* Of Backward: the stack loaders over libunwind and `backtrace()` and the resolver
  over libdwarf, which are alternatives to the ones modelled and chosen by no
  target here; Darwin and Windows; the demangler and thread names; the option
  `Printer::snippet`, which nothing turns off. What the handler running on a
  freed alternate stack destroys is not modelled, only that it may run there.
* Of the HTTP client: connection set-up, the proxy, the debug output of curl, the
  protocol options, and time. A service that accepts a POST and stays silent is
  waited for for ever (`CURLOPT_TIMEOUT` is 0, `runtime.cpp:223`): the models
  assume it away, as said under Fairness, and no property could hold otherwise.
* `post_init_error()` in the loop: nothing in the library calls it. It is a call
  of `Exchange` and a POST of `PostResult`.
* Packagers that run at the same time in one directory: they share `./tmp` and
  the script has nothing to keep them apart, so there is no property to state.
* Executables that are not relocated, longer than their base (4 MB) and with a
  function at just that distance in an earlier section: `Symbols` would show the
  wrong name for an address, as the code does; `ImagesAssumption` leaves them out.
* Version, build and packaging targets, CI, examples and tests: constants,
  descriptions of the build, and users of the library.
