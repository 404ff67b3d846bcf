# A TLA+ model of cj-lang's language server

This directory is a specification of cj-lang (a Cangjie front end
and language server in Rust): TLA+ modules translated from the sources, TLC
configurations that check them on small instances, and theorems with proofs
that TLAPS checks for every value of the constants.

    tlc -workers 2 -config LspSession.cfg LspSession.tla     # one run
    tlapm ScanCacheProofs.tla                                # one module's proofs

Paths below are relative to the root of the repository; `server.rs` and
`main.rs` are those of `crates/cj-lsp/src`.

## 1. The system

Eight crates in a pipeline, and one long-lived process:

    editor ==stdin==> main.rs ==> server.rs ==> cj-lexer -> cj-parser -> cj-sema -> cj-diag
           <=stdout==  loop       handlers          |                      |
                                     |              v                      v
                                  open_docs      cj-ast             macro cache, Cangjie runtime
                                  scan_cache <== files of the project   (dylib.rs)
                                                 (written by others)

| component | state it keeps | operations | interacts with |
|---|---|---|---|
| loop (`main.rs`) | the header of the frame under way | `read_message`, dispatch, `write_message` | editor by two pipes; server by calls |
| documents (`server.rs`) | `open_docs`, `doc_versions` | didOpen, didChange, didClose, `publish_diagnostics`, rename | editor; disk when a buffer is empty |
| scan cache (`server.rs`) | per root: path -> (mtime, declarations) | `refresh_sibling_cache` | files that other programs write |
| macro compile cache (`macro_cache.rs`) | `.macro-cache/<hash>.so`, outliving processes | `compile_macro_package` | the user's sources, `cjpm build`, other processes |
| expansion memo (`macro_cache.rs`) | `expanded`, `lru` per analysis | `expand_cached` | macro runtime |
| macro runtime (`dylib.rs`) | `RUNTIME`, `INIT_LOCK`, `INIT_FAILED`; tasks | `ensure_runtime`, `expand_macro_call`, `run_pkg_init` | the Cangjie runtime's threads |
| lexer (`lexer.rs`) | cursor, line, column, errors | `next_token`, one scanner for each kind of token | parser, features |
| parser (`cj-parser`) | token cursor, errors | `parse_file` and one function per construct | tokens, tree, diagnostics |
| collector (`cj-sema/lib.rs`, `parallel.rs`) | table of a file, table of the package | `collect_file` per worker, `merge` | trees of all files |
| passes over the tree (`cj-sema`) | scopes, sets of names | resolver, unused, checks, overloads, package, calls and literals, expander | tree, package table, signatures of the scan cache |
| dependency graph (`dep_graph.rs`) | graph of top-level variables | `build`, `detect_cycles`, `topo_order` | collector |
| occurrences (`references.rs`, `code_lens.rs`, `document_highlight.rs`, `rename.rs`) | none | the name at the cursor, where it occurs | tree, documents |
| outlines (`document_symbol.rs`, `workspace_symbol.rs`) | none | ranges of symbols | tree, tokens |
| quick fixes (`server.rs`) | none | `compute_remove_range` | tokens, diagnostics |
| other features (`completion.rs`, `hover.rs`, `signature.rs`, ...) | none | pure functions of buffer and scan cache | documents, scan cache |
| `cjpm.rs` | none | project root, source directories, visible packages | `cjpm.toml` |

The server is one thread: it reads a message, handles it to the end, writes
what the handler returns, and reads again. It still lives among others: the
editor sends without waiting, other programs write the files it scans, several
servers and builds share the artifacts on disk, and the tasks of the Cangjie
runtime go on after the call that started them has given up. Within an
analysis rayon's workers collect and resolve in any order.

What makes each part correct, and what is hard about it:

- **Documents.** The server's copy of a document goes through the editor's texts
  one by one; diagnostics catch up with the last text; an answer that carries a
  version is about the text of that version. Hard: edits under way, several
  changes in one message, positions at line ends.
- **Loop.** Frames are served once, whole and in order, however the headers
  look; every request is answered once; the exit status tells an orderly
  shutdown from another end; two blocking writers never wait on each other.
- **Scan cache.** What a refresh returns is what was on the disk while it ran;
  unchanged files are not parsed again. Hard: the time of a file and its content
  are read by separate system calls.
- **Macro compile cache.** The key of a call is not older than the call; what
  is cached is used and kept; an undisturbed call gets a library of its own
  sources. Hard: hashing while the user edits, builds that fail, crashes.
- **Macro runtime.** Every call returns its own result or its fallback; nothing a
  task still writes to is freed; the memo keeps the calls used last. Hard: a
  task ends just before or long after the deadline.
- **Lexer.** No character is lost and no call returns without taking one; words
  read as themselves whatever stands next to them; positions are true, for every
  diagnostic and range is made from them. Hard: numbers, which look ahead in
  five ways and once go back.
- **Parser.** A program reads back as the tree it was written from; what is broken
  is reported, leaves a well-formed tree, and never stops the parser from
  reading on. Hard: `<`, `{`, line breaks and `>>` mean different things, decided
  by scans ahead; recovery in the middle of constructs.
- **Semantic passes.** The same in any order of workers; what is told is told
  exactly when the rule is broken, although the rule is split over passes that
  each see some of the tree. Hard: several walks over one tree that must agree.
- **Dependency graph.** What is reported is a cycle, and every cycle loses an
  edge to a report, in every iteration order of the hash map.
- **Occurrences, outlines, quick fixes.** What is at the cursor, what occurs, what
  is counted, highlighted, renamed or deleted are found by separate walks and
  scans that must agree with each other and with the text.

`PROJECT.json` lists every component with its status, and the hazards of the
code at their lines with the properties that watch them.

## 2. Modules

| module | source | what it is |
|---|---|---|
| `TextEdit` | `server.rs` 1011-1086, 1311-1325 | positions, offsets and one edit of a text |
| `DocumentBuffer` | `server.rs` 642-657 | `TextEdit` on every text and edit |
| `LspServer` | `main.rs`, `server.rs` | the server's actions, one per message |
| `LspSession` | (environment) | `LspServer` composed with an editor and two bounded pipes |
| `DocumentMirror` | | the abstract promise of document synchronisation |
| `Framing` | `main.rs` 29-145 | `read_message` and the loop, line by line |
| `ScanCache` | `server.rs` 831-936 | `refresh_sibling_cache` among programs that write files |
| `MacroCache` | `macro_cache.rs` 84-317, `expander.rs` 392-435 | artifacts, processes, user |
| `MacroRuntime` | `dylib.rs` 227-520, `macro_cache.rs` 151-174 | runtime, tasks, memo |
| `MacroCalls` | | the abstract promise of a macro call |
| `Lexer` | `lexer.rs` | `next_token` with its scanners, positions and errors |
| `TokenCursor` | `parser.rs`, `token.rs` | the parser's cursor, classes of tokens, recovery |
| `TypeParser`, `Parser` | `ty.rs`, `expr.rs`, `decl.rs` | types; patterns, expressions, declarations |
| `ParseFile` | `parser.rs` | header, imports, declarations, one iteration a step |
| `Syntax` | `generated.rs` | what a node of each kind consists of |
| `QuickFix` | `server.rs` 1335-1511 | the range a fix deletes |
| `Outline` | `document_symbol.rs`, `workspace_symbol.rs` | ranges of symbols |
| `Symbols` | `cj-sema/lib.rs`, `overload.rs`, `parallel.rs` | collector, tables, signatures, conflicts |
| `Resolver`, `Unused` | `resolver.rs`, `unused.rs` | undeclared names, unused declarations |
| `TypeCheck`, `Checks`, `Package` | `typecheck.rs`, `checks.rs`, `package.rs` | calls and literals, single rules, imports |
| `Expander` | `expander.rs` | calls of macros and what becomes of each |
| `Analysis` | `parallel.rs`, `server.rs`, `cj-frontend/lib.rs` | all passes over one document; workers |
| `DepGraph` | `dep_graph.rs` | graph, cycle search, evaluation order |
| `Occurrences` | `references.rs`, `code_lens.rs`, `document_highlight.rs`, `rename.rs` | where a name occurs |
| `ScanCacheProofs`, `MacroCacheProofs`, `MacroRuntimeProofs`, `DepGraphProofs`, `DocumentBufferProofs`, `LspSessionProofs`, `FramingProofs`, `LexerProofs` | | theorems about the module of that name, and their proofs |
| `MCScanCache`, `MCDepGraph`, `MCMacroCache` | | values of function constants for TLC |
| `MCLexer`, `MCParser`, `MCAnalysis` | | sources and programs for TLC, properties over them |

Conventions. Actions have the names of the functions or of their steps. A
definition called "mutant" in its comment is a plausible bug in the definition
after it, used to see that a property can fail; no specification uses it.
Variables under "History" are read by no action of the program. The program
is composed twice: `LspSession` is the server with its editor, `Analysis` the
passes over one document; what `publish_diagnostics` makes of a text is one
opaque step there and every step of `Analysis` here.

**TextEdit, DocumentBuffer.** A text is a sequence of characters, one of them
the line break; offsets count characters where the code counts bytes (the code
only ever cuts at character boundaries). `LspPosToByte`, `LineCharLen`,
`OffsetToLspPos` and `ApplyIncrementalChange` are the functions of those names,
with their clamping. The reference they are checked against is what the
protocol says of a position.

**LspServer, LspSession, DocumentMirror.** `openDocs`, `docVersions`,
`shutdownReceived` and `exitCode` are the fields of `LspServer`; `toServer` and
`toClient` are stdin and stdout, of bounded capacity, and a handler that has to
write waits for room, as `write_message` does when the pipe is full. `DidChange`
folds its content changes in order and stores the version whether or not the
document is open. `PublishDiagnostics` is part of didOpen and didChange and
carries the text that was analysed: the buffer, or the file when the buffer is
empty. The editor edits anything anywhere without waiting, saves, closes, asks
for renames, shuts down in order or not, or disappears. The server's
capabilities advertise full synchronisation (`server.rs:90`) while did_change
handles ranges as well (642-644), which the repository's own clients send; the
editor does both. `DocumentMirror` is what all this promises: the server's
documents stand at a stage the editor's were at, and go through the stages that
are left one after the other, none left out. `LspSession!Mirror` maps to it: the
editor's copies, and as stages the server's followed by what each message under
way makes of the one before it. Every message is a stage, also one that changes no
document.

**Framing.** stdin is a sequence of symbols (fields of a header, line ends,
units of a body), and a symbol of a header is none of a body; the reader takes what `read_line` and `read_exact` would take, even
when the line it gets is part of a body. Shapes of a frame: correct (with other
fields, blank lines around, the length twice) and faulty (a length that does
not parse, too short, too long, a body too large for the stream).

**ScanCache.** One system call per step: the walk takes the time of one file,
a later step reads the content of one. Between them others write, truncate or
delete. A content stands for what the parser makes of it: its package and its
functions; `Endings` says which uris the path of a file ends with, for that is how
the open document is told from the others. `Touch` keeps the history the properties
speak of.

**DepGraph.** `dfs_cycle` recurses; here its frames are the variable `stack`,
each with the reference it is to follow next, so that no operator is recursive
and the search can be proved about. Every pick from a hash map is `\E`.

**Lexer.** One step is one call of `next_token`: blanks, then the scanner the
first character chooses. A scanner is an operator from an index to a scan (kind,
end, errors); loops over runs of characters are the end of the run, escapes and
nested comments recursive functions over the index. Offsets count characters;
`Bump` and `BumpChar` differ in the columns a wide character takes. `MCLexer`
puts sources together from the words of the language, so that what they should
read as is known without a second lexer, and adds every short text over six
alphabets.

**MacroCache.** Two processes run `compile_macro_package` a step at a time on
one package: hash file by file, look for an artifact, build, find what lies in
`target/release`, copy (a start and an end, for `fs::copy` is not atomic), load.
Every step that can return an error may: the first and the second search, the
listing of the sources, `create_dir_all`, `build_macro_package` (no
`envsetup.sh`, no bash) end the call in the quote template; a copy that fails
before or while it writes is ignored, as is the status of cjpm, which may make
nothing. The user edits, builds and cleans; a process may die anywhere. `Key` is
the text that is hashed, the lines of all files without a mark between them. (A
`Command::output` that fails after bash was started, and files that come or go,
are left out.)

**MacroRuntime, MacroCalls.** Threads with a memo each share the statics of
`dylib.rs`. A call goes through `ensure_runtime` (two loads, lock, second look,
start) and then starts a task and polls. A task runs when the runtime likes and
may end after `TimeOut`. `context`, `node` and `library` say what of its memory is
alive. `MacroCalls` knows none of this: a call is asked, and returns what its macro
made of it, if it ran, or the fallback; the memo holds at most `Cap` calls.

**TokenCursor, TypeParser, Parser, ParseFile, Syntax.** A token is its text; a
parser is a record of the tokens, the index of the next, the errors and the
node parsed last; a parse function maps the parser it is given to the one it
leaves, as the Rust functions do with `&mut Parser`; those that call one another do
so through one recursive operator, `Parse`. A node is a tuple that
starts with its kind. `peek` skips comments and line breaks as the code does, and
the few places that must see a line break look at the tokens themselves.
`MCParser` writes trees out by printers that know precedence and nothing of the
parser, so that what comes back can be compared; it then inserts a comment, a
line break or a stray token at every place, or takes a bracket away.

**QuickFix, Outline.** Both scan the tokens again to find where a declaration
ends; ranges are pairs of tokens. `MCParser` knows from its printers where each
declaration and name is.

**Symbols to Expander, Analysis.** Each pass is an operator from a document (and
the package table, the signatures, the project) to a sequence of diagnostics;
a declaration stands for its position. `Analysis` runs the collection by workers
that finish in any order, the resolver's declarations in any order, and then
the passes in the order of `analyze_source`. The cycle search enters by what
`DepGraph` proves of it. `MCAnalysis` makes documents of the declarations that
matter for each pass, in pairs, triples and packages.

**Occurrences.** A position is the path from the root of the document to a node,
so that two walks can be compared place by place. Each of the code's walks is
given by the kinds of nodes it goes into (`CursorKinds`, `RefKinds`, `LensKinds`).

External definitions (the editor, other programs, the user, the client's end
of a stream) are marked so in `PROJECT.json`; they allow whatever the
code has to cope with.

## 3. Runs

| run | distinct states | bounds | what it shows |
|---|---|---|---|
| `LspSession` | 579 000 | 1 document, texts of 2 characters, 2 versions, pipes of 2, 1 request | `NoStaleRename`, `AnsweredOnce`, `OrderlyStop`, `MirrorsTheEditor` (refinement of `DocumentMirror`), `DiagnosticsCatchUp`, `Responsive` |
| `DocumentBuffer` | 121 | every text of up to 4 characters over 2 letters and the line break, every edit | `EditTouchesItsRange`, `ConversionsInverse` |
| `Framing` | 28 600 | 2 frames of 3 pieces at most, 10 shapes | `ServedAsSent`, `AllServed` |
| `ScanCache` | 3 185 000 | 2 files, 3 contents (two packages, one unreadable), 2 ticks of the clock, 4 requests | `TimeTellsContent`, `NoOlderThanRefresh`, `QuietAnswerExact`, `SettledNotReread` |
| `DepGraph` | 105 600 | 3 names, programs of up to 3 declarations | `ReportsAreCycles`, `ReportsBreakEveryCycle`, `OrderIsValid` |
| `MacroCache` | 11 350 000 (up to the symmetry of the processes) | 2 processes, 2 files of 2 contents with 3 keys, 2 acts of the user | `KeyNotOlderThanCall`, `QuietCallExact`, `CachedIsKept` |
| `MacroRuntime` | 1 090 000 | 2 threads, 3 keys, memo of 2, 4 calls, 2 tasks | `HoldsTheLastUsed`, `ContextOutlivesTask`, `ImplementsCalls` (refinement of `MacroCalls`) |
| `MacroRuntime_late` | stops at the violation | as above | `TaskTouchesLiveMemory` fails |
| `Lexer` | 290 000 | every pair of 98 words apart, triples together; every text of up to 4-6 characters over 6 alphabets | `TokensInPlace`, `ReadAsMeant` |
| `Parser` | 233 000 | every operation on every simple expression, every pair of declarations of each kind, every pair of parameters; each with one token more or less at every place | `ReadsBack`, `UnbalancedIsReported`, `FixRemovesWhatItNames`, `OutlineNests`, `EveryStepReads` |
| `Analysis` | 92 000 | every pair of some sixty declarations, triples of related ones, imports, packages of 3 files | `SameInAnyOrder`, `ScopesInOrder`, `KnownFromTheNextStatement`, `UnmentionedIsTold`, `InitOrderTold`, `CallsSeeThePackage`, `MacrosResolve`, `LensesShowReferences`, `RenamedUnderTheCursor`, `HighlightsAreMutual` |
| `Analysis_parameters` | stops at the violation | as above | `ParametersAreInScope` fails |

Why the bounds are enough. A pipe of two messages already lets an edit, an
older answer and a request be under way together, and fills; texts of two
characters have an empty line, a line end, a first and a last line, and the
positions beside them. Two files are the least with one settled and one
disturbed, two ticks let a file change before and after it was read. Three
names are the least with a cycle that is not the whole graph, reached from
outside, in every order. Two processes and two acts of the user give a build
overtaken by an edit, an artifact met half copied, and two packages that share a
key. The processes are the same program, so TLC may take one for the other
(`MCSymmetry`). A memo of two with three
keys evicts, and four calls let a hit change what is evicted; with two tasks
one is late while the next runs. Six characters hold an opened and closed
literal of several lines, or a comment in a comment; the longest look ahead of
the lexer is three. Two operators next to each other decide precedence and
associativity, and an expression within an operation within a statement puts
each construct into each other once; one error at every place meets every
recovery. The semantic rules relate two declarations, and a cycle of three is
among the triples.
The limits (`MaxText`, `MaxVersion`, `MaxTime`, `MaxEdits`, `MaxCalls`,
`MaxTasks`, `MaxFrames`, ...) are guards of the environment's actions, except
`MaxTasks`, which bounds the tasks a run starts.

### Fairness

- `LspSession`: a turn of the server's loop that can be taken is taken
  (`main.rs` reads again as soon as the handler returns), and the editor
  empties its pipe. Nothing obliges the editor to send, save or stop.
- `Framing`, `DepGraph`: the code goes on until it waits for input or returns.
- `MacroRuntime`: the threads go on (a caller polls until its deadline); the
  tasks owe nothing, so `ImplementsCalls`, which includes that every call returns,
  holds with tasks that never run or never end.
- `ScanCache`, `MacroCache`, the parser and the passes: safety only. A build may
  take for ever; the parser's progress is an action property (`EveryStepReads`).

### Disagreements between the code and what is said of it

1. A task that is late uses a node and a library its caller has dropped
   (`MacroRuntime_late`); the result's memory is safe (`ContextOutlivesTask`).
2. A parameter used in the body of its own function is told undeclared by the
   resolver (`Analysis_parameters`), although the local scope is documented as
   "parameter + local variable names" (`resolver.rs:20`).

Others that the models show, or that the properties state around, and that have
no run of their own. Of the documents and the caches:

- The version stored by didChange is one too many for an editor that states the
  new version; with the convention of the official suite, which states the old
  one, `NoStaleRename` holds.
- Columns count code points in edits (`server.rs:1014`) and UTF-16 units elsewhere
  (`semantic.rs:54`); `MirrorsTheEditor` is about texts where they are the same.
- `self_path` "excludes the opened file itself" (`server.rs:846-847`), but what is
  left out are the files whose path ends with that text (907): with the relative
  uri `a.cj` also `data.cj`, and an open file whose uri is not written like its
  path is offered to itself. `QuietAnswerExact` says what is left out by `Endings`.
- An artifact can be filed under the hash of sources it was not built from
  (`macro_cache.rs:141-146` against 86-87): a failed build or an edit during it is
  not noticed. `QuietCallExact` says what an undisturbed call makes of what it finds.
- "Keyed by content hash so edits invalidate precisely" (`macro_cache.rs:87`): the
  hash is of all texts in a row (250-256), so lines moved from the end of one file to
  the beginning of the next invalidate nothing, nor does a file that is no text.
- `topo_order` ("Returns None if the graph has a cycle") also returns none for an
  acyclic program whose initializer refers to a name twice or to one outside
  the package; `OrderIsValid` states exactly when.

Of the lexer:

- `bump_char` "updates column by 1 codepoint", but comments are passed with
  `bump`, so what follows a block comment with a wide character on its line has
  a column that is too large; `TokensInPlace` excepts it (`AfterWideComment`).
- A suffix is to "stop at a '.' that begins a member access": it does not when
  the member's name starts with a wide character or a backquote (`InSuffix`).
- A wide character that starts no identifier becomes an illegal token without an
  error, and a block comment that is never closed reports nothing.

Of the parser:

- Conditions joined by `&&` (`expr.rs:1332-1337`) are read as one binding whose value
  is the conjunction.
- `sync_to_decl_boundary` names the line break as a boundary (`parser.rs:607`), but
  `peek` skips line breaks: the modifiers of the next declaration are skipped too.
- Of the declarations of a `foreign` block, which are to be flattened into the
  parent, only the first is kept; a `;` before its closing brace is an error.
- The scan that decides whether `<` opens type arguments runs to the end of the
  file, so that a later `> (` decides about an earlier comparison.
- `return` does not take a value that starts with `quote`, `@`, `++`, `--`, `perform`
  or `resume`; these become a statement of their own.
- An annotation `@M(...)` of a declaration stops at the first `)`; an unclosed `@A[`
  takes the rest of the file silently.
- A `;` after the package header is accepted and not taken, and the imports
  behind it are reported as no declarations.

Of the passes:

- Functions and variables used only in a bare `main`, or only in a loop or a
  `match`, are told unused, with a fix that deletes them.
- Arguments in excess are not told; named arguments are matched by position; an
  option or float type given an integer literal is told a mismatch.
- Methods of one signature are not told; `let c = [c]` is not told; the arity of a macro
  counts tokens; `@Deprecated` is told unresolved; `This`, sibling types and
  variables of other files are told undeclared by some of the checks.
- A function deleted or renamed in the buffer keeps its saved signature.

Of the features:

- A quick fix of a function without a body deletes up to the end of the next
  body; one of a parameter whose type ends in `>>` takes what follows with it; the
  one of a later parameter with a default leaves the comma before it.
- A lens leaves out names under `is` and `as`, although its count "equals the number
  of locations textDocument/references would return" (`code_lens.rs:5-8`).
- The position taken for the name of a macro or a property is that of its keyword,
  and a rename edits it there (`references.rs:88-113`).
- A rename of a member changes the file's other occurrences of the name and not
  the member itself, while the highlight is limited to its type
  (`document_highlight.rs:66-69` says both must agree).
- Names in the initializer of a destructuring variable, and members of a receiver
  that is a value, are found at the cursor but not among the occurrences;
  `RenamedUnderTheCursor` is about the file's other names and its types.
- In the outline a line break or comment after `prop`, `type` or `func` is taken for
  the name; a property without accessors takes the next braces of the file, not
  its "keyword span" (`document_symbol.rs:84`); `operator`, `unsafe`, `foreign` and `const`
  are no modifiers to start from.

## 4. Proofs

Each theorem holds for every value of the constants that the assumptions named
in the modules allow. `TypeCorrect` is a theorem of every proof module but
`DepGraphProofs`, where the types are part of the two invariants.

| theorem | property | argument |
|---|---|---|
| `LspSessionProofs!DocumentsMirrored` | `MirrorsTheEditor` | `CopiesInv`, then step by step |
| `LspSessionProofs!RequestsAnsweredOnce` | `AnsweredOnce` | `RequestsInv` |
| `LspSessionProofs!StopsOrderly` | `OrderlyStop` | `ShutdownAhead` |
| `LspSessionProofs!RenamesNotStale` | `NoStaleRename` | `RenamesInv`, with the two before it |
| `DocumentBufferProofs!ConversionsAreInverse`, `EditsStayInRange` | `ConversionsInverse`, `EditTouchesItsRange` | lemmas about `TextEdit`, for every text |
| `FramingProofs!FramesServedAsSent` | `ServedAsSent` | `FramingInv`: a layout of the frames |
| `ScanCacheProofs!TimeIsEnough`, `RefreshIsFresh`, `NoRework`, `QuietIsExact` | `TimeTellsContent`, `NoOlderThanRefresh`, `SettledNotReread`, `QuietAnswerExact` | one inductive invariant, `ScanCache!Inv` |
| `MacroCacheProofs!KeyIsFresh` | `KeyNotOlderThanCall` | `KeyInv`: the types and `KeySeen` |
| `MacroCacheProofs!QuietCallsAreExact`, `CacheIsKept` | `QuietCallExact`, `CachedIsKept` | `QuietInv`, on top of the types |
| `MacroRuntimeProofs!MemoHoldsTheLastUsed`, `ContextStays` | `HoldsTheLastUsed`, `ContextOutlivesTask` | `RuntimeInv` |
| `MacroRuntimeProofs!StepsAreCalls` | (the safety part of `ImplementsCalls`) | step by step, from `RuntimeInv` |
| `DepGraphProofs!SearchIsRight`, `CyclesAreReal`, `NothingCircularEscapes` | `ReportsAreCycles`, `ReportsBreakEveryCycle` | `DepGraph!SearchInv`, inductive |
| `DepGraphProofs!OrderIsRight` | `OrderIsValid` | `DepGraph!OrderInv`, inductive on top of it |
| `LexerProofs!TokensTileTheSource` | `TokensInPlace` | `LexerInv`; each scanner stays in the source |
| `LexerProofs!CallsAdvance` | (why `tokenize` ends) | step by step, from `LexerInv` |

*TextEdit, DocumentBuffer.* The number of line breaks before an offset grows by
one at each break, so it takes every value up to the number of breaks, and the
offsets where it has one value are one line: an offset has one position and a
position inside the text one offset. An edit keeps what precedes the lesser
offset and follows the greater one, and the breaks there. The positions clamped
by `LspPosToByte` are covered: what they name lies on the lines they name.

`LspSession` has these operators too, and takes the lemmas through an instance of
`DocumentBufferProofs`.

*LspSession.* A message under way has no meaning by itself: a change is a change
of whatever text the server will have by then. `CopiesInv` says what the queue
means: each message leads from the copy before it to the copy the editor
had when it sent it, and the last to the copy it has now (`CopiesFollow`,
`EndsAtEditor`); a change carries the version it started from, and versions are
kept for exactly the open documents. The server taking the first message and the
editor adding one at the end both keep this, for pipes of any size; that every
step is then one of `DocumentMirror` or none follows. `RequestsInv`: a request is
in at most one place, the one pipe or the other, in none unless it is awaited,
and in one while the server runs. `ShutdownAhead`: before every exit of an
orderly editor stands its shutdown, in the pipe or served. `RenamesInv`: a
rename is asked while its document is open, so the version its answer
carries was of a copy on the editor's path; no later copy with the same version
has another text until the document is closed, and then the request is
abandoned.

*Framing.* What is left of stdin is the end of the frames that were sent. A
layout says where: `f[k]` is the index in stdin of the first symbol of frame
`k`, zero or less when it has been read. The invariant says that a layout exists
in which every served message is the body of a frame of its own, in order and
read (`Places`); of the correct frames at the beginning, those read are exactly
those served (`InStep`); and inside such a frame `read_message` knows what the
frame's header has said so far (`Reading`). After the first faulty frame a
length may point anywhere; a body is still served only where `BodySize` equal
symbols stand, and these are one whole body, since nothing in a header is a
symbol of a body and the symbol after a body belongs to no other.

*ScanCache.* Comparing times is enough only if a file never has two contents
under one time, so the theorems other than `TypeCorrect` assume `MinTick = 1`:
every write moves the clock. (On a file system with a coarse clock it does
not, and a second write in the same tick goes unnoticed.) `TimeTellsContent`
is not inductive by itself: the entry made now has the time the walk saw and the
content that is there at the read. `Inv` adds that times lie in the past, that
what the walk listed and the cache holds were seen since the refresh began
(`WalkSeen`, `ParseSeen`), and that untouched and settled files are listed and
cached as they are (`UntouchedExact`, `SettledExact`).

*MacroCache.* The sources there are now are always among those seen since the
call began, and so is every file hashed so far; a later edit only adds to what
was seen. Of a call nobody disturbs, `QuietInv` says that it is alone, that what
it has hashed is what the files hold (`Hashed`), that nothing has failed while it
is at work and there was a library (`Sound`), that it builds only what the cache
lacked when it began, and has in hand the library of these sources or, if cjpm
made none, the one it began with (`Built`), and that what it leads to is what is
due (`Stored`, `Due`). The hash is never looked into: the theorems hold for
any function from readings to keys.

*MacroRuntime.* The memo is compared with the keys as they were asked for: the list
is in the order of last use, what was asked for since the last use of a listed
key being what is listed after it, and a key that is not listed any more was
pushed out by `Cap` keys asked for later (`MemoInOrder`). For the tasks it is
enough that one has a result only when it is done, that a thread polls a task of
its own key, and that no context goes before its task is done. Mapped to
`MacroCalls`, the start of the runtime, the tasks and the deadlines are steps
that change nothing.

*DepGraph.* `StackIsPath`: the stack is a path without repetition, each frame
one reference past the one that led to the next. `LeftIsClosed` and
`FollowedIsClosed`: references followed lead to names already left, up the
stack, or are reported. `LeftIsAcyclic`: among the names left, every non-empty
set has one that waits for none of the set but through reported edges. A name
is added to those left only when all its references are of that kind, so it
waits for no name left later. At the end everything is left. The proof is for
programs of any size and every order of the hash map. In `topo_order`, a count is
the number of a name's references less those among the names it has been
compared with (`CountsAreUnmet`), and the names with a count of zero are those
taken or ready (`FreeOnesAreTaken`). When nothing is ready and names are left,
each of them still waits: for one of the others, for itself twice or for a name
out of the package.

*Lexer.* `TokensInPlace` speaks of the tokens there are and says nothing of the
next one, so `LexerInv` adds where the lexer itself is: `at` is the end of the
last token (`Tiled`), and `line` and `col` are those of the character there
(`Placed`), which is why what the next token is told is true as well. The step
needs two things. Every scanner is `Sound`: from a character of its kind it ends
at a later index, at most one past the source, and complains of nothing but
places between the two. And positions move as the text does: `BumpIs` and
`BumpCharIs` say what line and column become along any run of characters,
whatever line breaks it holds, and `PlacedBack` that a number which goes back on
itself goes back to a true position, for it never crosses a line break. Literals
and nested comments are recursive functions of the index, in comments with the
depth as well. That such a function satisfies its own equation is shown by
the least index from which it would not (`LeastOf`), so no induction theorem
with an operator for a parameter is needed; where they end is the same argument
once more. Nothing is assumed of a source but that it consists of
`Characters`, so it covers unclosed literals, stray escapes and any
characters in any order.

The assumptions on constants are those of the code. Most say that a marker
("nobody", "not open", "still running") is none of the values it marks the
absence of. `SessionAssumption` has pipes of at least one message,
`FramingAssumption` that a body has a size from one symbol up to the cap and that
headers, line breaks and bodies are told apart, `RuntimeAssumption` that the memo
has room for one result, `MacroCacheAssumption` that what is broken are sources,
`ProgramsAssumption` that a program is a list of declarations, `LexerAssumption` that
the classes of wide characters are disjoint and that the mark for the end of the
source is no character.

Two flaws of the model of the lexer came to light while proving and not before:
`ScanBackquoted` chose among cases of which two held where a back quote follows
a back quote, and the run had `Characters` that left out some of those its
sources were made of, so that `src` was outside its own type. Both are corrected.

Only model-checked: the liveness properties (`DiagnosticsCatchUp`,
`Responsive`, `AllServed`, and the fairness within `ImplementsCalls`), which need
fairness and ENABLED, beyond the prover; the parser, the passes and the walks
over the tree, which are declared RECURSIVE, in modules no proof reaches. No
definition used in a proof is. `EveryStepReads` and the properties of `MCParser`
and `MCAnalysis` stay with TLC for that reason. `ReadAsMeant` stays with TLC for
another: it compares the lexer with the words `MCLexer` makes its sources of,
so it is about those words and not about every source.

## 5. Not modelled

Left out for good: the tables generated from lists (`cj-diag/src/templates.rs`,
a sixth of the code, texts of diagnostics) and how a diagnostic is
formatted, the stub `cj-cfg`, scripts, benchmarks and the VS Code client, which
only starts the server. Completion, hover, signature help and member access are
pure functions whose lines mostly word and rank what they find; semantic
tokens colour the tokens of the lexer. `cjpm.rs` reads a configuration and lists
directories; its result is an input of `ScanCache` and `Analysis`. `run_pkg_init`
repeats the pattern of `expand_macro_call`, and its hazard is the one of
`TaskTouchesLiveMemory`.

Abstracted in what is modelled: JSON (sound or not), the wording of
diagnostics and answers, what completion makes of the scan cache, hashes
(collision-free), the content of a macro's result beyond its tokens, the digits
of a literal beyond the bits it needs, stack depth, and time beyond "the
deadline has passed".

## 6. Plan

Done: documents, loop, caches, macro runtime, lexer, parser, syntax tree,
semantic passes, expander, quick fixes, occurrences, outlines, two refinements;
proofs of every safety property of the modules that are not recursive.
What would come next, in order:

1. The merge of `Symbols` in a module of its own without recursive operators, and
   a proof that the collection does not depend on the order of the workers.
2. The scanners of `signature.rs`, `member_access.rs` and `completion.rs` that find
   the call, receiver and word under the cursor, on the programs of `MCParser`.
3. `cjpm.rs`: local dependencies and visible packages against their definition
   by reachability.
