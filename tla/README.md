# AINT: specifications and proofs

AINT (`src/`) is a programming language with model calls (`infer`), tools (`tool`) and tests of
both as statements: a Rust workspace of a lexer, a parser, a type checker, a tree-walking
interpreter, a bytecode VM, a package manager and a command line. Most of it is a sequential
pipeline from text to a tree to a result. The places where a unit test hardly reaches are the ones
that wait for somebody else: the model, a tool, a timer, a client, another process, a file system, a
git remote. That is where this project starts; the pipeline follows, each part of it compared with what the
parts beside it assume.

## 1. The system

### 1.1 Components

| component | code (under `src/crates` unless said otherwise) | state it keeps | operations |
|---|---|---|---|
| inference runtime | `runtime/src/interpreter.rs`, `tool.rs`, `model.rs`, `trace.rs` | the budget, the count of model calls, tool registry, mocks, trace log and its two counters; the Rust future of the statement being executed | `exec_stmt`, `eval_inference`, `eval_inference_loop`, `eval_tool_call`, `call_tool_traced`, `run_tool_body`, `check_model_call_budget`, `record_model_call` |
| `http_serve` | `interpreter.rs:1281-1573` | the listener, the looked-up handler | accept, read a request, serve an asset, call `handle_request`, answer, next |
| db store | `runtime/src/db.rs`, `stdlib.rs:367-404` | one JSON-lines file for each table, in `$AINT_DB_DIR` | `db_insert`, `db_get`, `db_list`, `db_update`, `db_delete` |
| customer support | `src/examples/customer_support/server.an`, `worker.an` | tables `tickets`, `jobs`, `users`, `sessions` | HTTP handlers; the worker's one pass over the jobs |
| model adapters | `runtime/src/http_model.rs`, `chat.rs` | none across calls | `infer` over HTTP with retries; building and reading chat messages |
| package resolution | `package/src/{resolve,git,lockfile,manifest}.rs` | git cache directories, the lock file; a stack and a map of resolved packages while it walks | `resolve`, `visit`, `materialize_git_with_cache` |
| loader | `loader/src/lib.rs` | files being visited and already loaded, rename maps | `load`, `resolve_file`, `rename_*` |
| migrate | `cli/src/migrate_cmd.rs`, `migrate/src/lib.rs` | the project's source files, baselines of test outcomes | deterministic rewrite; write, verify, keep or revert a proposal of the model |
| type checker, effects | `typechecker/src` | scopes, declared functions and their effects | `check_stmt`, `check_expr`, `check_call` |
| AIR and optimizer | `ir/src` | cache of AI calls seen in a block | `lower`, `optimize_statements` |
| bytecode VM | `vm/src` | globals, frames, operand stack | `compile_program`, `run` |
| environments | `runtime/src/environment.rs` | the chain of scopes shared by closures | `define`, `get` |
| test runner | `runtime/src/test_runner.rs`, `model.rs` | a fresh interpreter and `MockModel` for each test | `run_tests`, `run_one_test` |
| lexer, parser, formatter | `lexer`, `parser`, `ast`, `fmt` | a position in the input | text to tokens to a tree, a tree to text |
| standard library, widgets | `runtime/src/{stdlib,widgets}.rs` | none but the db files | pure functions; HTML text |
| command line | `cli/src/main.rs`, `ui.rs` | none | argument parsing, output |

### 1.2 How they interact

*One future at a time.* The interpreter runs on a current-thread tokio runtime: `exec_stmt`,
`eval_expr` and `eval_inference_loop` call each other recursively and are one future. A tool's body
is ordinary code and may await another `infer`, so conversations nest. The future is suspended only
inside `model.infer` and inside `sleep`; `tokio::time::timeout` around a conversation can drop it at
those two points and no other.

*Shared state across roots.* The budget, the count, the registry and the trace log belong to the
`Interpreter`, not to a call: the program's top-level statements and every request that `http_serve`
hands to `handle_request` use the same ones. A `RuntimeError` leaves every frame up to the root; the
script exits on it, the server answers 500 and goes on.

*Shared files across processes.* `server.an` and `worker.an` are two processes that share the
directory of tables. Every call reads a whole file and, if it writes, rewrites the whole file. There
is no lock.

*Cache shared across packages.* Two git dependencies with the same URL share one working copy.

*Text shared across commands.* `check`, `run` and `test` load a program from several files, which `fmt`
and `migrate` rewrite one at a time. The printer must write what the parser reads back as the same tree;
the rewrites must keep what a program does when only one of its files has been rewritten; the loader must
give every name of every file one meaning in the flat program that the checker, the interpreter, the
test runner and the compiler see.

*One program, three executions.* The interpreter looks names up when it gets to them, the checker where it
reads them, the compiler turns them into positions on a stack; the optimizer removes calls. Nothing but
agreement keeps the four together.

### 1.3 What is hard, and what correct means

| component | hard behaviour | correct means |
|---|---|---|
| inference runtime | a conversation dropped half-way by a timeout; nested conversations with other permissions; a budget declared after the first calls; a model that never answers, asks for an undeclared or forbidden tool, or answers with an error | every call is accounted for; no call counted beyond the budget; a conversation never gets what its permissions exclude; mocks are never bypassed; the log numbers what happened; with a timeout every request ends |
| db store | a crash between truncate and write; a cut line; other processes in between | each call is atomic as seen by one process at a time, except for the end of a table a fault cuts off; ids unique |
| customer support | two processes, two tables, a crash between two calls, a stale row written back | an answered ticket stays as it was written; no job without its ticket; no job marked processed before its email went out |
| package resolution | cycles and diamonds on a recursive walk; a shared, partly cloned or stale working copy | every path ends in a result or the right error; the lock file names what was checked out |
| `http_serve` | bytes in pieces, clients that leave or fall silent, three parties that may answer | each request is answered for what it is; no client but a silent one stops the loop |
| model adapters | retries of 429 and 5xx, delays the endpoint dictates | the requests and the delay of one counted call are bounded |
| loader | diamonds, cycles, aliases of aliases | exactly the graphs without cycle and clash load; a name denotes the declaration its file sees |
| parser, formatter | brackets, blank lines, a second scanner for comments | formatting keeps the program, loses no comment, and is idempotent |
| migrate | a failed write or a kill between write, verify and revert; files judged one by one against baselines taken before the first was changed | no file of the batch regresses; a rejected text leaves nothing behind |
| optimizer, VM | deduplicated calls; slots reused; captured names | same observable run as the plain interpreter |
| type checker | effects and types through closures, branches and declarations further down | a program it accepts has no type error and no effect that its clauses exclude |

`PROJECT.json` lists the hazards one by one, at the line where each bites, with the properties that
cover it or the reason none does. Some have none because the code simply does the harmful thing: those are
in section 5.1 or 2.6.

## 2. Modules

| module | models | kind |
|---|---|---|
| `CallBudget` | what the runtime promises about model calls: sessions, a limit, calls that complete and are counted or are abandoned | abstract specification, with its theorems |
| `InferenceRuntime` | `await` of an `infer`, a tool or `sleep`; the conversation loop; the budget; the timeout; tool calls; traces; the program and the handler | specification |
| `InferenceRuntimeProofs` | theorems about it, and the refinement of `CallBudget` | proofs |
| `InferenceAccountingProofs` | theorems about its stack, its counters, its trace log and its tools | proofs |
| `MCInferenceRuntime` | a small program world for TLC | model |
| `Tables` | rows, `insert`, `update` and `delete` as functions of the whole table; what a cut write leaves | helpers |
| `AtomicTables` | a store whose calls happen at once, and a fault that cuts the end of a table | abstract specification |
| `DbStore` | `db.rs` as read, truncate, write, by several processes with faults | specification, implements `AtomicTables` |
| `MCDbStore` | two processes with one table each, one fault | model |
| `CustomerSupport` | the ticket handlers and the worker, over `DbStore` | composition |
| `StoreProofs` | theorems about `DbStore`, where no two processes share a table, with the refinement of `AtomicTables`; and about `CustomerSupport`, where two do share one | proofs |
| `MCCustomerSupport` | one request of each sort, one worker run, one fault | model |
| `Migrate` | `aint migrate` over a batch of files: both tiers, the verdict, failed writes and kills | specification |
| `MigrateProofs` | theorems about it | proofs |
| `MCMigrate` | three files that import each other | model |
| `PackageResolve` | `aint add`: the walk over dependencies, git commands in the shared cache, `aint.toml` and `aint.lock` | specification |
| `PackageResolveProofs` | theorems about it | proofs |
| `MCPackageResolve` | two projects, three libraries, one remote | model |
| `HttpServe` | connections, `read_http_request`, static assets, the handler and the answer; composed with `ModelAdapter`, the budget and its timeout | specification |
| `ModelAdapter` | `HttpModel::infer` and `send_with_retry` | component of `HttpServe` |
| `HttpServeProofs` | theorems about it and `ModelAdapter` | proofs |
| `MCHttpServe` | two clients, a site, one handler of each sort | model |
| `Syntax`, `Trees` | the syntax tree, its constructors and its nodes | helpers |
| `TypeChecker` | every check of a program, as an operator from a program to whether it is accepted | pure |
| `Interpreter` | the tree walk, as an operator from a program to its output, error and effects | pure, reference for `Vm` |
| `Lower` | lowering to AIR, and the optimizer | pure |
| `Vm` | the bytecode compiler (operators) and the machine, an action for each instruction | specification, agrees with `Interpreter` |
| `MCVm` | six families of programs | model |
| `Lexer`, `Parser` | text to tokens, tokens to tree | pure |
| `Printer` | tree to text, and the scanner for comments | pure |
| `Rewrite` | the two rewrites of the deterministic migration | pure |
| `TestRunner` | `aint test`: each test in a fresh interpreter with its mocks | pure |
| `Imports` | paths, the import graph of a disk, and what is wrong with a graph; no walk | reference for `Loader` |
| `Loader` | the walk over imports, statement by statement | specification, part of `FrontEnd` |
| `LoaderProofs` | theorems about it | proofs |
| `Flattening` | the renaming, and what names mean in a graph and in the flat program | pure |
| `FrontEnd` | `fmt`, `check`, `run`, `test` and `migrate` one after the other on the files of a disk | composition |
| `MCFrontEnd` | texts, projects and scripts | model |

### 2.1 InferenceRuntime

State and code:

| variable | code |
|---|---|
| `stack` | the nest of Rust calls the future is in, as frames: `main`, `handler`, `tool` (code) and `infer` (one activation of `eval_inference_loop`) |
| `ctl` | whether an `Err(RuntimeError)` is being returned through them |
| `budget`, `total_model_calls`, `tools_registry`, `traces`, `next_inference_id`, `next_tool_call_id` | the fields of `Interpreter` with these names |
| `process`, `requests` | the script, the server after `http_serve`, or the exited process; requests accepted |
| `issued`, `abandoned`, `tool_starts`, `cancelled` | history variables that only properties read: calls made, and calls dropped by a timeout |

Each action is a piece of code between two points where something else may happen: a statement, a
branch of `eval_inference_loop`, an answer of the model, a timeout, a request. The phases of a frame
are the places where its Rust function stands: about to check the budget (`check`), waiting for the
model (`sent`), about to call a tool (`calling`), waiting for a conversation (`awaiting`), asleep.
`Timeout(k)` may fire for any conversation `k` that was started under a budget with `timeout_ms`; it
drops everything from `k` upwards and raises in the code below.

Left out: values, except whether they pass validation; the contents of prompts; token and cost
totals, which the code never raises above 0; what a program computes between awaits. A program is
any sequence of declarations and awaits up to `MaxAwaits`, so what holds holds for every program of
that size.

### 2.2 DbStore

Each process runs one call at a time in the steps the operating system sees: `ReadTable` (the whole
file, or an error if a line does not parse), `OpenForWriting` (`fs::write` truncates), `WriteRows`.
`Fault` stops a write with only a part of the lines, the last one possibly cut, and either kills the
process or fails its call. `Overlay` is what a write leaves in a file that another process has
written since it was opened.

`AtomicTables` makes each call at once. The refinement maps a file that is being rewritten by a live
process to the table it is going to be (`INSTANCE AtomicTables WITH`). It holds where one process
writes a table at a time, which is what `MCDbStore` gives each process; `CustomerSupport` is where
two share one.

### 2.3 CustomerSupport

`handle_create_ticket` (insert the ticket, insert a job if the message is negative, answer),
`handle_resolve_ticket` (get, rebuild, update, answer without looking at the result) and the worker
(list the jobs, email and mark each pending one, exit), each one process over `DbStore`. A record has an
id, a status, and the ticket it is `about`: for a ticket that stands for everything its customer wrote,
for a job it is `ticket_id`. `handle_resolve_ticket` and the worker copy it from the record they read, so
what is lost on the way shows. The worker
runs a fixed number of times, like a cron job would start it. Registration, login and listing are
not modelled: they only read, or write tables that no other process writes.

### 2.4 Migrate

`step` is where `migrate_file` stands for the file at `pos`; `current_text`, `proposal` and
`batch_baselines` are its locals, `outcome` and `verdict` what it reports. Each write of the code is
a step, and so is what is read between two writes: `Scan` (read, parse, rewrite, `--check`),
`WriteRewrite`, `VerifyTypeChecks`, `RevertRewrite`; with `--ai`, `Cover`, the model's answer,
`WriteProposal`, `Judge`, `Restore`. `WriteFails` is what the code does when `fs::write` fails: some
writes look at the error, some drop it. `Kill` ends the process before or in the middle of a write;
it also stands for a proposal whose tests end the process that runs them.

The language is a parameter: `Parses`, `Rewritten`, `Imports`, `HasTests`, and `Outcome(d, f)`, what
loading, checking and testing `f` says of the texts `d` on disk. The proofs hold for all of them, under
`RewritePreserves`: a deterministic rewrite whose result type-checks changes no outcome, which is what
`crates/migrate` states of itself, and `RewriteKeepsShape`: it changes no import and adds and removes no
test block, since it replaces expressions and the ends of bodies only. `MCMigrate` gives them a small meaning in which a signature, a
behaviour and an expected signature can each be right or wrong, and in which a proposal may add or drop
test blocks and imports.

### 2.5 PackageResolve

Each project has one process, which runs one `aint add` after another. `pc` is where it stands;
`frames` is the recursion of `visit`, a frame for each package with the dependencies still to do, so
the names on it are the code's `stack`; `resolved` is the map of that name. `Visit` is one turn of the
loop, `ReadManifest` what follows `materialize` in it, with one disjunct of `Decide` for each way out.
`CheckCache` to `RevParseHead` are `materialize_git_with_cache` command by command, since other
processes and remotes act between any two commands. `Exit` is every early return: the process ends and
forgets. `first` and `disturbed` are history for the properties: the manifest that was walked for each
package, and the working copies another process touched meanwhile.

git itself is not in the repository and is modelled by what the code relies on: `clone` refuses a
directory that exists and removes what it made when it fails, `fetch` updates only what a copy knows of
its remote, `checkout` makes a ref the copy's own the first time and does not move a branch it already
has, and one of two checkouts at once may find the copy locked. A working copy in which a clone was
broken off fails every command. A reader sees one commit or the other, never half a checkout. A package in
a working copy depends on remotes or on directories outside of it. Both files are taken to parse,
except that one cut by a kill reads as missing. `PackageAssumptions` leaves two arrangements out: a remote
without a default branch, which git cannot clone without a ref, and a path dependency that leads into
the cache directory, which would make the code read as a package of the user what another process is
checking out.

### 2.6 TypeChecker, Interpreter, Lower, Vm

A program is a tree of `Syntax`, the one the parser returns. `Interpreter` runs it as an operator: its
state threads environments (numbered, so that a closure keeps the number of the one it was made in, which
is what the chain of `Rc`s does), output, the answers still to come from the model, and `breaches`, the
effects that the innermost function in progress excludes. `TypeChecker` is the whole of `checker.rs` for
the question "is it accepted?": which error is reported first is not modelled. `Lower` gives the AIR of a
program, again as a tree with calls by name, and `Optimize` is `optimize_statements` with its cache, block
by block; `Raised` reads AIR back so that the same interpreter can run both.

The compiler is a set of operators, since nothing else happens while it runs: `Code` is a chunk under
construction with the names of `Locals` and the global slots so far; `CompileBlock`, `CompileIf`,
`CompileFn` and their like are the parts of `compile_stmt` and `compile_program`. `depth` is history: the number of
locals the compiler counted at the start of each statement. The machine's variables are those of `run`,
and `status` says how it ended. `Init` picks a program; those the checker or the compiler refuses are
`refused`.

Left out: arithmetic of floats and most of the library (both engines call the same functions), and the
text of errors.

`EnginesAgree` is about programs that declare no name twice at the root, hide `print` nowhere, and do not
reach a call before its function is declared. On the others the engines differ, all of them accepted
by the checker:

- a root `let` that takes the name of an earlier one gets the slot `globals.len()` of a map that did not
  grow: `let x = 1`, `let x = 2` ends in an index out of bounds. `docs/milestones/22-bytecode-vm/SPEC.md:132`
  says "never a partial run, a wrong answer, or a panic". The run reaches this state (`status = "panic"`);
- a function called above its declaration runs in the VM, and reads the unit value from a global that is
  not yet set; the interpreter reports an undefined variable;
- of two functions with one name the VM uses the last one everywhere, the interpreter the latest one
  executed; `fn print` and `let print` are what the interpreter calls, and the VM prints;
- a `fn` inside a block makes the compiler panic; a closure's variables and a function used as a value are
  undefined names to it.

`TypeSound` and `EffectsRespected` are about `Settled` programs: a captured name is not declared again, and
a name means one thing at the root. The run `captures` shows what happens without that. `EffectsRespected`
also asks that every `await` stands at its call: `let t = ask("q")` outside and `await t` in a pure
function performs the call in the function, whose clause was never compared with it. `OptimizeKeeps` is
about `Steady` programs, where a name means the same throughout its block and a tool's body prints
nothing; on the others the optimizer replaces a call whose argument has changed meanwhile, or drops a
print (`optimize.rs:164` and `docs/milestones/19-optimization/SPEC.md` assume neither occurs).

### 2.7 HttpServe, ModelAdapter

`conn[c]` is a client's side: the bytes it has yet to send, those on their way, whether it closed its end,
and the answer it got. `server` is where `http_serve` stands: `accept`, `head` and `body` (the two loops of
`read_http_request`), `route`, `handler`, `model`, `reply`. A read takes what is there, up to a chunk, so a
request arrives in every way it can be cut. `BodyEnds` cuts what is longer than `Content-Length`, and an
early end of the stream ends the body too. `SafeAssetPath` is `safe_asset_path` over segments. The handler
is a parameter: what it does on each path (a page, JSON, a failure, an answer of another type, a
conversation with or without tools).

`ModelAdapter` is one exchange: refusals before the first request, `Send`, the response or its absence,
success (any status from 200 to 299), `Exhausted`, the delay from `Retry-After` or the doubling backoff, and what each type accepts of the
answer's text. `RETRY_CAP` of eight seconds never binds: the largest backoff of four retries is four
seconds. `ModelTimeout` drops the exchange as the budget's timeout does. Reading the code for this model
showed two things that are as the code has them and not properties of it: there is no read timeout, so
a client that connects and stays silent stops the server; a cut body reaches the handler as if it were
whole. The content types of answers are left out.

### 2.8 Lexer, Parser, Printer, Rewrite

A text is a sequence of pieces: single characters, except that letters or digits in a row may be one
piece. `Tokenize` gives tokens with their lines, which is all of a position that the formatter reads.
`Parser` keeps the shape of the code: a state with the remaining tokens and the nodes so far, one operator
for each `parse_*`, one level of operators after the other in `ParseLevel`, the flag that suppresses node literals in conditions.
`Printer` is `printer.rs` construct by construct, with the brackets it decides on (`Parens`) and the blank
lines it keeps; indentation is left out, because nothing that reads a program sees it. `SourceHasComment` is
the second scanner, the one `fmt` uses to refuse files with comments. `Rewrite` has `Compare`
(`x == true` and the like) and `IfReturn` (`if` with a return on both sides), applied bottom up.

### 2.9 Imports, Loader, Flattening

`Imports` says what a disk means, without a walk: paths are segments from the root, `Canonical`
removes `.` and `..` and fails where something is missing, a package import goes to the nearest `aint.toml`
above the entry file and what its lock file says. `Graph` has the program of each file and where each of its
import statements leads; `Reached` is the least set of files closed under these; `Faultless` says which
graphs may load and `Holds` what each error claims.

`Loader` is the walk. `Discover` settles the packages. `frames` is the recursion of `resolve_file`: for each
file the statements it has yet to take, what it made so far and the aliases it has used; `asked` is a call
that was made and has not begun. `Enter` begins one, or fails on a missing file, a cycle, a second import
or a text that does not parse. `TakeImport` and `TakeStatement` are the two arms of the loop, with the errors
of each; `LeaveFile` renames what a finished file declares and splices it into its importer. The parser
(`ProgramOf`) and the renaming of a statement (`RenamedStatement`) are constants, given in `MCFrontEnd.cfg`
as the real ones, so that the walk can be proved about without the recursion of either.

`LoaderSpec` is a loader by itself: loads follow one another, may be dropped, and between loads
the disk changes in any way that leaves it `Readable`: finitely many files, whose programs are lists of
statements with an alias on each import. The steps of `FrontEnd` are `LoadStep`, `StartLoad`, or steps that
leave the loader idle, on disks that are `Readable` (`ReadableSessions` is assumed there and evaluated). TLC
confirms it when `LoaderSpec` is added to the properties of `MCFrontEnd.cfg`, where no property is kept for it.

`Flattening` has the renaming itself, tree by tree, and the reference for the flat program: `Scope`, what
each name that a file may use denotes, through any number of aliases, and `Spliced`, which statements belong
where.

### 2.10 FrontEnd

The composition: a disk, a script of commands, and the command in progress. `Fmt` reads, formats and
writes; `LoadProgram`, `Walk` and `Conclude` are a load and what the command does with the program (check;
run through `Interpreter`; test through `TestRunner`); `MigrateFile` writes the rewritten text and loads
what it now says, `Verified` keeps it or puts the old text back; a path that does not exist is refused. `log` is history: what each command
said, and the text before and after it. `MeaningKept` over this module is the claim that `Migrate`
assumes under the name `RewritePreserves`, here checked for the rewrites as they are.

`Printable` names the trees the printer does not keep, all found by running the model on every expression
under every other:

- an expression statement whose leftmost expression is an `if` or a `fn`: `(fn() -> Int { return 1 })()`
  is printed without the bracket and no longer parses; `migrate` then reports its own transform as wrong;
- a node literal in the condition of an `if`, which the parser suppresses there;
- an expression statement, or the first child of a node literal, that begins with `-`, `(` or `[` behind
  an expression, which the parser continues;
- a quote, a backslash or a line break in an import path, written unescaped.

`fmt/src/printer.rs:6-10` promises that "re-parsing the output produces the same AST". Also noticed: `migrate`
prints a file without the test for comments that `fmt` makes, so it deletes them, and it may turn a
program that does not type-check into one that does (`1 == true` becomes `1`).

## 3. What is checked

| run | question | size | result |
|---|---|---|---|
| `inference` | does accounting, tracing, permission, mocking and the budget survive every order of awaits, answers, errors, timeouts and requests? does every timed request end? does the runtime implement `CallBudget`? | 318 010 states | holds |
| `budget_ceiling` | is `max_model_calls` a ceiling on the calls made? (`ast/src/stmt.rs:122`) | | violated |
| `db_store` | are the calls of `db.rs` atomic, up to what a fault cuts off? | 792 648 states | holds |
| `customer_support` | do tickets, as written, and follow-ups survive the worker, overlapping requests and a fault? | 181 442 states | holds |
| `migrate` | can a batch regress, whatever the model proposes? what does a fault leave? what is the model asked about? does `--check` write? | 588 836 states | holds |
| `packages` | is what `aint add` locks a closed graph without cycles, at the commits asked for? does every add end? | 235 417 states | holds |
| `package_lock` | does `aint.lock` record the commit of the source it points at? (`package/src/lockfile.rs:34-39`) | | violated |
| `engines` | does a program print the same and end the same on the VM and in the interpreter? does the compiler's count of locals match the stack on every path? do types and effects hold at run time? does the optimizer change anything? | 19 224 states | holds |
| `captures` | does a program that type-checks run without a type error, as `docs/milestones/30-closures/SPEC.md:61,82` argues it does? | | violated |
| `http` | does every request get its own answer, however its bytes arrive? are retries bounded? is everybody served? | 563 969 states | holds |
| `front_end` | are exactly the right graphs of files loaded, with every name meaning what it should? do `fmt` and `migrate` keep programs? does every command end? | 20 093 states | holds |
| `bare_entry` | is the package of the entry file found, however the file is named? (`loader/src/lib.rs:9`) | | violated |

*Bounds of `inference`.* One tool of each sort that `call_tool_traced` tells apart (mocked, with a
body, with neither) and a name no tool has; an `infer` with a permissions clause and one without;
a budget of two calls with a timeout, declared at any point or not at all. `MaxDepth` lets a conversation run inside a
tool's body of another one, which is where permissions, timeouts and the count meet; a third level
repeats the second. `MaxCalls` is above the limit, so a call beyond the limit is within the bounds.
Requests: enough for one that follows a request that failed.

*Fairness of `inference`.* `WF(Code \/ Conversation)`: the executor keeps polling the one future; every
piece of code ends because its awaits are bounded, which stands for programs without an endless loop.
`WF(Timeouts)`: tokio's timer fires. The model owes nothing and neither does a client, so
`TimedSessionEnds` holds because of the timeout and not because answers come. No strong fairness is
assumed anywhere.

*The violation of `budget_ceiling`.* A call that a timeout drops was made and is not counted, so each
request of a server may make one more than `max_model_calls` allows: `IssuedBounded` states, and the
proofs show, the bound that does hold.

*Bounds of `db_store`.* Two ids and two records, interchangeable, are what `insert`'s check for a
duplicate, `get`'s first match, and `update` and `delete` over several rows need; three calls reach a
table of two rows and change it. One fault, because a second one adds
no new state of a file that the first one, anywhere, does not leave.

*Bounds of `migrate`.* A library, one that imports it, and a test file that imports either or
both: the shortest chain in which a proposal can leave its own file's tests alone and break a file two
imports away. The file of tests comes second in the batch, so that what was proposed for it, accepted or
not, is there when the coverage of the last file is decided. Every text with any combination of signature,
behaviour, expectation, imports and test block may be proposed, and one that does not parse; only imports
that would make a cycle are left out. Proposals do bring a file under test that was not before:
`AskedOnlyIfCovered` without its second case is violated. Two faults: the second can hit the write that takes back what the first
one left.

*Bounds of `packages`.* Five worlds: a chain, two libraries of one name, a cycle, two pins of one
remote, a dependency declared under a wrong name. The remote's package gains a dependency when its
branch is pushed, so what is walked depends on which commit is checked out. Two adds, by two processes
or by one: interleaving needs two processes, and the cut or stale file of a first add is what a second
one meets. One push and one kill suffice to make a copy stale, to leave a clone half made and to cut
either file.

*Fairness of `packages`.* `WF(Step(p))` for each process: git commands return, with or without success.
`AddEnds` then says that the walk ends. It does so because no name is entered twice, whatever other
processes rewrite while it runs, and nobody waits for anybody.

*The violation of `package_lock`.* It needs one process only: of two pins of one remote in a graph the
lock file keeps the first, the directory the last one visited. `PinsHonoured` states what does hold:
the commit recorded and the dependencies walked belong together, and to the pin that came first.

*Bounds of `engines`.* Six families of programs. Functions of one parameter with a guard, two statements
out of twelve and a result, one of them a recursive call that is the second operand of a subtraction, so
that a value lies between the caller's locals and the callee's; the statements declare, shadow, branch
with and without an else, declare inside a branch, print and return out of one. Three statements at the
root over two names, with failing asserts, divisions by zero, and calls before and after declarations.
Data: enums declared before and after their use, lists, indices out of bounds, the Boolean operators.
Functions with every clause over a body that computes, asks, calls a tool or calls another function with
its own clause. Closures that are passed, returned, and read names declared around them. Blocks that
repeat a model call or a tool call between declarations and branches. `MaxSteps` is above the length of
every run; it ends the runs of a faulty compiler. The model's answers are a fixed sequence that differs
from call to call, so a call too few or too many shows. Integers are small: both engines use Rust's own
operators on `i64`.

*The violation of `captures`.* A second `let` of a name in the same scope replaces the binding that a
closure or function already reads, with another type if it likes: the checker has accepted the closure
with the first type, and it fails with the second.

*Bounds of `http`.* Two clients, since what one leaves behind is met by the next; bodies of up to two
symbols, one more than declared; reads of up to three, so that a read can span the head's end and the
body; one counted model call, so that the second request finds the budget spent. Statuses: two that are
successes, one that is retried and one that is not; a `Retry-After` above every backoff, none, and none that parses. An
answer that fits the declared type and one that does not.

*Fairness of `http`.* `WF(ServerStep)`: the process runs. `WF` of sending: so does its client library.
`WF(ModelTimeout)`: the declared `timeout_ms` fires; the endpoint may never answer. So `EveryoneServed`
speaks of programs that declare a `timeout_ms`: without one, a conversation with an endpoint that stays
silent holds the loop for good. It also relies on clients that read their reply, since writing it is one
step here and has no timeout in the code. Nothing else is assumed of clients, and the property is
conditional on none of them holding its connection open in silence, because the code has no protection
against that.

*Bounds of `front_end`.* For the formatter, every expression over every other (twelve operators, unary
ones, calls, indices, conditionals, closures, lists, node literals), a table of statements with every
clause and optional part, comments in and out of strings, and texts that do not parse; each is checked,
formatted and formatted again. For `migrate`, every comparison of two Boolean expressions out of five, as
a condition and as a result, with tests that mock a model call. For the loader, four files in three
directories and a package, importing each other, themselves and nothing in every combination of the
listed imports, with each file declaring the same four names; and imported files with a statement they
may not have. For the composition, two projects whose files are formatted or migrated in pairs. A fourth
file adds the diamond and the chain of three; a fifth repeats them. What ends a walk is a variant:
`CommandsEnd` says that every step of every command makes a tuple of naturals smaller, and TLC's check for
deadlock that no command stops before its end, which together say that every command ends without any
fairness but that the process runs.

*The violation of `bare_entry`.* `aint run main.an` in the directory of its `aint.toml`: the parent of a bare
file name is the empty path, which does not canonicalize, and every package import fails.

Every property has a mutant in `PROJECT.json`: a plausible slip in the modelled code, written as a
definition beside the one it replaces (marked "Faulty" or "Mutant"), under which TLC finds the property violated.

## 4. What is proved

Every theorem holds for every value of the constants under the assumptions that its module names: any
number of processes, files, clients, packages or tools, any bounds.

### 4.1 InferenceRuntime

`InferenceAssumptions`: tools have names no unknown tool has, mocks and bodies belong to tools,
permissions are sets of tools or absent, the budgets are pairs of a limit and a flag, the bounds are numbers.

| theorem | states |
|---|---|
| `TypeCorrect` | `Spec => []TypeOK` |
| `PermissionsHold` | `Spec => []ToolsWithinPermissions` |
| `RuntimeImplementsCallBudget` | `Spec => CB!Spec`: each step of the runtime is a step of `CallBudget` or changes nothing it sees |
| `IssuedCallsBounded` | calls issued are at most calls counted plus one for each session |
| `CountedCallsWithinBudget` | no step counts a call beyond a declared limit |
| `CallBudget!Overshoot`, `CallBudget!CountedCallsFit` | the same two for the abstract budget, where the argument is |
| `StackIsDisciplined` | conversations stand on the code that awaits them, tool bodies on the caller that waits for that tool |
| `TracesAreNumbered` | the log numbers model calls and tool calls without a gap, with one `Inference` record for each call counted |
| `AccountsAreKept` | every call issued is counted, in flight or dropped; every tool call started is logged, in its body or dropped |
| `MocksAlwaysWin` | the body of a mocked tool, or of one not declared yet, never runs |
| `HistoriesAreTraced` | what a model is told of tool calls is backed by the log |

*The inductive invariant.* `TypeOK` is not inductive: `ModelAnswers` writes the frame below the
innermost one, which must exist. `Typing` adds that the bottom frame of a stack is the program or the
handler (`Rooted`), that a frame's name and phase fit its kind (`Good`), and that an error is only
propagated while there is a frame to leave. From it, one lemma for each group of actions shows what
becomes of the stack (`CodeStack`, `ConversationStack`, `ModelStack`, `TimeoutStack`).

*Permissions.* `Permitted` says of every conversation on the stack that its history, and the tool body
above it if any, are within its clause. It is preserved by replacing the last frame, pushing one and
cutting (`PermittedReplaced`, `PermittedPushed`, `PermittedCut`), and every action is one of these.

*The budget.* The refinement maps a session to the script or a request, `open` to `Running` and `busy`
to a call in flight. A code step declares or closes (`CodeRefines`), a conversation begins a call or
closes (`ConversationRefines`), the model completes (`ModelRefines`), a timeout abandons
(`TimeoutRefines`). The two bounds are then theorems about six lines of state instead of fourteen
variables: that an in-flight call began below the limit, and that a session loses at most one.

*The accounts* (`InferenceAccountingProofs`). Each action does to the stack one of four things: it
rewrites the last frame (`TopBecomes`), pushes one (`TopPushes`), returns to the caller
(`CallerBecomes`) or cuts (`CutsTo`). `Disciplined` says of each frame what the one above it may be, and
each of the four keeps it. The books are sums over the stack, and the counting lemmas say what each of the
four adds to such a sum, so that `ModelCallsBalance` and `ToolCallsBalance` are proved action by
action. Neither is inductive without `Disciplined`: a timeout cuts the frames from `k` upwards, and only
the discipline says how many of them had a call in flight. `Numbered` adds the two counters that the next
record's number comes from; `AllDeclared` says that a tool call was declared when it started, since a body runs
only for a tool in the registry; `Backing` relates the tool calls a history tells of to those that the log
shows and the ones that are still to be answered.

### 4.2 Migrate

| theorem | states |
|---|---|
| `TypeCorrect` | `Spec => []TypeOK`, with the bookkeeping: the files before `pos`, and no others, have a report |
| `BatchStaysIntact` | without a fault, whenever no text is on trial every file has the outcome it had before the run |
| `DamageStaysBounded` | at most one damaged file for each fault |
| `CheckNeverWrites` | `--check` changes no file |
| `AskedOnlyWithOracle` | `[]AskedOnlyIfCovered`: without a fault, a file is sent to the model only if it type-checked before the run, and tests cover it that were there before the run or that an accepted proposal wrote |

They rest on `MigrateAssumptions` (the files of a batch are distinct, texts are closed under rewriting
and proposing); `BatchStaysIntact` on `RewritePreserves` as well, and `AskedOnlyWithOracle` on `RewriteKeepsShape`.
Of proposals nothing is assumed: `has_verifiable_coverage` reads the disk as earlier proposals have left
it, so tests from before the run are not what it guarantees. The inductive invariant `IInv` adds
three things to the types. `Tracking` says how `current_text`, `proposal` and the file on disk relate at
each step. `Untouched` says that no file is written before its turn. `BaselinesFixed` says that the
baselines are those of the original disk, although most of it has been rewritten by the time they are
used. `Harmless` is `BatchIntact` made inductive: while a text is on trial, the disk with the old text
put back is the one that agrees with the original (`StepHarmless`, one step for each action). Damage is
counted by showing that a step without a fault damages nothing (`NoDamage`) and one with a fault at most
the file it hits (`OneDamaged`). `Oracles` carries what `Cover` saw up to the answer of the model and
beyond: no report is followed by another write to its file, so an oracle stays one (`OracleStays`), and what
stands in an undamaged file is its first text, the rewrite of it, or an accepted proposal (`CompanionFound`).

### 4.3 DbStore (`StoreProofs`)

| theorem | states |
|---|---|
| `IdsAreUnique` | no table has two rows of one id |
| `DbStoreImplementsAtomicTables` | `Spec => ImplementsAtomicTables`: each step of a call is the whole call of `AtomicTables`, the cut of a fault, or nothing |

Both are proved for any number of processes under `DisjointTables`: no two processes use the same
table. This is what `docs/milestones/25-real-application/SPEC.md` asks of the programs that share a
directory, and `MCDbStore` satisfies it. Without it the refinement is false, two rewrites of one file lose
rows, and the customer support example is such a case. The invariant (`Rewriting`) says that a process
about to write holds what its table still has, or had until it was emptied. That is inductive only because a
process that is in a call is alone on its table (`Alone`).

### 4.4 CustomerSupport (`StoreProofs`)

| theorem | states |
|---|---|
| `ConfirmedTicketsKept` | a confirmed ticket stays, about what it was written about, and so does a confirmed resolution, unless a fault cut the ticket table |
| `FollowUpsAreAboutTickets` | each job and each email is about a ticket that is stored |
| `ProcessedJobsWereEmailed` | a job marked as processed was emailed first |

`SupportAssumptions`: server and worker are two processes, tickets and jobs two tables, and a record
can have each of the statuses. Here `DisjointTables` fails, so nothing is said of whole tables: a rewrite
of the jobs may be overlaid with another, cut off, or made from an old copy. Every fact of the invariant is
about single rows, in files, in what a process has read and is about to write, and in what handler and
worker hold (`Rows`, `Recorded`, `HandlerKnows`, `WorkerKnows`): which ticket a row is about, and that a
processed one was emailed. Such a fact only ever becomes truer (`Grown`), so it survives any mixture of
the lines of two writes, and copies however old. `Base` is what the ticket table needs beyond that: its
only writer is the server, and what the server has read of a ticket is what was written of it (`TicketRead`).

### 4.5 PackageResolve

| theorem | states |
|---|---|
| `LockedGraphsAreClosed` | each package of the graph has each of its dependencies in it, at the place its manifest says |
| `LockedGraphsAreRooted` | the graph has no cycle and nothing that the project does not need |
| `PinsAreHonoured` | commit and walked dependencies are those of the pin that came first, unless another process changed the working copy meanwhile |
| `WhatIsAddedIsImportable` | after a success, `aint.lock` has every dependency of `aint.toml` |

`PackageAssumptions` (section 2.5). `IInv` describes the walk by what `frames`, `resolved` and the history
`first` have to do with each other. `Trail` says that what is on the stack is in the graph,
once, with the dependencies of its manifest; `Placed`, that the dependencies a package is done with are in
the graph at their places; `Ordered`, that what is finished depends on what is finished, without a cycle;
`FromRoot`, that no part of the graph is there without something outside of it that needs it.
One lemma for each kind of step shows that these survive: a package is entered (`Descends`), skipped
(`Skips`) or left (`Leaves`). For a graph of any size, "no cycle" is stated over its subsets: each has a
member that depends on none of them. `PinsHonoured` needs what no single process knows: that no two clone into one
directory at once (`Exclusive`), and that every step of another process on a working copy is noted in
`disturbed` (`CopyStays`).

### 4.6 HttpServe, ModelAdapter

| theorem | states |
|---|---|
| `RequestsAreWhole` | what `handle_request` gets is the beginning of what its client declared and sent, all of it unless the client went away |
| `RepliesAreRight` | each connection is answered for its own request: by the file under the root, the handler, the model, or the error it deserves |
| `BillIsBounded` | at most five requests for a counted or dropped call, delays within the backoff and what the endpoint asked for, counted calls within the budget |

`ServeAssumption` gives the constants their types: declared bodies, an outcome for each path, a chunk of at least one byte.
The invariant follows the bytes: what a client sends is at any time cut into what the server
took, what waits in the stream and what is to come (`Cut`), and a client's step moves a cut without changing
the whole (`Moves`). A connection is in the backlog and unread, with the server, or done. `Knows` says for
each stage of the server what is known of the one it holds; it is kept by every step of
the server (`ServerKeeps`) and by whatever clients do meanwhile (`StaysTrue`). That `safe_asset_path`
leads nowhere but below the root is an induction over segments (`SafePathsStayInside`); the sum of
the delays is computed for the four retries there are (`DelaysAddUp`).

### 4.7 Loader

| theorem | states |
|---|---|
| `ReportsAreTrue` | `[]TrueErrors`: a load succeeds only on a graph without a fault, and of the faults of a graph the one it reports is there |
| `EveryLoadEnds` | `LoadsEnd`: each step of a load leaves less to do |

Both hold for any finite disk, any entry, any parser and any renaming (`LoaderSpec`, section 2.9); nothing
is assumed of the import graph, cycles and missing files included. `ReportsAreTrue` compares a walk with a
graph that knows nothing of it. The invariant `Walks` joins them by counting statements. A frame has the last
statements of its file, so how many are left tells which were taken (`Frames`); each frame but the last waits
for the import it took last, and no file is on the stack twice (`Stack`). `Read` is every statement
taken so far: those that frames have behind them, and all those of the files that were left. `Visits` says of
them that each import among them but the one just asked for led to a file of its own, which was entered
by no other import, and that none is at fault. When the entry is left no frame remains, so every statement
of every visited file was read: the visited files are closed under imports, hence they are the reached
ones, and what `Visits` says of statements becomes `Faultless`. Each error follows from where the walk
stands: the stack is a path in the graph, so a file that is on it closes a cycle; a visited one that is not
has two imports; and so on, one lemma for each (`CycleHolds`, `DuplicateImportHolds`, ...).
`EveryLoadEnds` is about `LoadToDo`, four natural numbers in lexicographic order: the stage of the load, the
files not visited, the depth of the stack, the statements left in the innermost file. It is what
remains of termination without fairness; that commands end is checked (`CommandsEnd`).

## 5. What is only model-checked, and what is not modelled

Liveness (`TimedSessionEnds`, `AddEnds`, `EveryoneServed`) stays with TLC: it needs fairness and `ENABLED`,
which the prover does not handle.

`TypeChecker`, `Interpreter`, `Lower`, `Vm`, `Lexer`, `Parser`, `Printer`, `Rewrite`, `TestRunner`, `Flattening`
and `FrontEnd` are recursive over programs, with `RECURSIVE` operators, on which the prover has no arithmetic
and set reasoning; their properties (`EnginesAgree`, `TypeSound`, `EffectsRespected`, `OptimizeKeeps`,
`LocalsInLockstep`, `FlatProgram`, `FormatKeeps`, `MeaningKept`, `CommandsEnd`) are inductions over
all programs and are checked on the
families of programs above. Where a proved module needs recursion over data, it is written as a recursive
function, and the induction is carried out by hand from the existence of a least counterexample.

Not modelled: of the command line `init`, `repl`, the parsing of arguments and what is printed; failing
writes of `fmt` (those of `migrate` are in `Migrate`); symbolic links, files that change while a program is
loaded, absolute paths in a lock file; float arithmetic, most of the library and the widgets, which are
functions of their arguments; content types of HTTP answers; prompts and the JSON of a conversation; the checker's choice among several
errors; registration, login and listing of the customer support example; the Python benchmark, which is
not part of the system. `PROJECT.json` has the status of each component.

### 5.1 Disagreements noticed without a run of their own

Besides the four violations above, the code differs from its documents here:

- `call_tool_traced` "captures a `Tool Call #N` trace record regardless of which path answered it"
  (`interpreter.rs:1012`): the record is pushed after the body was awaited, so a timeout that drops the body
  leaves none (in `InferenceRuntime`, `cancelled` counts these calls and `CallsAreAccounted` relates them to
  the log);
- the model is asked about a file "only where a real behavioral oracle exists"
  (`docs/milestones/45-migrate/SPEC.md:71`): a test block in an importer counts even if that importer does
  not type-check and its tests never ran (`migrate_cmd.rs:287-305`). `AskedOnlyIfCovered` counts it as well;
- the server and the worker "write disjoint tables" (`docs/milestones/25-real-application/SPEC.md:268`):
  both write `jobs` (`server.an:139`, `worker.an:37`), and the worker's rewrite loses a job the server
  inserted after the worker had read the table. What does hold of jobs is `FollowUpsHaveTickets` and
  `ProcessedWasEmailed`;
- a git dependency is "fetched and checked out to `rev` ... on every resolve"
  (`docs/milestones/36-git-dependencies/SPEC.md:44-45`): `git checkout` of a branch that the working copy has
  already leaves it where it was (`git.rs`), so a dependency pinned to a branch never advances.
  `PinsHonoured` takes the ref as the working copy knows it, and does not catch this;
- names in the flattened program are "globally unique" (`docs/milestones/29-modularity/SPEC.md:46`):
  alias `a` with name `b_c` and alias `a_b` with name `c` give one name, a local variable named like a
  function of the importing file is renamed with it, and an imported file can reach names of its importer;
- a constant of an enum declared below a root `let` of the same name replaces it, and a program may declare
  `print`;
- `effects` clauses do not bound `http_serve`, a tool that a model requests, or an awaited value made
  elsewhere (section 2.6);
- `validate_inference_result` checks answers of enum and distribution types only;
- the comment at `environment.rs:10-25` and the one at `lower.rs:34-38` describe earlier versions of the code.

## 6. Plan

Order: what waits for others first, then what keeps state on disk, then the sequential algorithms with
a reference to compare with.

1. `CallBudget`, `InferenceRuntime` and its proofs (done).
2. `Tables`, `AtomicTables`, `DbStore`, `CustomerSupport` and their proofs (done).
3. `Migrate` and its proofs (done).
4. `PackageResolve` and its proofs (done).
5. `TypeChecker`, `Interpreter`, `Lower`, `Vm` (done).
6. `ModelAdapter`, `HttpServe` and their proofs (done).
7. `Lexer`, `Parser`, `Printer`, `Rewrite`, `TestRunner`, `Loader`, `FrontEnd` (done).
8. Proofs of every safety property of the modules without recursive operators (done), `Loader` among
   them, whose walk takes the parser and the renaming as parameters. What is left to prove needs induction
   over programs (section 5).
