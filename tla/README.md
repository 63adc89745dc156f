# A TLA+ development for sa

`sa` is a streaming agent for a terminal: one C file (`src/main.c`), a
single-header JSON library (`src/tinyjson.h`), compile-time settings
(`src/config.def.h`) and a vendored TLS library (`src/bearssl/`). It posts the
transcript of a conversation to an endpoint, reads the answer as a stream of
server-sent events, runs the tools the answer asks for, and keeps the transcript
in `.sa_session.jsonl`.

1. [The system](#1-the-system)
2. [What is hard about it](#2-what-is-hard-about-it)
3. [The modules](#3-the-modules)
4. [The runs](#4-the-runs)
5. [What is proved](#5-what-is-proved)
6. [Where code and documents disagree](#6-where-code-and-documents-disagree)
7. [What is not modelled](#7-what-is-not-modelled)
8. [How the parts fit, and what could follow](#8-how-the-parts-fit-and-what-could-follow)

## 1. The system

| component | code | state | operations | modules |
|---|---|---|---|---|
| Session file and resume | main.c:1014-1106 | the file, the `messages` array | `session_append`, `session_rewrite`, `session_load`, `session_prune_empty_tool_use`, `compact_clear_tool_results` | `Messages`, `Session`, `SessionBytes` |
| REPL, signal flag, tool loop | main.c:26, 1109-1311 | `g_interrupt`, `messages`, `iter` | `main`, `chat_turn`, `on_sigint` | `Session`, `Turn` |
| SSE accumulator | main.c:106-122, 316-440 | `stream_state_t` | `on_chunk`, `handle_event`, `blocks_to_content` | `SseStream` |
| HTTP framing, outcome of a turn | main.c:145-314, 450-482 | position in the response | `http_read_headers`, `http_stream_body`, `http_post_sse`, `do_turn` | `Delivery`, `HttpTurn`, `Turn` |
| TCP connect, socket I/O | main.c:50-103 | descriptor, address list | `tcp_connect`, `sock_read`, `sock_write` | `TcpConnect`, `HttpTurn` |
| `shell` | main.c:517-545 | the pipe, the output buffer | `run_shell` | `Shell`, `Turn` |
| `edit_file` | main.c:618-692 | the file, its temporary | `edit_file_tool`, `atomic_write` | `AtomicFile`, `EditFile`, `Tools` |
| `read_file` | main.c:553-606 | position in the file, the page | `read_file_tool` | `ReadFile`, `Tools` |
| Skills, rules, system prompt | main.c:735-1012, 1232-1246 | `g_skills`, `g_rules` | `parse_frontmatter`, `scan_skills_dir`, `parse_rule`, `scan_rules_dir`, `rule_applies`, `build_system_prompt` | `ContextLoading` |
| tinyjson | tinyjson.h | trees of nodes, bytes | create, add, reference, delete, set, parse, print | `JsonText`, `JsonTree` |

`main` appends a prompt to `messages` and calls `chat_turn`; that prints the
request and calls `do_turn`, which drives `http_post_sse`; that calls `on_chunk`
with each piece of the body, and `on_chunk` calls `handle_event` for each data
line. `chat_turn` turns the blocks into a message, appends it to memory and to
the file, runs the tools one after the other, appends their results, and starts
over. The process has one thread; what runs beside it are the signal handler,
which sets `g_interrupt`, the server, and other programs that touch its files.

## 2. What is hard about it

- *Crashes and failing writes.* Each message is appended to the file on its own,
  an assistant message before its tools run. A kill, a full disk or an append
  that stops inside a line must leave something `sa -c` can go on with.
- *SIGINT* can arrive between any two steps: before a blocking read, between
  two tools, while a chunk is being read. It ends a turn at several places, and
  each must leave a transcript the API accepts.
- *Retries.* A context overflow compacts the transcript, rewrites the file and
  tries again, inside the loop that counts tool rounds.
- *Framing.* The body arrives in pieces that respect neither HTTP chunks nor
  lines; the stream may break off anywhere, and `do_turn` still returns 0.
- *Limits.* Lines, blocks, the block array, size lines, the error buffer and the
  tool rounds all have caps.
- *Files others write.* `edit_file` reads, searches and renames in separate
  steps, `read_file` reads line by line; the session file may have been left by
  an earlier version, or hold lines of somebody else's.
- *Waiting.* Connecting, reading, closing and running a command all wait, each
  with a limit of its own or none, and SIGINT means something else to each. The
  end of a stream is one thing to main.c and another to the TLS library.
- *Ownership.* Requests refer to the trees of `messages` and `tools` without
  owning them, and a turn has many ways out, each with its own frees.
- *Directories come in no order*, and the tables they fill have caps.

What makes each part correct: the transcript of a request is paired and, if old
files have an empty tool use only alone in its message, free of empty tool uses;
the file always holds what memory holds; the accumulator's blocks are those of
the bytes received; a tool never runs with part of its input; a body is
delivered exactly or the turn says otherwise; a turn ends as long as the TLS
library returns; an edit happens at once or not at all, and the answer says
which; following the hints of `read_file` misses no line; a shell call reports
what happened; no socket and no node is left behind or freed twice; what is
loaded from the file was written by somebody; the project's skills and rules do
not give way to the user's.

`PROJECT.json` lists these hazards with the lines where they bite and the
properties that watch them.

## 3. The modules

### Messages and Session

`Messages` is the data: messages as records of a role and a sequence of blocks,
of which only type, id and the state of the payload are kept (`"input"` or
`"empty"` for a tool use, `"long"`, `"short"` or `"cleared"` for a result). It
defines `compact_clear_tool_results` (main.c:1039-1061), one step of
`session_prune_empty_tool_use` (1084-1104), `has_tool_use`, and what it means
for a transcript to be paired.

`Session` is one working directory in which `sa` is started again and again, at
most one process at a time. `pc` names the point of `main`, `session_load`,
`session_prune_empty_tool_use` or `chat_turn` that the process has reached:

| `pc` | code |
|---|---|
| `load`, `prune`, `heal` | 1063-1106, 1250-1261 |
| `reset`, `entering`, `blocked`, `eintr` | the prompt, 1287-1299: before the reset of `g_interrupt`, before `read(2)`, in it, returned from it |
| `oneshot`, `saveUser` | 1272-1279, 1300 |
| `top`, `http`, `rewrite` | 1111-1142 |
| `saveAssist`, `tools`, `saveResults` | 1144-1185 |

`do_turn` is the choice of an outcome (`TurnInterrupted`, `TurnFailed`,
`Compact`, `NothingToCompact`, `BrokenToolUse`, `Answer`), a tool the choice of
a result; `SseStream`, `HttpTurn`, `Turn` and `Tools` look into them. `disk` is
a sequence of lines, each with a message and a shape: `alone`, `glued` (its
newline is missing and the next append continued the line; tinyjson parses the
first value and ignores the rest) or `torn` (does not parse); `eol` tells whether
the next append begins a line of its own. `Faults` says what may go wrong:
`crash`, `lost` (an open or rename fails and is skipped), `torn` (a piece of the
message arrives, with or without the newline behind it), `glued`, and `short`
(`session_rewrite` does not check its writes). `base` and `retry` are history.

### JsonText, SessionBytes and JsonTree

`JsonText` has the parser and the printer of tinyjson.h on sequences of bytes:
escapes, `\u` with one to three bytes of UTF-8, the bare control characters the
parser lets pass, trailing text that nobody looks at. The parser recurses along
the text, so it is a function of the places of the text (`Chars`, `Items`); the
printer recurses down the tree, so it is one of the depth of a node (`Texts`).

`SessionBytes` is the session file as bytes: `session_append` writes any
beginning of what is printed, or also the newline behind a missing end,
`session_rewrite` any beginning of the whole, and `session_load` splits, parses
and skips. Its property `FileAsSession` says that each of these is the
`session_append` or `session_rewrite` of `Session` (an `INSTANCE` whose `disk` is
`View(bytes)`): the shapes of lines that `Session` postulates are all that cut
writes can leave. The variable `disk` keeps the view, so that it is computed once.

`JsonTree` is about pointers, not bytes: a heap of nodes with `next`, `prev`,
`child`, `is_ref` and owned strings, and `cj_new`, `cj_append_child`, `cJSON_Delete`,
`cJSON_AddItemReferenceToObject`, `cJSON_DeleteItemFromArray`,
`cJSON_SetValuestring` on it. Its actions are what main.c does with trees from
`session_load` to the two deletes at the end: prune, make and delete a request,
look at an error body, build, hang up or discard the content of an answer, parse
inputs, collect results, compact. The constants `Lines` and `Answers` are the
messages an old file may hold and the answers that may be streamed, as sequences
of the kinds of their blocks; nothing else of a message decides what is allocated
for it. What `cJSON_Delete` visits is `Reached`, a run along the pointers for as
many steps as there are cells, and `FreedOnce` is what makes the recursion of the
code visit each of these cells once. `HeapExact` is recomputed from the heap: each
live cell has exactly one owner, no pointer dangles, nothing was freed twice.

### SseStream

The stream state of one answer. `on_chunk` is modelled byte by byte, with the
chunk boundaries chosen by the environment; each branch of `handle_event` is an
operator; `StoreAnswer` and `DiscardAnswer` are `blocks_to_content`. A byte is a
character the line splitter looks at, or the k-th piece of the JSON of an event;
the five bytes of `data:` count as one; whether a line parses depends on all the
pieces being there. The reference against which the blocks are compared,
`ReferenceBlock`, is defined from the whole body: the lines, their events, the
last start of an index and the deltas after it.

### Delivery and HttpTurn

`HttpTurn` is one call of `do_turn`: connect, write the request, read the
header block, then the error body or the body in one of its three framings,
close, and map the outcome to 0, -1, -2 or -3. Reads return any number of bytes;
`szline`, `remaining` and the two bytes after a chunk are modelled as the code
keeps them, so that a short read of the CRLF is made up for by `strtol` on the
next size line. The TLS layer is `br_sslio_*` as this code uses it. After a
close_notify, a reset or 30 s of silence a read returns -1 (`ReadEnds`,
`HeadersFail`, `ErrorBodyEnds`) and closing is done (`Closed`). If the stream just
ends, `recv` returns 0, `sock_read` hands that on, and `run_until` of BearSSL
(ssl_io.c:117-131), for which 0 means that nothing has come yet, asks again, for
ever: the environment's `EndOfStream` takes a call that waits for a record
(`InRunUntil`) to `spinning`, where `Spin` is all that follows. SIGINT sets the
flag there, too, and nobody looks. `Delivery` is what it promises the accumulator: a prefix of the body, in
order, nothing after SIGINT, an error only if nothing was handed over. The chunk
sequences of `SseStream` are those that `Delivery` allows.

### TcpConnect, Shell and Turn

`TcpConnect` is the walk over the addresses: each gets a socket that connects
without blocking, waits in `select`, and is closed before the next is tried.
`Shell` is `run_shell` with the other side of its pipe: the command writes bytes,
one of which may be a NUL, the shell ends, and a background process may go on
holding the pipe. `fread` gathers a chunk from several reads, and SIGINT makes
only the one that waits fail; what was gathered is then returned as if it were a
chunk. Of the output the model keeps its length and the place of its first NUL,
behind which `strdup` loses everything, the exit status included.

`Turn` composes them with `HttpTurn` into one round of `chat_turn`: connect,
exchange, then the shell calls of the answer one after the other, then the test
of `g_interrupt` before the next request. The exchange leaves `http_post_sse` in
three ways, each with a `close(fd)` of its own: `Fail`, `ErrorClosed` and
`BodyClosed`. SIGINT may come anywhere
(`SigintAnywhere`); besides setting the flag it makes a waiting `select` or read
of the pipe fail.

### AtomicFile, EditFile, ReadFile and Tools

`AtomicFile` is what `edit_file` promises: at one moment the file goes from a
content to an edited form of it, or stays as it is; `wrote` is answered only
after that moment and `error` only before it; a temporary file stays behind only
if the process is killed. A call that nobody disturbs edits the content the file
has. When others write it meanwhile, the call may edit any content the file has
had since it began, or the beginning of one, and the others' write is lost.
`EditFile` has one action for each call to the file system: `Open`, `Measure`
(`ftell`), `ReadBody` (`fread`, whose count is not compared with the size),
`Replace` or `NotUnique` (`strstr`, up to the first NUL and behind each match),
`MakeTemporary`, `WriteTemporary`, `Rename`, `Finish`, with their failures, and
the environment's `Kill` and `Outside`. `seen` and `torn` are history.

"Exactly once" (main.c:695) is, in this code, "no two occurrences that do not
overlap, before the first NUL". `Edits` says so: `aa` in `aaa` is replaced, and
an occurrence behind a NUL is not counted.

`ReadFile` is one page of `read_file`: `getline` by `getline`, with the offset,
the limit, the byte cap, the test for NUL and the hint where to go on. A file is
the sequence of its lines. `Tools` has both tools over one file that other
programs replace, or write in place while a reader has it open; `LinesOf` is
`getline`: a line for each place where one ends. `ReaderAlone` says that over this file the reader is the one of
`ReadFile`, so that the theorems about `ReadFile` hold here.

### ContextLoading

`Scan` takes an entry from what is left of a directory, in any order;
`NextDirectory` goes through the project's and then the user's;
`build_system_prompt` selects the rules that apply. `parse_frontmatter` and
`parse_rule` are recursive functions of the number of lines read; of a line the
model keeps whether it is indented, the key and the value. The references,
`Written` and `GlobsListed`, are readings of the whole frontmatter at once: the
line a key is on, and what belongs to it. The mark that closes a skill's
frontmatter may be indented and that of a rule may not, and an item without a
text is no glob; the references follow the code in both. `Written` is compared on
the files the parser is made for (`Simple`: a key at most once, no empty line
within a block). `GlobsListed` is compared on every file. It says which lines
are globs to this program: indented items that follow a line `paths` with nothing
in the first column between, not even an empty line, and as many of them as a rule
has room for. Globs written otherwise do not count, so that `RuleScoped` says of a
rule with `paths: [glob]`, the form of README.md:54, that it is in every prompt;
the README says otherwise of it, see
[section 6](#6-where-code-and-documents-disagree).

### Proof and model-checking modules

`MCSession`, `MCSseStream`, `MCHttpTurn`, `MCTurn`, `MCTools`, `MCJson` and
`MCContextLoading` give the constants values; `MCJson` also puts the two halves
of the JSON model side by side. Eight modules hold the proofs: `SessionProofs`
has the lemmas about transcripts, then what holds under all faults and what
holds of the file under some; `SessionBytesProofs` is about the parser and the
printer of `JsonText`, then about the file they make and what `Session` sees of it; `SseStreamProofs`,
`TurnProofs`, `ToolsProofs` (with `EditFile`, `ReadFile` and both together),
`JsonTreeProofs` and `ContextLoadingProofs` are about the modules of those names; `InductionProofs` has
induction over the naturals and what follows from it for `Min`, `Max`, slices and
`FlattenSeq`. A definition named `X_Something` beside a definition `X` is a
variant of it with a plausible mistake; it is used by nothing, and shows, put in
the place of `X`, that the property can fail.

## 4. The runs

| run | module, cfg | checks | bounds |
|---|---|---|---|
| `session_core` | `MCSession`, `SessionCore.cfg` | `TypeOK`, `ResumedPaired`, `NeverSendsPoison`, `DiskMirrorsMemory`, `RetryOnce`, `CompactionOnlyClears`, `ExitZeroMeansAnswered`, `TurnEnds` | no faults; 2 rounds a turn, 2 tool ids, prompts up to a file or a transcript of 4 messages, `KeepLast` 1, a fresh file and two old ones, whose empty tool uses are alone in their messages |
| `session_faults` | `MCSession`, `SessionFaults.cfg` | `TranscriptPaired` | all five faults; prompts up to 2 messages, 2 rounds |
| `sse_core` | `MCSseStream`, `SseCore.cfg` | `TypeOK`, `BlocksReplay`, `ToolsAreWhole` | bodies of three of nine lines, and seven longer ones; 2 blocks, lines of 5, blocks of 3 |
| `http_core` | `MCTurn`, `HttpCore.cfg` | `TurnTypeOK`, `FramingExact`, `OneSocket`, `ReportTrue`, `ImplementsDelivery`, `TurnReturns`, `ShellReturns`, `InterruptEndsTurn` | 15 answers, buffers of 3 bytes, size lines of 5, 3 writes for the request; 2 addresses; up to 2 shell calls with 9 bytes of output, chunks of 3, cap of 4 |
| `tools` | `MCTools`, `Tools.cfg` | `ToolsTypeOK`, `PageRight`, `PagingMissesNothing`, `PageBounded`, `KeepsPromise`, `ReaderAlone` | nine contents others write, 8 edits, 18 reads; caps of 3 bytes for an edit and 5 for a page, one leftover temporary |
| `json` | `MCJson`, `Json.cfg` | `BytesTypeOK`, `NothingForged`, `FileAsSession`, `HeapExact` | 2 writes cut at every byte, behind one of 11 foreign lines or none; trees of up to 4 messages |
| `context` | `MCContextLoading`, `Context.cfg` | `ContextTypeOK`, `ProjectFirst`, `SkillsAsWritten`, `NoSkillMissed`, `RuleScoped` | every skill and every rule of up to 4 lines (of eleven each) behind the opening one, every set of 4 kinds of entries in each of two directories, caps of 2 |
| `session_orphan`, `session_sigint_prompt`, `session_forget`, `http_stall`, `http_fin` | | one property each, which fails | see [section 6](#6-where-code-and-documents-disagree) |

Why the bounds are enough to be interesting:

- *Session.* With `KeepLast` 1 a transcript of three messages has something to
  compact and something to protect, with two rounds a compaction can be followed
  by a retry, a tool round, and the iteration limit, and with four messages a
  process resumes, heals and goes on. The pruning loop meets a poisoned message
  in the middle and at the end of a file. Responses include one with two tools
  (SIGINT between them), an empty one and a broken one. A prompt is accepted only
  while the file has at most `MaxLines` lines; a turn runs to its end beyond it.
- *SseStream.* Every boundary of chunks and every point at which the stream can
  break off is tried for each body; caps are met by a line one byte too long, a
  block that fills within a delta and one that is full before it, and indices at
  and beyond the array.
- *HttpTurn.* Bodies hold bytes that look like framing; the answers have chunked
  bodies with and without extensions and trailers, a negative size, a
  Content-Length, a close-delimited body, error bodies below and above the
  buffer, and header blocks that are missing or too long. The connection ends in
  each of its ways (a reset, a close_notify or silence; the bare end of the
  stream) at every read, in the handshake and in the close.
- *Turn.* With two addresses the first can fail in each way and the second be
  reached; 9 bytes of output in chunks of 3 meet the cap of 4 in the second
  chunk, with a last chunk that is partial, full or missing, and a NUL before and
  behind the cap. Two calls let SIGINT fall into the first of them.
- *Tools.* Among the contents are ones where the string occurs once, twice,
  overlapping itself and behind a NUL, and one above the cap; for the reader
  there are no line, an empty line, lines with and without a newline at the end,
  and a NUL; offsets and limits go from below 1 to beyond the end.
- *Json.* The strings hold a quote, a newline, a control character and a byte of
  UTF-8, so that a cut falls into an escape and between its digits; the second
  write continues what the first has left. The two halves share no variable:
  a behaviour is about the bytes or about the trees, and the run explores their
  sum, not their product.
- *Context.* Four lines suffice for a key, a block of two lines and what ends it;
  among the lines are indented marks, indented keys, an item without a text, an
  item in the first column and a list in brackets; a rule of three items is one
  above the cap of globs.
  Two directories with four kinds of entries each overflow a table of two before,
  in and behind the second.

Fairness. `TurnSpec` has weak fairness on `chat_turn` and on the end of the shell.
The code justifies the former: `select` in `tcp_connect` waits 10 s (main.c:67),
`recv` and `send` have a timeout of 30 s (main.c:79-81), and the loops of main.c
that read go on only while bytes arrive; the answers and outputs of the model are
finite. No timeout ends the loop of `run_until` when `recv` returns 0 at once, and
fairness does not help either: at `spinning` the only step of `chat_turn` is `Spin`,
which changes nothing. `TurnReturns` and `InterruptEndsTurn` therefore name
`spinning` as a way in which a turn may fail to end, and claim that the stream's
end without a close_notify is the only one on the network; `InterruptReturns`, which
does not name it, fails. `FairSpec` of `Session` has weak fairness on the
program's own steps but not on `DoTurn`, the return of a request, since that is not
to be had of the code: `TurnEnds` is about everything around it, and says that a
turn ends or one of its `do_turn` never returns. That a command ends is
an assumption, since `run_shell` does not enforce it: one that never ends blocks
the turn. A process the command has put in the background need not end, and
`ShellReturns` and `InterruptEndsTurn` name it (`Held`) as what may keep a call.
Nobody is required to type, to start a process, or to send a signal.

Deadlock is checked in every run but `json` and `context`: there the bounded
number of writes, and the built prompt, are the end. A process that has ended is
started again in `Session`, and the single answers of `SseStream` and `Turn` end
in a step that stutters.

## 5. What is proved

Every safety property the passing runs check, invariant or action property, is
also a theorem. The theorems hold for every value of the constants that satisfies
the assumptions of the modules, and those named with a theorem:

| assumption | says | why |
|---|---|---|
| `MessagesAssumption`, `SessionAssumption` | limits are naturals, responses and old files have the right shape, files of earlier versions consist of whole lines | settings of config.def.h; what the API and earlier versions write |
| `SseAssumption` | caps are above 0, bodies are sequences of bytes, an event takes one to four of them | settings; a body is bytes |
| `HttpAssumption`, `TurnAssumption` | sizes and caps are naturals, buffers are not empty | settings |
| `FramingAssumption` | with status 200 the server frames its body: by its Content-Length, by its end, or in chunks whose size lines fit into `szline` | RFC 9112; without it nothing can be said of what is delivered (main.c:190) |
| `EditAssumption` | NUL is a character, arguments are C strings without NUL, the value for "no file" is no content | they come through `valuestring` |
| `ReadAssumption`, `ToolsAssumption` | a line has a size above 0, and every slice of a file may be one | `getline` |
| `NilAssumption`, `LinesAssumption`, `AnswersAssumption` of `JsonTree` | Nil is no cell; messages are sequences of blocks of the four kinds, answers of texts and tool uses | what `session_load` keeps of a message, what `blocks_to_content` makes |
| `ContentsAssumption`, `ForeignAssumption` of `SessionBytes` | what messages are about are strings of bytes without NUL; a foreign line has neither NUL nor newline | C strings; what `getline` and `cJSON_Parse` make a line of |
| `ForeignValues` of `SessionBytes` | no foreign line is a number or a string alone | every message main.c makes is an object; `session_load` takes any value, and of a line `12` a cut rewrite leaves `1`, which nobody wrote, while a string that is cut goes on to the next quote in the file |
| `CapsAssumption`, `LayoutsAssumption` | the tables have room for something, a file is a sequence of lines | settings |

`FramingAssumption` describes a chunked body by where each chunk begins on the
wire and in the payload (`chunks`), and asks that `HexValue` of the size line, as
`strtol` reads it, is the distance to the next; it includes servers whose last
size is negative or unreadable, for which the code reports an error. It does not
say how reads return, when the connection breaks off or when SIGINT comes.

| theorem | says |
|---|---|
| `TypeCorrect` | `Spec => []TypeOK` for `Session`, and no index leaves its array |
| `TranscriptAlwaysPaired` | `Spec => []TranscriptPaired`, under all faults |
| `RequestsClean` | `Spec => []NeverSendsPoison`, under all faults, when `OldFilesSolo`: in the files of an earlier version a tool use without input is alone in its message; pruning does not find others (main.c:1091), and they are sent |
| `CompactsOnce`, `CompactionKeepsStructure` | `Spec => RetryOnce`, `Spec => CompactionOnlyClears` |
| `ExitZeroIsEarned` | `Spec => ExitZeroMeansAnswered` |
| `FileMirrorsMemory` | `Spec => []DiskMirrorsMemory` when `Faults \subseteq {"crash"}` |
| `ResumedTranscriptPaired` | `Spec => []ResumedPaired` when `Faults = {}` and `OldFilesHealable`; with crashes it is false, as `session_orphan` shows |
| `SseTypeCorrect` | `Spec => []TypeOK` for `SseStream` |
| `StreamReplays` | `Spec => []BlocksReplay`: whatever the body, the events, the cut into chunks and the end |
| `StoredToolsAreWhole` | `Spec => []ToolsAreWhole`, for bodies without an oversized line: one in the middle of an input is dropped (main.c:400) |
| `NoSocketLeft`, `ReportAlwaysTrue`, `TurnTypeCorrect` | `TurnSpec => []...` for `OneSocket`, `ReportTrue`, `TurnTypeOK` |
| `FramingIsExact` | `TurnSpec => []FramingExact` |
| `TurnImplementsDelivery` | `HttpTurn`, within `Turn`, implements `Delivery` |
| `EditTypeCorrect`, `EditKeepsPromise` | `EditFile` keeps its types and implements `AtomicFile` |
| `ReadTypeCorrect`, `ReadPageBounded`, `ReadPageRight`, `ReadPagingMissesNothing` | `ReadSpec => []...` for `ReadTypeOK` and the three properties of a page, whatever lines other programs slip in |
| `ToolsTypeCorrect`, `ToolsKeepPromise` | the same for both tools over one file: `ToolsSpec => []ToolsTypeOK`, and `AtomicFile` beside readers |
| `ToolsReaderAlone`, `ToolsPagesRight` | beside edits and other programs the reader behaves as `ReadFile` says, so that its pages have the three properties there too |
| `EveryNodeHasOneOwner` | `TreeSpec => []HeapExact`: for messages of any number and length, whatever the order of loading, pruning, requests, failures and tool rounds |
| `BytesTypeCorrect` | `BytesSpec => []BytesTypeOK` |
| `PrintedIsParsed` | a tree in order that is printed and parsed is the tree it was, and the parser stops behind its last byte |
| `NothingForgedCorrect` | `BytesSpec => []NothingForged`: for any strings, any number of writes and any cuts |
| `FileAsSessionCorrect` | `BytesSpec => FileAsSession`: each write of bytes is one of `Session`'s, so that what is proved of its faults holds of cuts at any byte |
| `ContextTypeCorrect`, `ProjectNotDropped` | `Spec => []ContextTypeOK`, `Spec => []ProjectFirst` for `ContextLoading` |
| `SkillsReadAsWritten`, `SkillsNotMissed`, `RulesAreScoped` | `Spec => []...` for `SkillsAsWritten` and `NoSkillMissed`, for `Simple` files of any length, and for `RuleScoped`, for any files |

The inductive invariants:

- *Session.* `TypeInv` is `TypeOK` with `Bounds`: where `idx`, `base` and `iter`
  may be at each `pc`. Without it the indexing in the loops is not typed.
  `PairInv` describes the transcript inside a turn. While tools run, the last
  message is an assistant message whose ids are the ids of `response`, and
  `results` answers those before `idx`; when the results are collected, they
  answer all of them. Only outside these places is the transcript paired as it
  stands. `AppendExchange`, `AppendPlain` and `CompactPaired` 
  say that what is appended and what compaction does keeps it.
  `RetryInv`: after a compaction, nothing is left to clear until a response is
  recorded. `PoisonInv`: pruning goes from the end, and above its index nothing
  is empty (`CleanAbove`), although a step may delete two messages. What it calls
  empty is what pruning looks for; that nothing else is comes from `SoloInv`: every
  message, in memory and in the file, that has an empty tool use has no other block.
  No step makes one, and compaction leaves tool uses alone. `OneshotInv`:
  a one-shot process is never at a prompt.
- *The file.* `MirrorInv` adds to `DiskMirrorsMemory` what holds during loading:
  the file consists of whole lines, the messages read so far are the file's first
  lines, and the pruned transcript differs from the file until it is healed.
  `HealInv`, for `ResumedPaired`: what the file and memory hold is `Healable`,
  paired but for tool uses that are empty, each alone in its message, with an
  answer of its own or none. Pruning, compaction and each append keep
  that, the append of an answer only together with that of its results, which is
  why a crash between them is excluded. A healable transcript without empty tool
  uses is paired. `OldFilesHealable` asks it of the files of earlier versions.
- *SseStream.* `ScanOK` and `BlocksOK` type the buffers and the blocks.
  `LineInv`: `line` is the line of the body that `pos` is in, unless it has become
  too long. `ReplayInv` adds that the blocks are the reference's for the
  events of the complete lines; `BlockNext` shows that one event changes the
  reference as `handle_event` changes a block, which is where "the last start of
  an index and the deltas after it" has to be computed for a sequence with one
  more event. `ToolsInv`: what is stored is what the events of the whole body
  give, since a tool use whose input was cut or capped does not parse.
- *HttpTurn.* `ControlInv` says what each control point knows whatever the bytes
  are. `FrameInv` ties the position on the wire to what has been delivered: there
  is a chunk `k` such that the program is at, in or behind its size line, or in
  its data, with as much delivered and as much remaining as that says
  (`AtChunk`). After a short read of the two bytes behind a chunk, the position is
  one short and the size line begins with a line feed, which `strtol` skips.
- *Turn.* `SocketInv` ties the socket to two program counters: that of
  `tcp_connect` while it runs, that of `http_post_sse` afterwards. `ShellInv`: what
  has been read never exceeds what was written, and when the loop has been left
  the output was cut by the cap, by SIGINT, or is all there. `AddressInv`,
  `OutputInv` and `RoundInv` type the three parts.
- *Tools.* `Knows` says what a call of `edit_file` knows at each step: what was
  opened is a content the file has had; what was read is one, or the beginning of
  one and the call counts as disturbed; what is to be written is an edited form
  of such a content, and the temporary file holds all of it. `Inv`, of
  `read_file`: at every `getline` what is to come is the end of the file that was
  opened (`Position`), what is shown is the slice that begins at the offset
  (`Progress`, `Faithful`), and once the loop is left there is a reason for it
  (`Left`): the limit, the end, or the cap. `ToolInv` types both beside each
  other; that `LinesOf` gives lines is what `ToolsReaderAlone` needs besides.
- *JsonTree.* `HeapExact` is not inductive: that each cell has one owner does not
  exclude a ring of cells that own each other, which no delete would ever meet,
  and says nothing of what a delete takes with it. `Forest(P, R)` says both: no
  cell is pointed to from two, none of the roots `R` from any, and a set of cells
  that holds the roots and is closed under the pointers is all of them. One lemma each
  says what becomes of a forest when a cell is made (`ForestNew`), put behind
  another (`ForestLink`), cut out (`ForestCut`) or deleted with all below it
  (`ForestDelete`, which is also why the delete frees each cell once), and
  `NewIs`, `AppendIs`, `UnlinkIs`, `DeleteIs` and the others bring them to the
  functions of tinyjson.h. `Good` adds what these need of the fields: `prev` and
  `next` agree, nothing follows a root, a string is one node's. `HeapInv` has
  `Good` for the roots that the program holds, `list`, `tools` and `local` (`Held` says
  which of them exist at each `at`), and two facts a request depends on:
  `NoString`, the array of messages has no string of its own, so that a
  reference to it shares none, and `Refs`, a reference is never outside the
  request, so that what it points to may change once the request is gone.
- *The bytes.* What the parser makes is a tree in order, `Good`: it belongs to
  a set of nodes that is closed under children and each of which is `Tidy` (its
  fields fit its type, its number prints in fewer than 64 bytes, its depth is one
  more than that of its deepest child). `BytesInv` says that of the messages in
  memory, and of the file that it consists of bytes; printing gives bytes from 32
  on (`PrintType`), so that a printed message is a line.
  `PrintedIsParsed` is proved by induction over the depth of the tree and, in a
  container, over the number of its items from the last one back. The statement
  that the induction carries, `Rereads`, is about the first `n` bytes of the printed tree,
  wherever they stand in a text: if they are all of it, and no digit follows, the
  parser returns the tree and stops behind them; if not, and behind them is a
  `Joint`, it returns nothing, or, for a number or a string, stops at a byte where
  the container around it fails.
  What follows a cut is never the rest of the value: a file goes on with
  another message, which begins with `{"r`. A cut in the middle of a string is
  the hard case, since the next quote closes it; the reader is then behind the
  second byte of the next message, at a letter, where neither a comma nor a
  bracket nor a colon can be. If the next message is itself cut before its
  letter, the same holds of the one behind it, or the text ends. `Bound(t, B)`
  describes such a text by the places at which its pieces join, `Joint` what the
  reader of a value and that of an open string make of what follows such a place, and `BoundJoint` goes through them from the last to the first.
  `MadeOf(t, m, n)`: the line begins with `n` bytes of `m` and goes on with
  pieces; such a line parses as `m` if that is all of `m`, and not at all otherwise (`MadeParse`).
  `SaidInv` adds to `BytesInv` that the lines of the file that parse have been
  said, and that the last line, if its newline is missing, is `MadeOf` a message
  that has; `RewrittenIs` says which lines a rewrite leaves for any messages and
  any cut. `ViewInv`, that `disk` is the view of the bytes, is all that
  `FileAsSession` needs besides.
- *ContextLoading.* `LoadInv`: while the project's directory is read, each of its
  entries is still to come, in the table, or without room; from then on the table
  keeps that. `PromptInv`: in a directory that has been read, a skill that is not
  in the table was left out with a warning. The parsers have invariants of their
  own, over the lines of a file: `BodyOK` says what the two fields and the open
  block are after `j` lines of the frontmatter, and `RunOK` puts what is before
  and behind it around that; `ListOK` and `ListScan` do so for the globs: those kept
  are of the lines that list one while the number of such lines before is below
  the cap, and how many are kept is that number or the cap.

Induction. The library's induction theorems take an operator as a parameter, so
that the provers cannot use them. `InductionProofs` goes another way: finite sets
have a minimal element under strict inclusion, so a non-empty set of naturals has
a least element (`LeastElement`), and a set that holds 0 and every successor is
`Nat` (`SetInduction`). What a recursive function or `FlattenSeq` does to a
sequence with one more element is proved by taking the set of the lengths for
which it holds. That is why the models use recursive functions and `FlattenSeq`,
and not `SelectSeq` or `FoldLeft`, where a proof looks into the computation; where it
does not, as with the value of a size line, it takes the result for any value.

Model-checked only:

- `TurnEnds`, `TurnReturns`, `ShellReturns` and `InterruptEndsTurn`: liveness
  under fairness is out of the prover's reach.

## 6. Where code and documents disagree

Shown by a run each:

| run, property | code | document |
|---|---|---|
| `session_orphan`, `ResumedPaired` | the answer is appended before its tools run (main.c:1155, 1182); a kill in between leaves a `tool_use` without result, which `-c` sends | "paired tool_result always directly follows" (main.c:1098), ROADMAP.md:104 |
| `session_sigint_prompt`, `FgetsInterruptible` | SIGINT between main.c:1289 and the read sets the flag and interrupts nothing | ROADMAP.md:87 |
| `session_forget`, `HistoryKept` | `session_rewrite` writes the messages of this process only; without `-c` the first compaction drops earlier sessions (main.c:1135) | README.md:44, ROADMAP.md:107 |
| `http_stall`, `TransportErrorFailsTurn` | once the status is 200, `do_turn` returns 0 whatever becomes of the body (main.c:455-481) | ROADMAP.md:84 |
| `http_fin`, `InterruptReturns` | when the stream ends without a close_notify, `sock_read` returns 0 (main.c:89) and `run_until` calls it again for ever, with no look at `g_interrupt` (ssl_io.c:117-131): the program spins until it is killed | README.md:44; bearssl_ssl.h:3986: "Reaching end-of-stream is an error" |

Met while modelling, without a run. The three that matter most:

- Pruning looks for a `tool_use` without input only in messages of one block
  (main.c:1091). In an old file, one that stands behind a text is neither healed
  nor refused: the resumed session is sent with it, and every later one (main.c:418,
  main.c:1256). `OldFilesSolo` keeps such files out of `RequestsClean`.
- What follows `paths:` on its line is not read (main.c:934): a rule with the
  `paths: [glob]` of README.md:54 and ROADMAP.md:54 has no globs and applies
  everywhere. `RuleScoped` says so of it.
- An error body is captured with its framing (main.c:285-301). If it is chunked
  it does not parse, and a context overflow is answered by -1, not by the -3 of
  ROADMAP.md:102 (main.c:465-479); nothing is compacted. `ContextError` has it.

The others: SIGINT does not stop the remaining tools of a
response (main.c:1162; README.md:44). `session_rewrite` does not check its writes
before the rename (main.c:1035; ROADMAP.md:105), which `session_faults` models.
A message glued to one whose newline is missing is skipped without a word
(main.c:1073; ROADMAP.md:81). Any JSON value on a line becomes a message, not
objects only (main.c:1074), which is why `ForeignValues` is needed. Thinking deltas are dropped (main.c:364;
ROADMAP.md:36). A close-delimited body that ends with a close_notify gives -1,
not the 0 of the comment (main.c:225, 236). SIGPIPE is not ignored, so a server that hangs up
while the request is written kills the process (main.c:98). Closing the
connection, and a read that is interrupted, go on without a look at
`g_interrupt` (main.c:88, 305; ROADMAP.md:38). An edit replaces an overlapping
occurrence (main.c:670, 695). The shell tool redirects with `2>&1` behind the
command, which binds to its last simple command only, so that the others write
their errors to the terminal (main.c:523; main.c:547; README.md:62). A size line of more
than 31 bytes is cut and its rest is taken for the chunk (main.c:190). The hint
of `read_file` names the last line shown when the file ends there, so a reader
with a limit of one line would not get on (main.c:600). A list of globs in the
first column, or items behind an empty line, give a rule no globs, as a list in
brackets does, and globs beyond the cap are dropped (main.c:934-947). In the
frontmatter of a skill an empty line ends a block, where YAML goes on with it: a
line without indentation resets `cont_target`, and the indented lines behind it
are read as keys of their own (main.c:789-796); `Simple` excludes such files. The project's directories are read first, not the
user's (main.c:1232-1240; README.md:52), which is what `ProjectFirst` is about;
rules beyond the cap are dropped without a word (main.c:959). An indented
`name:` outside a block is taken for the skill's name (main.c:803). Started in
the home directory, the program loads every skill and rule twice. A `\u` pair of
surrogates becomes two sequences of three bytes (tinyjson.h).

## 7. What is not modelled

- The names of tools, texts, prompts and all output to the terminal; HTTP header
  and request texts; URL parsing; the text of CLAUDE.md and the escaping of the
  skills block; the lengths of names and values in frontmatter.
- Numbers with a fraction or an exponent in JSON, and the depth of its nesting.
- Two processes in one directory: one that compacts renames a file that lacks
  what the other has appended since. Nothing in the code is meant to prevent it.
- Power failures: files are not synced, so a rename may survive its data. The
  models have kills of the process.
- File modes and links: a file edited or rewritten gets the mode of its
  temporary, and a link is replaced.
- A file that changes in the middle of one `fread`: the read is one step.
- Exhausted memory: the code aborts.
- BearSSL beyond `run_until` and the `br_sslio` calls of main.c, the trust anchors, the Makefile,
  and `patches/`, which the build does not apply. Together these are nearly all
  of the repository's lines; the program's own are main.c, tinyjson.h and
  config.def.h.

## 8. How the parts fit, and what could follow

The modules meet at three seams, each of which is checked:

- `Session` takes a file to be a sequence of lines in three shapes;
  that the bytes give no others is proved (`FileAsSessionCorrect`).
- `SseStream` takes any cut of a prefix of the body for its chunks; that is what
  `Delivery` allows, and `HttpTurn` keeps to it (`TurnImplementsDelivery`).
- `Session` takes `do_turn` for a choice of outcomes that may never come and a tool
  for a step that ends; `TurnReturns` and `ShellReturns` say under what conditions
  they do.

What could follow: two processes on one session file; `HttpTurn` driving
`SseStream` byte by byte; numbers with a fraction in `JsonText`.
