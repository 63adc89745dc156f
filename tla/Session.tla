------------------------------ MODULE Session ------------------------------
(***************************************************************************)
(* One working directory in which `sa` is started again and again: the     *)
(* session file, the transcript of the running process, the REPL with its  *)
(* SIGINT flag, and the tool loop of chat_turn.                            *)
(*                                                                         *)
(* A process is at most one at a time.  Its program counter `pc` names the *)
(* point of main, session_load, session_prune_empty_tool_use or chat_turn  *)
(* it has reached; SIGINT, a kill and failing file operations interleave   *)
(* with it.  The network is the choice of an outcome of do_turn, a tool is *)
(* the choice of a result.                                                 *)
(***************************************************************************)
EXTENDS Messages, FiniteSets

CONSTANTS
  MaxToolIter,   (* MAX_TOOL_ITER of config.h.                            *)
  Responses,     (* The contents an HTTP 200 can leave in the stream state *)
  InitialDisks,  (* The session files an earlier version may have left.   *)
  Faults,        (* What the environment may do, see FaultKinds.          *)
  MaxLines       (* Bound of the model: no prompt beyond this length.     *)

(***************************************************************************)
(* crash : the process is killed between two steps.                        *)
(* lost  : fopen, mkstemp or rename fails and the write is skipped.        *)
(* torn  : an append stops inside the JSON of the message, or nothing but  *)
(*         its newline arrives.                                            *)
(* glued : an append stops between the JSON and its newline.               *)
(* short : session_rewrite runs out of space, which it does not check.     *)
(***************************************************************************)
FaultKinds == {"crash", "lost", "torn", "glued", "short"}

Slot == [type : {"text", "tool_use", "other"}, id : ToolId \cup {NoId},
         body : {"plain", "input", "empty", "broken"}]

(***************************************************************************)
(* A line of the file holds one message alone, or begins with a message    *)
(* whose newline is missing and is "glued" to what was written after it,   *)
(* or begins with a "torn" message and does not parse, whatever follows.   *)
(***************************************************************************)
FileLine == [msg : Message, shape : {"alone", "glued", "torn"}]

Line(m) == [msg |-> m, shape |-> "alone"]

Torn == [msg |-> [role |-> "user", content |-> <<>>], shape |-> "torn"]

Glue(line) == IF line.shape = "alone" THEN [line EXCEPT !.shape = "glued"] ELSE line

FileOf(ms) == [i \in 1..Len(ms) |-> Line(ms[i])]

ASSUME SessionAssumption ==
  /\ MaxToolIter \in Nat \ {0}
  /\ MaxLines \in Nat
  /\ Faults \subseteq FaultKinds
  /\ \A r \in Responses : r \in Seq(Slot)
  /\ \A f \in InitialDisks :
       /\ f \in Seq(FileLine)
       /\ \A i \in DOMAIN f : f[i].shape = "alone"

VARIABLES
  pc,         (* Where the process is; "off" when there is none.           *)
  oneshot,    (* argc > arg_start.                                         *)
  rc,         (* Exit status of the last process.                          *)
  interrupt,  (* g_interrupt.                                              *)
  messages,   (* The transcript in memory.                                 *)
  iter,       (* iter of chat_turn.                                        *)
  response,   (* The blocks of the stream state st.                        *)
  results,    (* The tool results collected so far.                        *)
  idx,        (* Index of the loop the process is in.                      *)
  pruned,     (* removed > 0 in session_prune_empty_tool_use.              *)
  disk,       (* The lines of the session file.                            *)
  eol,        (* The file is empty or ends with a newline.                 *)
  base,       (* History: messages loaded, after pruning.                  *)
  retry       (* History: compacted, and no response since.                *)

memory == <<messages, iter, response, results, idx, pruned, base, retry>>
file   == <<disk, eol>>
vars   == <<pc, oneshot, rc, interrupt, memory, file>>

Booting  == {"load", "prune", "heal"}
AtPrompt == {"reset", "entering", "blocked", "eintr"}
InTurn   == {"saveUser", "top", "http", "rewrite", "saveAssist", "tools", "saveResults"}

-----------------------------------------------------------------------------
(* The session file.                                                       *)

(* Bytes that reach the end of the file: a new line, or more of an         *)
(* unfinished one.                                                         *)
Write(line, newline) ==
  /\ disk' = IF eol THEN Append(disk, line) ELSE [disk EXCEPT ![Len(disk)] = Glue(@)]
  /\ eol' = newline

session_append(m) ==
  \/ Write(Line(m), TRUE)
  \/ "lost"  \in Faults /\ UNCHANGED file
  \/ "torn"  \in Faults /\ \E newline \in BOOLEAN : Write(Torn, newline)
  \/ "torn"  \in Faults /\ eol' = TRUE /\ UNCHANGED disk
  \/ "glued" \in Faults /\ Write(Line(m), FALSE)

(* What an unchecked fclose can leave behind for the rename: the first n   *)
(* lines, then perhaps a piece of the next one, or all but its newline.    *)
ShortFile(n) ==
  LET kept == FileOf(SubSeq(messages, 1, n))
  IN  \/ disk' = kept /\ eol' = TRUE
      \/ disk' = Append(kept, Torn) /\ eol' = FALSE
      \/ disk' = Append(kept, Line(messages[n + 1])) /\ eol' = FALSE

session_rewrite ==
  \/ disk' = FileOf(messages) /\ eol' = TRUE
  \/ "lost" \in Faults /\ UNCHANGED file
  \/ "short" \in Faults /\ \E n \in 0..(Len(messages) - 1) : ShortFile(n)

-----------------------------------------------------------------------------
(* Beginning and end of a process, and of a turn.                          *)

Gone(status) ==
  /\ pc' = "off" /\ oneshot' = FALSE /\ interrupt' = FALSE /\ rc' = status
  /\ messages' = <<>> /\ iter' = 0 /\ response' = <<>> /\ results' = <<>>
  /\ idx' = 1 /\ pruned' = FALSE /\ base' = 0 /\ retry' = FALSE

Init ==
  /\ pc = "off" /\ oneshot = FALSE /\ interrupt = FALSE /\ rc = 0
  /\ messages = <<>> /\ iter = 0 /\ response = <<>> /\ results = <<>>
  /\ idx = 1 /\ pruned = FALSE /\ base = 0 /\ retry = FALSE
  /\ disk \in InitialDisks /\ eol = TRUE

Booted == IF oneshot THEN "oneshot" ELSE "reset"

Start(continue, one) ==
  /\ pc = "off"
  /\ one => Len(disk) < MaxLines
  /\ oneshot' = one
  /\ pc' = IF continue THEN "load" ELSE IF one THEN "oneshot" ELSE "reset"
  /\ UNCHANGED <<rc, interrupt, memory, file>>

(* chat_turn returns r.  A one-shot process exits with it; the REPL exits  *)
(* only on 1.  stream_state_free has dropped the response.                 *)
Return(r) ==
  \/ /\ oneshot \/ r = 1
     /\ Gone(r)
  \/ /\ ~oneshot /\ r # 1
     /\ pc' = "reset"
     /\ iter' = 0 /\ response' = <<>> /\ results' = <<>> /\ idx' = 1 /\ retry' = FALSE
     /\ UNCHANGED <<oneshot, rc, interrupt, messages, pruned, base>>

-----------------------------------------------------------------------------
(* Resuming: session_load, session_prune_empty_tool_use.                   *)

LoadLine ==
  /\ pc = "load" /\ idx <= Len(disk)
  /\ messages' = IF disk[idx].shape = "torn" THEN messages ELSE Append(messages, disk[idx].msg)
  /\ idx' = idx + 1
  /\ UNCHANGED <<pc, oneshot, rc, interrupt, iter, response, results, pruned, base, retry, file>>

(* Mutant: the pruning loop starts one message too early.                  *)
LoadEnd_SkipsLast ==
  /\ pc = "load" /\ idx > Len(disk)
  /\ pc' = "prune"
  /\ idx' = IF messages = <<>> THEN 0 ELSE Len(messages) - 1
  /\ UNCHANGED <<oneshot, rc, interrupt, messages, iter, response, results, pruned, base, retry, file>>

LoadEnd ==
  /\ pc = "load" /\ idx > Len(disk)
  /\ pc' = "prune"
  /\ idx' = Len(messages)
  /\ UNCHANGED <<oneshot, rc, interrupt, messages, iter, response, results, pruned, base, retry, file>>

PruneMessage ==
  /\ pc = "prune" /\ idx > 0
  /\ \/ /\ EmptyToolUse(messages[idx])
        /\ messages' = PruneAt(messages, idx)
        /\ pruned' = TRUE
     \/ /\ ~EmptyToolUse(messages[idx])
        /\ UNCHANGED <<messages, pruned>>
  /\ idx' = idx - 1
  /\ UNCHANGED <<pc, oneshot, rc, interrupt, iter, response, results, base, retry, file>>

PruneEnd ==
  /\ pc = "prune" /\ idx = 0
  /\ pc' = IF pruned THEN "heal" ELSE Booted
  /\ idx' = 1 /\ pruned' = FALSE
  /\ base' = Len(messages)
  /\ UNCHANGED <<oneshot, rc, interrupt, messages, iter, response, results, retry, file>>

Heal ==
  /\ pc = "heal"
  /\ session_rewrite
  /\ pc' = Booted
  /\ UNCHANGED <<oneshot, rc, interrupt, memory>>

-----------------------------------------------------------------------------
(* Prompts.                                                                *)

OneshotPrompt ==
  /\ pc = "oneshot"
  /\ messages' = Append(messages, make_user_msg)
  /\ pc' = "saveUser"
  /\ UNCHANGED <<oneshot, rc, interrupt, iter, response, results, idx, pruned, base, retry, file>>

ResetInterrupt ==
  /\ pc = "reset"
  /\ interrupt' = FALSE
  /\ pc' = "entering"
  /\ UNCHANGED <<oneshot, rc, memory, file>>

(* fgets calls read(2): only from here on does a signal make it fail.      *)
EnterRead ==
  /\ pc = "entering"
  /\ pc' = "blocked"
  /\ UNCHANGED <<oneshot, rc, interrupt, memory, file>>

ReadLine ==
  /\ pc = "blocked"
  /\ Len(disk) < MaxLines /\ Len(messages) < MaxLines
  /\ messages' = Append(messages, make_user_msg)
  /\ pc' = "saveUser"
  /\ UNCHANGED <<oneshot, rc, interrupt, iter, response, results, idx, pruned, base, retry, file>>

ReadEmptyLine ==
  /\ pc = "blocked"
  /\ pc' = "reset"
  /\ UNCHANGED <<oneshot, rc, interrupt, memory, file>>

(* fgets returns NULL: interrupted if g_interrupt is set, else end of file *)
FgetsFails(from) ==
  /\ pc = from
  /\ \/ /\ interrupt
        /\ interrupt' = FALSE
        /\ pc' = "reset"
        /\ UNCHANGED <<oneshot, rc, memory>>
     \/ /\ ~interrupt
        /\ Gone(0)
  /\ UNCHANGED file

SaveUser ==
  /\ pc = "saveUser"
  /\ session_append(messages[Len(messages)])
  /\ pc' = "top"
  /\ UNCHANGED <<oneshot, rc, interrupt, memory>>

-----------------------------------------------------------------------------
(* chat_turn.                                                              *)

IterLimit ==
  /\ pc = "top" /\ iter = MaxToolIter
  /\ Return(0)
  /\ UNCHANGED file

TopInterrupted ==
  /\ pc = "top" /\ iter < MaxToolIter /\ interrupt
  /\ Return(130)
  /\ UNCHANGED file

(* Mutant: one request too many.                                           *)
SendRequest_OffByOne ==
  /\ pc = "top" /\ iter <= MaxToolIter /\ ~interrupt
  /\ pc' = "http"
  /\ UNCHANGED <<oneshot, rc, interrupt, memory, file>>

SendRequest ==
  /\ pc = "top" /\ iter < MaxToolIter /\ ~interrupt
  /\ pc' = "http"
  /\ UNCHANGED <<oneshot, rc, interrupt, memory, file>>

(* do_turn returned -2, -1 and -3.                                         *)
TurnInterrupted ==
  /\ pc = "http" /\ interrupt
  /\ Return(130)
  /\ UNCHANGED file

TurnFailed ==
  /\ pc = "http" /\ ~interrupt
  /\ Return(1)
  /\ UNCHANGED file

Compact ==
  /\ pc = "http" /\ ~interrupt
  /\ SomethingToClear(messages)
  /\ messages' = compact_clear_tool_results(messages)
  /\ retry' = TRUE
  /\ pc' = "rewrite"
  /\ UNCHANGED <<oneshot, rc, interrupt, iter, response, results, idx, pruned, base, file>>

NothingToCompact ==
  /\ pc = "http" /\ ~interrupt
  /\ ~SomethingToClear(messages)
  /\ Return(1)
  /\ UNCHANGED file

(* Mutant: retry without saving what compaction did.                       *)
RewriteAndRetry_NoSave ==
  /\ pc = "rewrite"
  /\ pc' = "top"
  /\ iter' = iter + 1
  /\ UNCHANGED <<oneshot, rc, interrupt, messages, response, results, idx, pruned, base, retry, file>>

RewriteAndRetry ==
  /\ pc = "rewrite"
  /\ session_rewrite
  /\ pc' = "top"
  /\ iter' = iter + 1
  /\ UNCHANGED <<oneshot, rc, interrupt, messages, response, results, idx, pruned, base, retry>>

(* do_turn returned 0 with response r in the stream state.                 *)
BrokenToolUse(r) ==
  /\ pc = "http" /\ ~interrupt
  /\ Broken(r)
  /\ Return(2)
  /\ UNCHANGED file

Answer(r) ==
  /\ pc = "http" /\ ~interrupt
  /\ ~Broken(r)
  /\ response' = r
  /\ messages' = Append(messages, assistant_msg(r))
  /\ retry' = FALSE
  /\ pc' = "saveAssist"
  /\ UNCHANGED <<oneshot, rc, interrupt, iter, results, idx, pruned, base, file>>

SaveAnswer ==
  /\ pc = "saveAssist"
  /\ session_append(messages[Len(messages)])
  /\ \/ /\ has_tool_use(response)
        /\ pc' = "tools"
        /\ UNCHANGED <<oneshot, rc, interrupt, memory>>
     \/ /\ ~has_tool_use(response)
        /\ Return(0)

(* Mutant: SIGINT leaves the tool loop before the results are recorded.    *)
DispatchTool_StopsAtSigint ==
  /\ pc = "tools" /\ idx <= Len(response)
  /\ response[idx].type = "tool_use"
  /\ \/ /\ interrupt
        /\ Return(130)
     \/ /\ ~interrupt
        /\ \E body \in {"long", "short"} :
             results' = Append(results, ToolResult(response[idx].id, body))
        /\ idx' = idx + 1
        /\ UNCHANGED <<pc, oneshot, rc, interrupt, messages, iter, response, pruned, base, retry>>
  /\ UNCHANGED file

DispatchTool ==
  /\ pc = "tools" /\ idx <= Len(response)
  /\ response[idx].type = "tool_use"
  /\ \E body \in {"long", "short"} :
       results' = Append(results, ToolResult(response[idx].id, body))
  /\ idx' = idx + 1
  /\ UNCHANGED <<pc, oneshot, rc, interrupt, messages, iter, response, pruned, base, retry, file>>

(* Mutant: the loop does not get past a block that is not a tool_use.      *)
SkipBlock_Sticks ==
  /\ pc = "tools" /\ idx <= Len(response)
  /\ response[idx].type # "tool_use"
  /\ UNCHANGED vars

SkipBlock ==
  /\ pc = "tools" /\ idx <= Len(response)
  /\ response[idx].type # "tool_use"
  /\ idx' = idx + 1
  /\ UNCHANGED <<pc, oneshot, rc, interrupt, messages, iter, response, results, pruned, base, retry, file>>

CollectResults ==
  /\ pc = "tools" /\ idx > Len(response)
  /\ messages' = Append(messages, results_msg(results))
  /\ pc' = "saveResults"
  /\ UNCHANGED <<oneshot, rc, interrupt, iter, response, results, idx, pruned, base, retry, file>>

SaveResults ==
  /\ pc = "saveResults"
  /\ session_append(messages[Len(messages)])
  /\ pc' = "top"
  /\ iter' = iter + 1
  /\ response' = <<>> /\ results' = <<>> /\ idx' = 1
  /\ UNCHANGED <<oneshot, rc, interrupt, messages, pruned, base, retry>>

-----------------------------------------------------------------------------
(* The environment.                                                        *)

(* on_sigint; a process blocked in read(2) also gets EINTR.                *)
Sigint ==
  /\ pc # "off"
  /\ ~interrupt \/ pc = "blocked"
  /\ interrupt' = TRUE
  /\ pc' = IF pc = "blocked" THEN "eintr" ELSE pc
  /\ UNCHANGED <<oneshot, rc, memory, file>>

Crash ==
  /\ "crash" \in Faults
  /\ pc # "off"
  /\ Gone(137)
  /\ UNCHANGED file

Resume == LoadLine \/ LoadEnd \/ PruneMessage \/ PruneEnd \/ Heal

Prompting ==
  \/ OneshotPrompt \/ ResetInterrupt \/ EnterRead \/ FgetsFails("eintr") \/ SaveUser

DoTurn ==
  \/ TurnInterrupted \/ TurnFailed \/ Compact \/ NothingToCompact
  \/ \E r \in Responses : BrokenToolUse(r) \/ Answer(r)

(* The rest of chat_turn.                                                  *)
Rounds ==
  \/ IterLimit \/ TopInterrupted \/ SendRequest \/ RewriteAndRetry
  \/ SaveAnswer \/ DispatchTool \/ SkipBlock \/ CollectResults \/ SaveResults

ChatTurn == DoTurn \/ Rounds

Program == Resume \/ Prompting \/ ChatTurn

User == ReadLine \/ ReadEmptyLine \/ FgetsFails("blocked")

Next ==
  \/ Program
  \/ User
  \/ \E continue, one \in BOOLEAN : Start(continue, one)
  \/ Sigint
  \/ Crash

Spec == Init /\ [][Next]_vars

(* The program keeps running, and a tool is taken to end.  do_turn is not: *)
(* on a stream that ends without a close_notify it never returns (HttpTurn *)
(* has its steps).  Nobody has to type or to start.                        *)
FairSpec == Spec /\ WF_vars(Resume \/ Prompting \/ Rounds)

-----------------------------------------------------------------------------
(* Properties.                                                             *)

TypeOK ==
  /\ pc \in {"off", "oneshot"} \cup Booting \cup AtPrompt \cup InTurn
  /\ oneshot \in BOOLEAN /\ rc \in {0, 1, 2, 130, 137} /\ interrupt \in BOOLEAN
  /\ messages \in Seq(Message)
  /\ iter \in 0..MaxToolIter
  /\ response \in Seq(Slot) /\ results \in Seq(Block)
  /\ idx \in Nat /\ pruned \in BOOLEAN
  /\ disk \in Seq(FileLine) /\ eol \in BOOLEAN
  /\ base \in Nat /\ retry \in BOOLEAN

(* chat_turn and its error paths: whatever way the turns of this process   *)
(* ended (answer, SIGINT, HTTP error, discarded turn, iteration limit), at *)
(* the prompt, in a request and in a rewrite of the file, every tool_use   *)
(* it recorded is answered by the very next message.                       *)
TranscriptPaired ==
  pc \in AtPrompt \cup {"top", "http", "rewrite"} => PairedFrom(messages, base)

(* "paired tool_result always directly follows" (main.c:1098), of the      *)
(* whole transcript a request carries, the resumed part included.          *)
ResumedPaired == pc = "http" => PairedFrom(messages, 0)

(* No request carries a tool_use without input, in whatever message and    *)
(* among whatever blocks: blocks_to_content refuses a response with one,   *)
(* lest it "poison the session" (main.c:418), and of an old file pruning   *)
(* heals the ones that are alone in their message, but no others.          *)
NeverSendsPoison == pc = "http" => \A i \in 1..Len(messages) : ~HasEmptyUse(messages[i])

(* The line that holds messages[j] when the file ends with the first n     *)
(* messages.                                                               *)
LineOf(j, n) == disk[Len(disk) - n + j]

Saved(n) ==
  /\ n <= Len(disk)
  /\ \A j \in 1..n : LineOf(j, n) = Line(messages[j])

SavedUncleared ==
  /\ Len(messages) <= Len(disk)
  /\ \A j \in 1..Len(messages) :
       LET line == LineOf(j, Len(messages))
       IN  line.shape = "alone" /\ SameButCleared(line.msg, messages[j])

(* session_append and session_rewrite keep the file in step with memory: a *)
(* later `sa -c` gets exactly the transcript of this process, short of the *)
(* message being appended and of results compaction is about to clear.     *)
DiskMirrorsMemory ==
  /\ pc \in AtPrompt \cup {"oneshot", "top", "http", "tools"} => Saved(Len(messages))
  /\ pc \in {"saveUser", "saveAssist", "saveResults"} => Saved(Len(messages) - 1)
  /\ pc = "rewrite" => SavedUncleared

(* ROADMAP 0.6, "Single retry per iter": an overflow that follows the      *)
(* retry of a compaction with no response in between finds nothing to      *)
(* clear, and the turn bails out.                                          *)
RetryOnce == [][pc = "http" /\ pc' = "rewrite" => ~retry]_vars

(* ROADMAP 0.6, "Pair-safe": compaction only empties tool results, and     *)
(* none of the last KeepLast messages changes.                             *)
CompactionOnlyClears ==
  [][pc = "http" /\ pc' = "rewrite" =>
       /\ Len(messages') = Len(messages)
       /\ \A i \in 1..Len(messages) :
            /\ SameButCleared(messages[i], messages'[i])
            /\ i + KeepLast > Len(messages) => messages'[i] = messages[i]]_vars

(* The exit status of a one-shot run: 0 only if the model has answered     *)
(* without asking for a tool, or MAX_TOOL_ITER requests were spent.        *)
ExitZeroMeansAnswered ==
  [][oneshot /\ pc' = "off" /\ rc' = 0 =>
       \/ iter = MaxToolIter
       \/ LET last == messages[Len(messages)]
          IN  last.role = "assistant" /\ UseIds(last) = {}]_vars

(* ROADMAP 0.5, "Ctrl+C interrupts `fgets` in the REPL": fgets does not    *)
(* stay blocked after a SIGINT that followed the reset of g_interrupt.     *)
FgetsInterruptible == pc = "blocked" => ~interrupt

(* README, "`rm .sa_session.jsonl` to truly clear history": nothing else   *)
(* takes a message out of the file; compaction only clears payloads.       *)
HistoryKept == [][pc = "rewrite" => Len(disk') >= Len(disk)]_vars

(* A turn ends, or one of its do_turn never returns: tool iterations,      *)
(* retries and SIGINT all lead back to the prompt or out of the process.   *)
TurnEnds == pc \in InTurn ~> pc \in AtPrompt \cup {"off"} \/ [](pc = "http")
=============================================================================
