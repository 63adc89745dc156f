------------------------------- MODULE Shell -------------------------------
(***************************************************************************)
(* run_shell: popen, the loop that reads the pipe, pclose, and the text    *)
(* the model gets to see.  The other side of the pipe is /bin/sh with what *)
(* it runs, and perhaps a process it has left in the background, which     *)
(* holds the pipe open.                                                    *)
(*                                                                         *)
(* Of the output only its length and the place of its first NUL matter.    *)
(***************************************************************************)
EXTENDS Integers

CONSTANTS
  ChunkSize,      (* sizeof chunk.                                         *)
  Cap,            (* 1 MB.                                                 *)
  MaxOutput       (* Bound of the model on what a command writes.          *)

VARIABLES
  spc,            (* "idle", "fread" or "pclose".                          *)
  written,        (* Bytes written to the pipe.                            *)
  nul,            (* Which of them is the first NUL; 0 if none is.         *)
  gathered,       (* Bytes the current fread has got.                      *)
  length,         (* out.len.                                              *)
  truncated,
  sh,             (* "running", "exited" or "killed".                      *)
  holder,         (* A background process has the pipe.                    *)
  stopped,        (* History: a read was cut short by SIGINT.              *)
  report          (* What the last call returned.                          *)

shellVars == <<spc, written, nul, gathered, length, truncated, sh, holder, stopped, report>>

(* shown: bytes of the output; note: the truncation is noted; end: what    *)
(* the trailer says of the shell, "" if there is none.                     *)
Report == [shown : Nat, note : BOOLEAN, end : {"", "running", "exited", "killed"}]

NoReport == [shown |-> 0, note |-> FALSE, end |-> ""]

ShellInit ==
  /\ spc = "idle" /\ written = 0 /\ nul = 0 /\ gathered = 0 /\ length = 0
  /\ truncated = FALSE /\ sh = "exited" /\ holder = FALSE /\ stopped = FALSE
  /\ report = NoReport

Popen ==
  /\ spc = "idle" /\ spc' = "fread"
  /\ written' = 0 /\ nul' = 0 /\ gathered' = 0 /\ length' = 0
  /\ truncated' = FALSE /\ sh' = "running" /\ stopped' = FALSE /\ report' = NoReport
  /\ holder' \in BOOLEAN

PopenFails ==
  /\ spc = "idle" /\ report' = NoReport
  /\ UNCHANGED <<spc, written, nul, gathered, length, truncated, sh, holder, stopped>>

-----------------------------------------------------------------------------
(* run_shell.  fread collects a whole chunk unless the pipe ends or a      *)
(* signal makes read(2) fail.                                              *)

InPipe == written - length - gathered

PipeEnded == sh # "running" /\ ~holder

Gather ==
  /\ spc = "fread" /\ InPipe > 0 /\ gathered < ChunkSize
  /\ gathered' = gathered + 1
  /\ UNCHANGED <<spc, written, nul, length, truncated, sh, holder, stopped, report>>

(* Mutant: nothing is said of a cut.                                       *)
Append_Silent(bytes) ==
  /\ length' = length + bytes /\ gathered' = 0
  /\ truncated' = FALSE
  /\ spc' = IF length' > Cap THEN "pclose" ELSE "fread"
  /\ UNCHANGED <<written, nul, sh, holder, report>>

Append(bytes) ==
  /\ length' = length + bytes /\ gathered' = 0
  /\ truncated' = (length' > Cap)
  /\ spc' = IF truncated' THEN "pclose" ELSE "fread"
  /\ UNCHANGED <<written, nul, sh, holder, report>>

ChunkFull == spc = "fread" /\ gathered = ChunkSize /\ Append(gathered) /\ UNCHANGED stopped

ChunkLast ==
  /\ spc = "fread" /\ InPipe = 0 /\ PipeEnded /\ gathered \in 1..(ChunkSize - 1)
  /\ Append(gathered) /\ UNCHANGED stopped

(* on_sigint while read(2) waits: what was gathered is returned and the    *)
(* loop goes on; only a read that had nothing yet ends it.                 *)
ReadInterrupted ==
  /\ spc = "fread" /\ InPipe = 0 /\ ~PipeEnded /\ gathered < ChunkSize
  /\ \/ gathered > 0 /\ Append(gathered) /\ UNCHANGED stopped
     \/ /\ gathered = 0
        /\ spc' = "pclose" /\ stopped' = TRUE
        /\ UNCHANGED <<written, nul, gathered, length, truncated, sh, holder, report>>

(* Mutant: an empty fread is tried again.                                  *)
OutputEnds_Retry ==
  /\ spc = "fread" /\ InPipe = 0 /\ PipeEnded /\ gathered = 0
  /\ UNCHANGED shellVars

OutputEnds ==
  /\ spc = "fread" /\ InPipe = 0 /\ PipeEnded /\ gathered = 0
  /\ spc' = "pclose"
  /\ UNCHANGED <<written, nul, gathered, length, truncated, sh, holder, stopped, report>>

(* The end of out behind a NUL byte is lost to strdup, trailer and all.    *)
Cut == nul \in 1..length

(* Mutant: the status is asked for before the shell has ended.             *)
Pclose_Early ==
  /\ spc = "pclose" /\ spc' = "idle"
  /\ report' = IF Cut THEN [shown |-> nul - 1, note |-> FALSE, end |-> ""]
                      ELSE [shown |-> length, note |-> truncated, end |-> sh]
  /\ UNCHANGED <<written, nul, gathered, length, truncated, sh, holder, stopped>>

(* pclose closes the pipe and waits for the shell, not for the holder.     *)
Pclose ==
  /\ spc = "pclose" /\ sh # "running"
  /\ spc' = "idle"
  /\ report' = IF Cut THEN [shown |-> nul - 1, note |-> FALSE, end |-> ""]
                      ELSE [shown |-> length, note |-> truncated, end |-> sh]
  /\ UNCHANGED <<written, nul, gathered, length, truncated, sh, holder, stopped>>

run_shell == Gather \/ ChunkFull \/ ChunkLast \/ OutputEnds \/ Pclose

-----------------------------------------------------------------------------
(* The command.                                                            *)

WriteByte(zero) ==
  /\ spc = "fread" /\ ~PipeEnded /\ written < MaxOutput
  /\ written' = written + 1
  /\ nul' = IF zero /\ nul = 0 THEN written' ELSE nul
  /\ UNCHANGED <<spc, gathered, length, truncated, sh, holder, stopped, report>>

Writes == \E zero \in BOOLEAN : WriteByte(zero)

(* It ends by itself, by SIGINT, or by SIGPIPE once the pipe is closed.    *)
ShellEnds ==
  /\ spc # "idle" /\ sh = "running"
  /\ sh' \in {"exited", "killed"}
  /\ UNCHANGED <<spc, written, nul, gathered, length, truncated, holder, stopped, report>>

HolderEnds ==
  /\ spc = "fread" /\ holder /\ holder' = FALSE
  /\ UNCHANGED <<spc, written, nul, gathered, length, truncated, sh, stopped, report>>

-----------------------------------------------------------------------------
ShellTypeOK ==
  /\ spc \in {"idle", "fread", "pclose"}
  /\ written \in 0..MaxOutput /\ nul \in 0..written
  /\ gathered \in 0..ChunkSize /\ length \in 0..(Cap + ChunkSize)
  /\ gathered + length <= written
  /\ sh \in {"running", "exited", "killed"}
  /\ truncated \in BOOLEAN /\ holder \in BOOLEAN /\ stopped \in BOOLEAN
  /\ report \in Report

(* "combined stdout+stderr, exit/signal code, 1 MB output cap"             *)
(* (README.md:62) as run_shell makes it, of what reaches the pipe: the     *)
(* status is that of a shell that has ended, and an output that is not     *)
(* shown whole is noted as truncated, holds a NUL or was cut by SIGINT.    *)
ReportTrue ==
  spc = "idle" /\ report # NoReport =>
    /\ report.end # "running"
    /\ report.shown <= Cap + ChunkSize
    /\ report.shown < written => report.note \/ stopped \/ nul = report.shown + 1
    /\ report.end = "" => nul = report.shown + 1

(* A background process that has the pipe and is silent.                   *)
Held == spc = "fread" /\ holder /\ sh # "running" /\ InPipe = 0

(* The call returns: at the end of the output, at the cap, or once SIGINT  *)
(* finds it waiting; only a background process that holds the pipe and is  *)
(* silent keeps it (main.c:529-533).                                       *)
ShellReturns == spc # "idle" ~> spc = "idle" \/ Held
=============================================================================
