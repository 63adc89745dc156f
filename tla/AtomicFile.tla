----------------------------- MODULE AtomicFile -----------------------------
(***************************************************************************)
(* What edit_file promises of the file it edits: at one moment of the call *)
(* an edited content takes the place of the old one, or the file stays as  *)
(* it is, and the caller is told which unless the process dies.  A call    *)
(* that nobody disturbs edits the very content the file has; when others   *)
(* write the file during the call, it may edit any content the file has    *)
(* had since it was asked, or the beginning of one, and theirs is lost.    *)
(* Nothing is left behind unless the process dies.                         *)
(***************************************************************************)
EXTENDS Integers

CONSTANTS
  Contents,         (* What the file can hold.                             *)
  NoFile,           (* What the path holds when there is no file.          *)
  Requests,         (* The edits that can be asked for.                    *)
  CallsFail,        (* Whether the file system may fail.                   *)
  Edits(_, _, _),   (* A request, a content and an edited form of it.      *)
  Unfit(_, _),      (* The contents a request may be refused for.          *)
  Beginnings(_)     (* What a content may be cut short to.                 *)

VARIABLES
  file, request,
  phase,            (* "idle", "asked" or "edited".                        *)
  reply,            (* "none", "wrote" or "error".                         *)
  seen,             (* The contents of the file since the call began.      *)
  torn,             (* The call may have read a part of one only.          *)
  litter            (* Temporary files left behind.                        *)

vars == <<file, request, phase, reply, seen, torn, litter>>

Init ==
  /\ file \in Contents \cup {NoFile} /\ request \in Requests
  /\ phase = "idle" /\ reply = "none" /\ seen = {} /\ torn = FALSE /\ litter = 0

Ask ==
  /\ phase = "idle" /\ phase' = "asked"
  /\ request' \in Requests
  /\ reply' = "none" /\ seen' = {file} /\ torn' = FALSE
  /\ UNCHANGED <<file, litter>>

Disturb ==
  /\ phase # "idle" /\ CallsFail /\ torn' = TRUE
  /\ UNCHANGED <<file, request, phase, reply, seen, litter>>

Read == seen \cup (IF torn THEN UNION {Beginnings(c) : c \in seen} ELSE {})

Commit ==
  /\ phase = "asked" /\ phase' = "edited"
  /\ \E c \in Read : Edits(request, c, file')
  /\ UNCHANGED <<request, reply, seen, torn, litter>>

Return(answer) ==
  /\ phase' = "idle" /\ reply' = answer /\ seen' = {} /\ torn' = FALSE
  /\ UNCHANGED <<file, request>>

Succeed == phase = "edited" /\ Return("wrote") /\ UNCHANGED litter

Refuse ==
  /\ phase = "asked" /\ (CallsFail \/ \E c \in Read : Unfit(request, c))
  /\ Return("error") /\ UNCHANGED litter

Die == phase # "idle" /\ Return("none") /\ litter' \in {litter, litter + 1}

Outside ==
  /\ file' \in Contents
  /\ IF phase = "idle" THEN UNCHANGED <<seen, torn>>
                       ELSE seen' = seen \cup {file'} /\ torn' = TRUE
  /\ UNCHANGED <<request, phase, reply, litter>>

Next == Ask \/ Disturb \/ Commit \/ Succeed \/ Refuse \/ Die \/ Outside

Spec == Init /\ [][Next]_vars
=============================================================================
