------------------------------ MODULE EditFile ------------------------------
(***************************************************************************)
(* edit_file_tool and atomic_write on one path: the file is measured, read *)
(* and searched; the edited content goes to a temporary file, which is     *)
(* renamed over the path.  Each call to the file system can fail, the      *)
(* process can be killed between any two of them, and other programs can   *)
(* write the file or put another one in its place.                         *)
(*                                                                         *)
(* The read itself counts as one step.  Contents are sequences of          *)
(* characters; strstr sees them up to the first NUL.                       *)
(***************************************************************************)
EXTENDS Integers, Sequences, SequencesExt

CONSTANTS
  Chars,        (* The bytes of files, NUL among them.                     *)
  NUL,
  OutsideFiles, (* What other programs write.                              *)
  Requests,     (* Arguments old and new, C strings.                       *)
  MaxEditSize,  (* 4 MB.                                                   *)
  Faults,       (* Of "kill", "io" (a call fails), "writers".              *)
  MaxLitter,    (* Bound of the model on temporary files left behind.      *)
  NoFile        (* The path names no file.                                 *)

Contents == Seq(Chars)

ASSUME EditAssumption ==
  /\ NUL \in Chars
  /\ \A c \in OutsideFiles : c \in Contents
  /\ \A r \in Requests : r.old \in Seq(Chars \ {NUL}) /\ r.new \in Seq(Chars \ {NUL})
  /\ MaxEditSize \in Nat /\ MaxLitter \in Nat
  /\ Faults \subseteq {"kill", "io", "writers"}
  /\ NoFile \notin Contents

VARIABLES
  file,     (* What the path holds.                                        *)
  pc,       (* "idle", or the next step of the call.                       *)
  request,
  opened,   (* The content of the file that was opened.                    *)
  sz, body, (* What was measured and read.                                 *)
  buf,      (* The content to be written.                                  *)
  tmp,      (* The content of this call's temporary file.                  *)
  litter,   (* Temporary files left behind.                                *)
  reply,    (* "none", "wrote" or "error".                                 *)
  seen,     (* History: what the file has been since the call began.       *)
  torn      (* History: others wrote meanwhile, or the read fell short.    *)

history == <<seen, torn>>
memory  == <<opened, sz, body, buf, tmp>>
vars    == <<file, pc, request, memory, litter, reply, history>>

Init ==
  /\ file \in OutsideFiles \cup {NoFile}
  /\ pc = "idle" /\ request \in Requests /\ reply = "none"
  /\ opened = <<>> /\ sz = 0 /\ body = <<>> /\ buf = <<>> /\ tmp = <<>>
  /\ litter = 0 /\ seen = {} /\ torn = FALSE

-----------------------------------------------------------------------------
(* The search and the replacement.                                         *)

OccursAt(s, t, i) == \A k \in 1..Len(s) : i + k - 1 <= Len(t) /\ t[i + k - 1] = s[k]

(* Where strstr can find old: a match may not reach across a NUL.          *)
Matches(old, t) ==
  {i \in 1..Len(t) : OccursAt(old, t, i) /\ \A k \in 1..(i - 1) : t[k] # NUL}

(* The search goes on behind a match, so it sees a second one only when    *)
(* that does not overlap the first.                                        *)
Ambiguous(old, t) == \E i, j \in Matches(old, t) : j >= i + Len(old)

Unique(old, t, i) ==
  /\ i \in Matches(old, t)
  /\ \A j \in Matches(old, t) : i <= j /\ j < i + Len(old)

Replaced(r, t, i) ==
  SubSeq(t, 1, i - 1) \o r.new \o SubSeq(t, i + Len(r.old), Len(t))

-----------------------------------------------------------------------------
(* The steps of a call.                                                    *)

(* With an empty old_string there is nothing to read.                      *)
Begin ==
  /\ pc = "idle"
  /\ request' \in Requests
  /\ pc' = IF request'.old = <<>> THEN "mkstemp" ELSE "fopen"
  /\ buf' = IF request'.old = <<>> THEN request'.new ELSE <<>>
  /\ reply' = "none" /\ seen' = {file} /\ torn' = FALSE
  /\ UNCHANGED <<file, opened, sz, body, tmp, litter>>

Return(answer) ==
  /\ pc' = "idle" /\ reply' = answer
  /\ opened' = <<>> /\ sz' = 0 /\ body' = <<>> /\ buf' = <<>> /\ tmp' = <<>>
  /\ seen' = {} /\ torn' = FALSE
  /\ UNCHANGED <<file, request>>

Open ==
  /\ pc = "fopen" /\ file # NoFile
  /\ pc' = "ftell" /\ opened' = file
  /\ UNCHANGED <<file, request, sz, body, buf, tmp, litter, reply, history>>

(* Mutant: the cap is off by one.                                          *)
Measure_OffByOne ==
  /\ pc = "ftell" /\ Len(opened) <= MaxEditSize + 1
  /\ pc' = "fread" /\ sz' = Len(opened)
  /\ UNCHANGED <<file, request, opened, body, buf, tmp, litter, reply, history>>

Measure ==
  /\ pc = "ftell" /\ Len(opened) <= MaxEditSize
  /\ pc' = "fread" /\ sz' = Len(opened)
  /\ UNCHANGED <<file, request, opened, body, buf, tmp, litter, reply, history>>

(* ftell may also say -1.                                                  *)
TooLarge ==
  /\ pc = "ftell" /\ (Len(opened) > MaxEditSize \/ "io" \in Faults)
  /\ Return("error") /\ UNCHANGED litter

(* What fread returns is taken for the whole file: it is not compared with *)
(* sz, and a read error is not asked for.                                  *)
ReadBody ==
  /\ pc = "fread" /\ pc' = "strstr"
  /\ \E got \in 0..Len(opened) :
       /\ got <= sz
       /\ ("io" \in Faults \/ got = sz \/ got = Len(opened))
       /\ body' = SubSeq(opened, 1, got)
       /\ torn' = (torn \/ got < Len(opened))
  /\ UNCHANGED <<file, request, opened, sz, buf, tmp, litter, reply, seen>>

NotUnique ==
  /\ pc = "strstr"
  /\ Matches(request.old, body) = {} \/ Ambiguous(request.old, body)
  /\ Return("error") /\ UNCHANGED litter

(* Mutant: the first of several matches is replaced.                       *)
Replace_First ==
  /\ pc = "strstr" /\ pc' = "mkstemp"
  /\ \E i \in Matches(request.old, body) :
       /\ \A j \in Matches(request.old, body) : i <= j
       /\ buf' = Replaced(request, body, i)
  /\ UNCHANGED <<file, request, opened, sz, body, tmp, litter, reply, history>>

Replace ==
  /\ pc = "strstr" /\ pc' = "mkstemp"
  /\ \E i \in Matches(request.old, body) :
       Unique(request.old, body, i) /\ buf' = Replaced(request, body, i)
  /\ UNCHANGED <<file, request, opened, sz, body, tmp, litter, reply, history>>

MakeTemporary ==
  /\ pc = "mkstemp" /\ pc' = "fwrite"
  /\ tmp' = <<>>
  /\ UNCHANGED <<file, request, opened, sz, body, buf, litter, reply, history>>

(* Both fwrite and fclose are checked, so a temporary file that is renamed *)
(* is complete.                                                            *)
WriteTemporary ==
  /\ pc = "fwrite" /\ pc' = "rename"
  /\ tmp' = buf
  /\ UNCHANGED <<file, request, opened, sz, body, buf, litter, reply, history>>

Rename ==
  /\ pc = "rename" /\ pc' = "renamed"
  /\ file' = tmp
  /\ UNCHANGED <<request, memory, litter, reply, history>>

Finish == pc = "renamed" /\ Return("wrote") /\ UNCHANGED litter

(* fopen fails without a file or with an error; mkstemp, fdopen, fwrite,   *)
(* fclose and rename fail with an error, and the temporary is unlinked.    *)
OpenFails ==
  /\ pc = "fopen" /\ (file = NoFile \/ "io" \in Faults)
  /\ Return("error") /\ UNCHANGED litter

WriteFails ==
  /\ pc \in {"mkstemp", "fwrite", "rename"} /\ "io" \in Faults
  /\ Return("error") /\ UNCHANGED litter

Edit ==
  \/ Begin \/ Open \/ Measure \/ TooLarge \/ ReadBody \/ NotUnique \/ Replace
  \/ MakeTemporary \/ WriteTemporary \/ Rename \/ Finish
  \/ OpenFails \/ WriteFails

-----------------------------------------------------------------------------
(* The environment.                                                        *)

Kill ==
  /\ "kill" \in Faults /\ pc # "idle"
  /\ litter < MaxLitter
  /\ litter' = IF pc \in {"fwrite", "rename"} THEN litter + 1 ELSE litter
  /\ Return("none")

(* In place, where the open file sees it, or by another rename.            *)
Outside ==
  /\ "writers" \in Faults
  /\ file' \in OutsideFiles
  /\ opened' \in IF pc \in {"ftell", "fread"} THEN {opened, file'} ELSE {opened}
  /\ IF pc = "idle" THEN UNCHANGED history
                    ELSE seen' = seen \cup {file'} /\ torn' = TRUE
  /\ UNCHANGED <<pc, request, sz, body, buf, tmp, litter, reply>>

Next == Edit \/ Kill \/ Outside

Spec == Init /\ [][Next]_vars

-----------------------------------------------------------------------------
(* edit_file_tool and atomic_write keep their variables within type, and   *)
(* measure no file beyond the cap.                                         *)
TypeOK ==
  /\ file \in Contents \cup {NoFile}
  /\ pc \in {"idle", "fopen", "ftell", "fread", "strstr", "mkstemp", "fwrite", "rename", "renamed"}
  /\ request \in Requests
  /\ opened \in Contents /\ body \in Contents /\ buf \in Contents /\ tmp \in Contents
  /\ sz \in 0..MaxEditSize /\ litter \in 0..MaxLitter
  /\ reply \in {"none", "wrote", "error"}
  /\ torn \in BOOLEAN /\ seen \subseteq Contents \cup {NoFile}

(* The promise in terms of whole contents: an edit replaces an occurrence  *)
(* of old by new and leaves the rest; what it may not do is choose between *)
(* two occurrences, unless they overlap or a NUL hides one.                *)
Edits(r, c, d) ==
  IF r.old = <<>> THEN d = r.new
  ELSE /\ c # NoFile /\ Len(c) <= MaxEditSize
       /\ \E i \in Matches(r.old, c) :
            /\ d = Replaced(r, c, i)
            /\ \A j \in Matches(r.old, c) : j \in i..(i + Len(r.old) - 1)

(* A request is refused for no less than a file that is missing, too large *)
(* or does not hold old exactly once.                                      *)
Unfit(r, c) ==
  /\ r.old # <<>>
  /\ \/ c = NoFile
     \/ Len(c) > MaxEditSize
     \/ \A i \in Matches(r.old, c) : \E j \in Matches(r.old, c) : j # i

Beginnings(c) == IF c = NoFile THEN {} ELSE {SubSeq(c, 1, k) : k \in 0..Len(c)}

Phase == CASE pc = "idle" -> "idle" [] pc = "renamed" -> "edited" [] OTHER -> "asked"

Promise == INSTANCE AtomicFile WITH
  CallsFail <- "io" \in Faults, phase <- Phase

(* Whatever fails, whoever writes the file and whenever the process is     *)
(* killed, a call of edit_file keeps the promise of AtomicFile: the file   *)
(* changes at one moment, from a content the call has read to its edited   *)
(* form, and "wrote" is answered after that moment only.                   *)
KeepsPromise == Promise!Spec
=============================================================================
