---------------------------- MODULE ToolsProofs -----------------------------
(***************************************************************************)
(* Proofs about the two file tools and what they are to each other.        *)
(*                                                                         *)
(* EditFile, for every set of requests, every content other programs       *)
(* write, every combination of faults: the variables keep their types, and *)
(* a call keeps the promise of AtomicFile.  The promise is kept because at *)
(* each step of a call the process knows something about what it has in    *)
(* memory: Knows says what.                                                *)
(*                                                                         *)
(* ReadFile, for every file, offset and limit, every cap and whatever      *)
(* lines other programs slip in: the page is right, the reader misses      *)
(* nothing, and the loop has its bound.  At every getline the lines still  *)
(* to come are the end of the source (Position), those shown are the slice *)
(* that begins at the offset (Progress), and once the loop is left there   *)
(* is a reason for it (Left).                                              *)
(*                                                                         *)
(* Tools: to edit_file a behaviour of Tools is one of EditFile, where      *)
(* other programs are the only company, and to read_file it is one of      *)
(* ReadFile, whatever the edits do; what is proved of each alone holds of  *)
(* the two beside each other.                                              *)
(***************************************************************************)
EXTENDS Tools, InductionProofs, TLAPS

Searching == pc \in {"fopen", "ftell", "fread", "strstr"}

Knows ==
  /\ pc \notin {"idle", "renamed"} => file \in seen
  /\ Searching => request.old # <<>>
  /\ pc \in {"ftell", "fread"} => opened \in seen
  /\ pc = "fread" /\ ~torn => sz = Len(opened)
  /\ pc = "fread" /\ ~torn => Len(opened) <= MaxEditSize
  /\ pc = "strstr" => body \in Promise!Read /\ Len(body) <= MaxEditSize
  /\ pc \in {"mkstemp", "fwrite", "rename"} =>
       \E c \in Promise!Read : Edits(request, c, buf)
  /\ pc = "rename" => tmp = buf

(* What the arguments of a request are made of.                            *)
LEMMA RequestTypes ==
  ASSUME NEW r \in Requests
  PROVE  /\ r.old \in Seq(Chars) /\ r.new \in Seq(Chars)
         /\ r.old # <<>> => Len(r.old) >= 1
<1>1. r.old \in Seq(Chars \ {NUL}) /\ r.new \in Seq(Chars \ {NUL})
  BY EditAssumption DEF EditAssumption
<1> QED  BY <1>1

(* A replacement at a match gives a content again.                         *)
LEMMA ReplacedType ==
  ASSUME NEW r \in Requests, NEW t \in Contents, NEW i \in Matches(r.old, t)
  PROVE  Replaced(r, t, i) \in Contents
<1>1. r.old \in Seq(Chars) /\ r.new \in Seq(Chars)
  BY RequestTypes
<1>2. i \in 1..Len(t) /\ Len(r.old) \in Nat
  BY <1>1 DEF Matches
<1>3. SubSeq(t, 1, i - 1) \in Seq(Chars)
  <2>1. \A k \in 1..(i - 1) : t[k] \in Chars
    BY <1>2 DEF Contents
  <2> QED  BY <1>2, <2>1 DEF Contents
<1>4. SubSeq(t, i + Len(r.old), Len(t)) \in Seq(Chars)
  <2>1. \A k \in (i + Len(r.old))..Len(t) : t[k] \in Chars
    BY <1>2 DEF Contents
  <2> QED  BY <1>2, <2>1 DEF Contents
<1> QED  BY <1>1, <1>3, <1>4 DEF Replaced, Contents

(* The beginnings of a content are contents.                               *)
LEMMA BeginningType ==
  ASSUME NEW c \in Contents, NEW k \in 0..Len(c)
  PROVE  SubSeq(c, 1, k) \in Contents /\ Len(SubSeq(c, 1, k)) = k
<1>1. \A j \in 1..k : c[j] \in Chars
  BY DEF Contents
<1> QED  BY <1>1 DEF Contents

-----------------------------------------------------------------------------
(* A call that returns leaves the types alone.                             *)
LEMMA ReturnType ==
  ASSUME TypeOK, NEW said \in {"none", "wrote", "error"}, Return(said),
         litter' \in 0..MaxLitter
  PROVE  TypeOK'
<1>1. <<>> \in Contents
  BY DEF Contents
<1>2. 0 \in 0..MaxEditSize
  BY EditAssumption DEF EditAssumption
<1> QED  BY <1>1, <1>2 DEF TypeOK, Return

LEMMA TypeStep ==
  ASSUME TypeOK, [Next]_vars
  PROVE  TypeOK'
<1> USE DEF TypeOK
<1>0. CASE UNCHANGED vars
  BY <1>0 DEF vars, memory, history
<1>1. CASE Begin
  <2>1. request'.new \in Contents /\ <<>> \in Contents
    BY <1>1, RequestTypes DEF Begin, Contents
  <2> QED  BY <1>1, <2>1 DEF Begin
<1>2. CASE Open
  BY <1>2 DEF Open, history
<1>3. CASE Measure
  <2>1. Len(opened) \in 0..MaxEditSize
    BY <1>3, EditAssumption DEF Measure, Contents, EditAssumption
  <2> QED  BY <1>3, <2>1 DEF Measure, history
<1>4. CASE TooLarge \/ NotUnique \/ Finish \/ OpenFails \/ WriteFails
  <2>1. Return("error") \/ Return("wrote")
    BY <1>4 DEF TooLarge, NotUnique, Finish, OpenFails, WriteFails
  <2>2. litter' \in 0..MaxLitter
    BY <1>4 DEF TooLarge, NotUnique, Finish, OpenFails, WriteFails
  <2> QED  BY <2>1, <2>2, ReturnType
<1>5. CASE ReadBody
  <2>1. PICK got \in 0..Len(opened) : body' = SubSeq(opened, 1, got) /\ torn' = (torn \/ got < Len(opened))
    BY <1>5 DEF ReadBody
  <2>2. body' \in Contents
    BY <2>1, BeginningType
  <2>3. torn' \in BOOLEAN
    BY <2>1
  <2> QED  BY <1>5, <2>2, <2>3 DEF ReadBody
<1>6. CASE Replace
  <2>1. buf' \in Contents
    BY <1>6, ReplacedType DEF Replace
  <2> QED  BY <1>6, <2>1 DEF Replace, history
<1>7. CASE MakeTemporary
  BY <1>7 DEF MakeTemporary, history, Contents
<1>8. CASE WriteTemporary
  BY <1>8 DEF WriteTemporary, history
<1>9. CASE Rename
  BY <1>9 DEF Rename, memory, history
<1>10. CASE Kill
  <2>1. litter' \in 0..MaxLitter
    BY <1>10, EditAssumption DEF Kill, EditAssumption
  <2> QED  BY <1>10, <2>1, ReturnType DEF Kill
<1>11. CASE Outside
  <2>1. file' \in Contents
    BY <1>11, EditAssumption DEF Outside, EditAssumption
  <2> QED  BY <1>11, <2>1 DEF Outside, history
<1> QED  BY <1>0, <1>1, <1>2, <1>3, <1>4, <1>5, <1>6, <1>7, <1>8, <1>9, <1>10, <1>11 DEF Next, Edit

LEMMA TypeInit ==
  ASSUME Init
  PROVE  TypeOK
<1>1. file \in Contents \cup {NoFile}
  BY EditAssumption DEF Init, EditAssumption
<1>2. 0 \in 0..MaxEditSize /\ 0 \in 0..MaxLitter
  BY EditAssumption DEF EditAssumption
<1>3. <<>> \in Contents
  BY DEF Contents
<1> QED  BY <1>1, <1>2, <1>3 DEF Init, TypeOK

(* Every variable of edit_file_tool and atomic_write keeps its type:       *)
(* whatever is read, replaced and written is a sequence of bytes, and no   *)
(* more than MaxEditSize bytes are measured.                               *)
THEOREM EditTypeCorrect == Spec => []TypeOK
<1>1. Init => TypeOK
  BY TypeInit
<1>2. TypeOK /\ [Next]_vars => TypeOK'
  BY TypeStep
<1> QED  BY <1>1, <1>2, PTL DEF Spec

-----------------------------------------------------------------------------
(* What could have been read stays so during a call.                       *)
LEMMA ReadGrows ==
  ASSUME seen \subseteq seen', torn => torn'
  PROVE  Promise!Read \subseteq Promise!Read'
BY DEF Promise!Read, Beginnings, Contents

(* What ReadBody took for the file could have been read.                   *)
LEMMA ReadBodyReads ==
  ASSUME TypeOK, Knows, ReadBody
  PROVE  body' \in Promise!Read' /\ Len(body') <= MaxEditSize
<1>1. PICK got \in 0..Len(opened) :
        got <= sz /\ body' = SubSeq(opened, 1, got) /\ torn' = (torn \/ got < Len(opened))
  BY DEF ReadBody
<1>2. opened \in seen /\ opened \in Contents /\ seen' = seen /\ sz \in 0..MaxEditSize
  BY DEF Knows, ReadBody, TypeOK
<1>3. Len(body') <= MaxEditSize
  BY <1>1, <1>2, BeginningType, EditAssumption DEF EditAssumption
<1>4. CASE torn'
  <2>1. opened # NoFile
    BY <1>2, EditAssumption DEF EditAssumption
  <2>2. body' \in Beginnings(opened)
    BY <1>1, <2>1 DEF Beginnings
  <2>3. Promise!Read' = seen' \cup UNION {Beginnings(c) : c \in seen'}
    BY <1>4 DEF Promise!Read, Beginnings
  <2> QED  BY <1>2, <1>3, <2>2, <2>3
<1>5. CASE ~torn'
  <2>1. got = Len(opened)
    <3>1. ~(got < Len(opened))
      BY <1>1, <1>5
    <3>2. Len(opened) \in Nat
      BY <1>2 DEF Contents
    <3> QED  BY <1>1, <3>1, <3>2
  <2>2. body' = opened
    BY <1>1, <1>2, <2>1 DEF Contents
  <2> QED  BY <1>2, <1>3, <2>2 DEF Promise!Read
<1> QED  BY <1>4, <1>5

(* What Replace built is an edited form of what was read.                  *)
LEMMA ReplaceEdits ==
  ASSUME TypeOK, Knows, Replace
  PROVE  \E c \in Promise!Read : Edits(request, c, buf')
<1>1. PICK i \in Matches(request.old, body) :
        Unique(request.old, body, i) /\ buf' = Replaced(request, body, i)
  BY DEF Replace
<1>2. body \in Promise!Read /\ Len(body) <= MaxEditSize /\ request.old # <<>>
  BY DEF Knows, Searching, Replace
<1>3. body # NoFile
  BY EditAssumption DEF EditAssumption, TypeOK
<1>4. \A j \in Matches(request.old, body) : j \in i..(i + Len(request.old) - 1)
  <2>1. Len(request.old) \in Nat
    BY RequestTypes DEF TypeOK
  <2> QED  BY <1>1, <2>1 DEF Unique, Matches
<1>5. Edits(request, body, buf')
  BY <1>1, <1>2, <1>3, <1>4 DEF Edits
<1> QED  BY <1>2, <1>5

(* Steps that go on with the call keep what could have been read, steps    *)
(* that return have nothing left to know.                                  *)
LEMMA KnowsStep ==
  ASSUME TypeOK, Knows, [Next]_vars
  PROVE  Knows'
<1> USE DEF Searching
<1>0. CASE UNCHANGED vars
  <2>1. UNCHANGED <<file, pc, request, opened, sz, body, buf, tmp, seen, torn>>
    BY <1>0 DEF vars, memory, history
  <2>2. Promise!Read \subseteq Promise!Read'
    BY <2>1, ReadGrows
  <2>3. pc \in {"mkstemp", "fwrite", "rename"} => \E c \in Promise!Read' : Edits(request', c, buf')
    BY <2>1, <2>2 DEF Knows
  <2> QED  BY <2>1, <2>2, <2>3 DEF Knows
<1>1. CASE Begin
  <2>1. file \in Promise!Read'
    BY <1>1 DEF Begin, Promise!Read
  <2>2. request'.old = <<>> => Edits(request', file, buf')
    BY <1>1 DEF Begin, Edits
  <2> QED  BY <1>1, <2>1, <2>2 DEF Begin, Knows
<1>2. CASE Open
  BY <1>2 DEF Open, history, Knows
<1>3. CASE Measure
  BY <1>3 DEF Measure, history, Knows
<1>4. CASE TooLarge \/ NotUnique \/ Finish \/ OpenFails \/ WriteFails \/ Kill
  <2>1. pc' = "idle"
    BY <1>4 DEF TooLarge, NotUnique, Finish, OpenFails, WriteFails, Kill, Return
  <2> QED  BY <2>1 DEF Knows
<1>5. CASE ReadBody
  <2>1. body' \in Promise!Read' /\ Len(body') <= MaxEditSize
    BY <1>5, ReadBodyReads
  <2> QED  BY <1>5, <2>1 DEF ReadBody, Knows
<1>6. CASE Replace
  <2>1. PICK c \in Promise!Read : Edits(request, c, buf')
    BY <1>6, ReplaceEdits
  <2>2. Promise!Read \subseteq Promise!Read'
    BY <1>6, ReadGrows DEF Replace, history
  <2> QED  BY <1>6, <2>1, <2>2 DEF Replace, Knows, history
<1>7. CASE MakeTemporary \/ WriteTemporary
  <2>1. /\ pc \in {"mkstemp", "fwrite"} /\ pc' \in {"fwrite", "rename"}
        /\ UNCHANGED <<file, request, buf, seen, torn>>
        /\ pc' = "rename" => tmp' = buf'
    BY <1>7 DEF MakeTemporary, WriteTemporary, history
  <2>2. PICK c \in Promise!Read : Edits(request, c, buf)
    BY <2>1 DEF Knows
  <2>3. Promise!Read \subseteq Promise!Read'
    BY <2>1, ReadGrows
  <2> QED  BY <2>1, <2>2, <2>3 DEF Knows
<1>9. CASE Rename
  <2>1. pc' = "renamed"
    BY <1>9 DEF Rename
  <2> QED  BY <2>1 DEF Knows
<1>11. CASE Outside
  <2>1. UNCHANGED <<pc, request, sz, body, buf, tmp>>
    BY <1>11 DEF Outside
  <2>2. CASE pc = "idle"
    BY <2>1, <2>2 DEF Knows
  <2>3. CASE pc # "idle"
    <3>1. seen' = seen \cup {file'} /\ torn' = TRUE
      BY <1>11, <2>3 DEF Outside
    <3>2. Promise!Read \subseteq Promise!Read'
      BY <3>1, ReadGrows
    <3>3. pc \in {"ftell", "fread"} => opened' \in seen'
      BY <1>11, <3>1 DEF Outside, Knows
    <3>4. pc \in {"mkstemp", "fwrite", "rename"} => \E c \in Promise!Read' : Edits(request, c, buf)
      BY <3>2 DEF Knows
    <3> QED  BY <2>1, <3>1, <3>2, <3>3, <3>4 DEF Knows
  <2> QED  BY <2>2, <2>3
<1> QED  BY <1>0, <1>1, <1>2, <1>3, <1>4, <1>5, <1>6, <1>7, <1>9, <1>11 DEF Next, Edit

-----------------------------------------------------------------------------
(* The steps of AtomicFile that the steps of a call are.                   *)
LEMMA RefuseStep ==
  ASSUME TypeOK, Knows, TooLarge \/ NotUnique \/ OpenFails \/ WriteFails
  PROVE  Promise!Refuse
<1>1. /\ pc \notin {"idle", "renamed"} /\ Return("error") /\ UNCHANGED litter
  BY DEF TooLarge, NotUnique, OpenFails, WriteFails
<1>2. Phase = "asked" /\ Phase' = "idle"
  BY <1>1 DEF Phase, Return
<1>3. Promise!Return("error")
  BY <1>1, <1>2 DEF Promise!Return, Return
<1>4. seen \subseteq Promise!Read
  BY DEF Promise!Read
<1>5. CASE TooLarge
  <2>1. opened \in Promise!Read
    BY <1>4, <1>5 DEF Knows, TooLarge
  <2>2. Len(opened) > MaxEditSize => Unfit(request, opened)
    BY <1>5 DEF Unfit, TooLarge, Knows, Searching
  <2> QED  BY <1>1, <1>2, <1>3, <1>5, <2>1, <2>2 DEF Promise!Refuse, TooLarge
<1>6. CASE NotUnique
  <2>1. body \in Promise!Read /\ request.old # <<>> /\ Len(request.old) \in Nat /\ Len(request.old) >= 1
    BY <1>6, RequestTypes DEF Knows, NotUnique, Searching, TypeOK
  <2>2. \A m \in Matches(request.old, body) : \E j \in Matches(request.old, body) : j # m
    <3>1. CASE Matches(request.old, body) = {}
      BY <3>1
    <3>2. CASE Ambiguous(request.old, body)
      <4>1. PICK i, j \in Matches(request.old, body) : j >= i + Len(request.old)
        BY <3>2 DEF Ambiguous
      <4>2. i # j
        BY <4>1, <2>1 DEF Matches
      <4> QED  BY <4>2
    <3> QED  BY <1>6, <3>1, <3>2 DEF NotUnique
  <2>3. Unfit(request, body)
    BY <2>1, <2>2 DEF Unfit
  <2> QED  BY <1>1, <1>2, <1>3, <2>1, <2>3 DEF Promise!Refuse
<1>7. CASE OpenFails
  <2>1. file \in Promise!Read
    BY <1>1, <1>4 DEF Knows
  <2>2. file = NoFile => Unfit(request, file)
    BY <1>7 DEF Unfit, OpenFails, Knows, Searching
  <2> QED  BY <1>1, <1>2, <1>3, <1>7, <2>1, <2>2 DEF Promise!Refuse, OpenFails
<1>8. CASE WriteFails
  BY <1>1, <1>2, <1>3, <1>8 DEF Promise!Refuse, WriteFails
<1> QED  BY <1>5, <1>6, <1>7, <1>8

LEMMA DieStep ==
  ASSUME Kill
  PROVE  Promise!Die
<1>1. Phase # "idle" /\ Phase' = "idle"
  BY DEF Kill, Return, Phase
<1>2. litter' \in {litter, litter + 1}
  BY DEF Kill
<1> QED  BY <1>1, <1>2 DEF Promise!Die, Promise!Return, Kill, Return

LEMMA CommitStep ==
  ASSUME Knows, Rename
  PROVE  Promise!Commit
<1>1. \E c \in Promise!Read : Edits(request, c, file')
  BY DEF Knows, Rename
<1>2. Phase = "asked" /\ Phase' = "edited"
  BY DEF Rename, Phase
<1> QED  BY <1>1, <1>2 DEF Promise!Commit, Rename, history

(* A read that falls short of the open file, with nobody writing it, is an *)
(* error of the file system.                                               *)
LEMMA ReadStep ==
  ASSUME TypeOK, Knows, ReadBody
  PROVE  Promise!Disturb \/ UNCHANGED Promise!vars
<1>1. Phase = "asked" /\ Phase' = "asked"
  BY DEF Phase, ReadBody
<1>2. UNCHANGED <<file, request, reply, seen, litter>>
  BY DEF ReadBody
<1>3. PICK got \in 0..Len(opened) :
        /\ "io" \in Faults \/ got = sz \/ got = Len(opened)
        /\ torn' = (torn \/ got < Len(opened))
  BY DEF ReadBody
<1>4. CASE torn' = torn
  BY <1>1, <1>2, <1>4 DEF Promise!vars
<1>5. CASE torn' # torn
  <2>1. ~torn /\ torn' = TRUE /\ got < Len(opened)
    BY <1>3, <1>5 DEF TypeOK
  <2>2. sz = Len(opened)
    BY <2>1 DEF Knows, ReadBody
  <2>3. Len(opened) \in Nat
    BY DEF TypeOK, Contents
  <2>4. got # sz /\ got # Len(opened)
    BY <2>1, <2>2, <2>3
  <2>5. "io" \in Faults
    BY <1>3, <2>4
  <2> QED  BY <1>1, <1>2, <2>1, <2>5 DEF Promise!Disturb
<1> QED  BY <1>4, <1>5

LEMMA OutsideStep ==
  ASSUME Outside
  PROVE  Promise!Outside
<1>1. file' \in Contents
  BY EditAssumption DEF Outside, EditAssumption
<1>2. Phase' = Phase /\ (Phase = "idle" <=> pc = "idle")
  BY DEF Outside, Phase
<1> QED  BY <1>1, <1>2 DEF Promise!Outside, Outside, history

LEMMA PromiseStep ==
  ASSUME TypeOK, Knows, [Next]_vars
  PROVE  [Promise!Next]_(Promise!vars)
<1>0. CASE UNCHANGED vars
  BY <1>0 DEF vars, memory, history, Promise!vars, Phase
<1>1. CASE Begin
  BY <1>1 DEF Begin, Promise!Next, Promise!Ask, Phase
<1>2. CASE Open \/ Measure \/ Replace \/ MakeTemporary \/ WriteTemporary
  BY <1>2 DEF Open, Measure, Replace, MakeTemporary, WriteTemporary, history, Promise!vars, Phase
<1>3. CASE ReadBody
  BY <1>3, ReadStep DEF Promise!Next
<1>4. CASE TooLarge \/ NotUnique \/ OpenFails \/ WriteFails
  BY <1>4, RefuseStep DEF Promise!Next
<1>5. CASE Rename
  BY <1>5, CommitStep DEF Promise!Next
<1>6. CASE Finish
  BY <1>6 DEF Finish, Return, Promise!Next, Promise!Succeed, Promise!Return, Phase
<1>7. CASE Kill
  BY <1>7, DieStep DEF Promise!Next
<1>8. CASE Outside
  BY <1>8, OutsideStep DEF Promise!Next
<1> QED  BY <1>0, <1>1, <1>2, <1>3, <1>4, <1>5, <1>6, <1>7, <1>8 DEF Next, Edit

(* edit_file_tool with atomic_write implements AtomicFile: whatever fails, *)
(* whoever writes the file and whenever the process is killed, the file    *)
(* goes from a content the call may have read to its edited form in one    *)
(* step, and the answer says whether it did.                               *)
THEOREM EditKeepsPromise == Spec => KeepsPromise
<1>1. Init => Promise!Init
  <2> SUFFICES ASSUME Init PROVE Promise!Init
    OBVIOUS
  <2>1. file \in Contents \cup {NoFile}
    BY TypeInit DEF TypeOK
  <2> QED  BY <2>1 DEF Init, Promise!Init, Phase
<1>2. Init => TypeOK /\ Knows
  BY TypeInit DEF Init, Knows, Searching
<1>3. TypeOK /\ Knows /\ [Next]_vars => (TypeOK /\ Knows)'
  BY TypeStep, KnowsStep
<1>4. TypeOK /\ Knows /\ [Next]_vars => [Promise!Next]_(Promise!vars)
  BY PromiseStep
<1> QED  BY <1>1, <1>2, <1>3, <1>4, PTL DEF Spec, KeepsPromise, Promise!Spec

-----------------------------------------------------------------------------
(* read_file.                                                               *)
Fresh ==
  rpc \in {"idle", "fopen"} => rest = <<>> /\ lineno = 0 /\ shown = <<>> /\ total = 0

Position ==
  rpc \in {"getline", "broke"} /\ ~disturbed =>
    /\ lineno <= Len(source)
    /\ rest = SubSeq(source, lineno + 1, Len(source))

Progress ==
  /\ \A i \in 1..Len(shown) : shown[i].number = offset + i - 1
  /\ lineno < offset => shown = <<>>
  /\ lineno >= offset /\ rpc = "getline" => Len(shown) = lineno - offset + 1
  /\ lineno >= offset /\ rpc = "broke" =>
       \/ Len(shown) = lineno - offset + 1
       \/ Len(shown) = lineno - offset /\ Len(shown) = limit
  /\ rpc = "getline" => total <= MaxBytes
  /\ shown = <<>> => total = 0

Faithful ==
  rpc \in {"getline", "broke"} /\ ~disturbed =>
    \A i \in 1..Len(shown) : /\ offset + i - 1 <= Len(source)
                             /\ shown[i] = [number |-> offset + i - 1, line |-> source[offset + i - 1]]

Left ==
  rpc = "broke" /\ ~disturbed =>
    \/ Len(shown) = limit /\ lineno = offset + limit
    \/ lineno = Len(source)
    \/ Capped

Inv == Fresh /\ Position /\ Progress /\ Faithful /\ Left /\ PageBounded

(* What the arithmetic of a getline step rests on.                         *)
LEMMA HeadTail ==
  ASSUME ReadTypeOK, GetLine
  PROVE  /\ Head(rest) \in Line /\ Tail(rest) \in Seq(Line)
         /\ Size(Head(rest)) \in Nat
<1>1. rest \in Seq(Line) /\ rest # <<>>
  BY DEF ReadTypeOK, GetLine
<1>2. Head(rest) \in Line /\ Tail(rest) \in Seq(Line)
  BY <1>1
<1> QED  BY <1>2, ReadAssumption DEF ReadAssumption

LEMMA NoLines == <<>> \in Seq(Line) /\ <<>> \in Seq(Numbered)
OBVIOUS

LEMMA SaysType == ASSUME NEW k \in {"none", "page", "cannot open", "binary", "empty", "beyond"}
                  PROVE  Says(k) \in Answer
BY NoLines DEF Says, Answer

LEMMA ShownType ==
  ASSUME ReadTypeOK, ShowLine
  PROVE  shown' \in Seq(Numbered) /\ total' \in Nat
<1>1. [number |-> lineno + 1, line |-> Head(rest)] \in Numbered
  BY HeadTail DEF ShowLine, ReadTypeOK, Numbered
<1>2. shown' \in Seq(Numbered)
  BY <1>1 DEF ShowLine, ReadTypeOK
<1>3. total' \in Nat
  BY HeadTail, ReadAssumption DEF ShowLine, ReadTypeOK, ReadAssumption
<1> QED  BY <1>2, <1>3

LEMMA ReadReturnType ==
  ASSUME ReadTypeOK, NEW a \in Answer, ReadReturn(a)
  PROVE  ReadTypeOK'
BY DEF ReadReturn, ReadTypeOK

LEMMA ReadTypeInit == ReadInit => ReadTypeOK
<1> SUFFICES ASSUME ReadInit PROVE ReadTypeOK
  OBVIOUS
<1>1. DefaultLimit \in Nat \ {0}
  BY ReadAssumption DEF ReadAssumption
<1>2. answer \in Answer
  BY SaysType DEF ReadInit
<1>3. rest \in Seq(Line) /\ source \in Seq(Line) /\ shown \in Seq(Numbered)
  BY NoLines DEF ReadInit
<1>4. rpc = "idle" /\ disturbed \in BOOLEAN
  BY Zenon DEF ReadInit
<1>5. offset \in Nat \ {0} /\ limit \in Nat \ {0} /\ lineno \in Nat /\ total \in Nat
  BY <1>1 DEF ReadInit
<1> QED  BY <1>2, <1>3, <1>4, <1>5 DEF ReadTypeOK

LEMMA ReadTypeStep == ReadTypeOK /\ [ReadNext]_readVars => ReadTypeOK'
<1> SUFFICES ASSUME ReadTypeOK, [ReadNext]_readVars PROVE ReadTypeOK'
  OBVIOUS
<1>0. CASE UNCHANGED readVars
  BY <1>0 DEF readVars, loop, ReadTypeOK
<1>1. ASSUME offset' \in Nat \ {0}, limit' \in Nat \ {0}, ReadBegin(offset', limit')
      PROVE  ReadTypeOK'
  <2>1. answer' \in Answer
    BY <1>1, SaysType DEF ReadBegin
  <2> QED  BY <1>1, <2>1, NoLines DEF ReadBegin, loop, ReadTypeOK
<1>2. ASSUME rest' \in Seq(Line), ReadOpen(rest') PROVE ReadTypeOK'
  BY <1>2 DEF ReadOpen, ReadTypeOK
<1>3. ASSUME rest' \in Seq(Line), WrittenInPlace(rest') PROVE ReadTypeOK'
  BY <1>3 DEF WrittenInPlace, ReadTypeOK
<1>4. CASE CannotOpen
  BY <1>4, ReadReturnType, SaysType DEF CannotOpen
<1>5. CASE ReadError
  BY <1>5 DEF ReadError, loop, ReadTypeOK
<1>6. CASE Binary
  BY <1>6, ReadReturnType, SaysType DEF Binary
<1>7. CASE SkipLine
  <2>1. lineno' \in Nat /\ rest' \in Seq(Line)
    BY <1>7, HeadTail DEF SkipLine, ReadTypeOK
  <2> QED  BY <1>7, <2>1 DEF SkipLine, ReadTypeOK
<1>8. CASE PastLimit
  <2>1. lineno' \in Nat /\ rest' \in Seq(Line)
    BY <1>8, HeadTail DEF PastLimit, ReadTypeOK
  <2> QED  BY <1>8, <2>1 DEF PastLimit, ReadTypeOK
<1>9. CASE ShowLine
  <2>1. lineno' \in Nat /\ rest' \in Seq(Line)
    BY <1>9, HeadTail DEF ShowLine, ReadTypeOK
  <2>2. rpc' \in {"getline", "broke"}
    BY <1>9 DEF ShowLine
  <2> QED  BY <1>9, <2>1, <2>2, ShownType DEF ShowLine, ReadTypeOK
<1>10. CASE EndOfFile
  BY <1>10 DEF EndOfFile, loop, ReadTypeOK
<1>11. CASE FinishPage
  <2>1. Hint \in Nat /\ Capped \in BOOLEAN
    BY ReadAssumption DEF Hint, Capped, ReadTypeOK, ReadAssumption
  <2>2. [kind |-> "page", lines |-> shown, capped |-> Capped, hint |-> Hint] \in Answer
    BY <2>1 DEF Answer, ReadTypeOK
  <2>3. PICK a \in Answer : ReadReturn(a)
    BY <1>11, <2>2, SaysType DEF FinishPage
  <2> QED  BY <2>3, ReadReturnType
<1> QED  BY <1>0, <1>1, <1>2, <1>3, <1>4, <1>5, <1>6, <1>7, <1>8, <1>9, <1>10, <1>11
         DEF ReadNext, Loop

(* The reader keeps its variables within type, whatever the file holds     *)
(* (main.c:553-606).                                                       *)
THEOREM ReadTypeCorrect == ReadSpec => []ReadTypeOK
<1>1. ReadInit => ReadTypeOK
  BY ReadTypeInit
<1>2. ReadTypeOK /\ [ReadNext]_readVars => ReadTypeOK'
  BY ReadTypeStep
<1> QED  BY <1>1, <1>2, PTL DEF ReadSpec
-----------------------------------------------------------------------------
(* Without lines, nothing is claimed of them.                              *)
LEMMA NothingShown ==
  ASSUME ReadTypeOK', shown' = <<>>, total' = 0, lineno' = 0
  PROVE  Progress' /\ PageBounded'
<1>1. Len(shown') = 0 /\ lineno' < offset'
  BY DEF ReadTypeOK
<1>2. total' <= MaxBytes
  BY ReadAssumption DEF ReadAssumption
<1>3. ~(lineno' >= offset')
  BY <1>1 DEF ReadTypeOK
<1>4. \A i \in 1..Len(shown') : shown'[i].number = offset' + i - 1
  BY <1>1
<1>5. Progress'
  BY <1>2, <1>3, <1>4, Zenon DEF Progress
<1>6. Len(shown') <= limit' /\ lineno' <= offset' + limit'
  <2>1. offset' \in Nat /\ limit' \in Nat
    BY DEF ReadTypeOK
  <2>2. \A o, l \in Nat : 0 <= o + l /\ 0 <= l
    OBVIOUS
  <2> QED  BY <1>1, <2>1, <2>2, Zenon
<1>7. PageBounded'
  BY <1>6, Zenon DEF PageBounded
<1> QED  BY <1>5, <1>7

LEMMA InvInit == ReadInit => Inv
<1> SUFFICES ASSUME ReadInit PROVE Inv
  OBVIOUS
<1>1. Fresh /\ Position /\ Faithful /\ Left
  BY DEF ReadInit, Fresh, Position, Faithful, Left
<1>2. Len(shown) = 0 /\ lineno = 0 /\ offset = 1 /\ limit \in Nat /\ rpc = "idle"
  BY ReadAssumption DEF ReadInit, ReadAssumption
<1>3. shown = <<>> /\ total = 0
  BY DEF ReadInit
<1>4. Progress /\ PageBounded
  BY <1>2, <1>3 DEF Progress, PageBounded
<1> QED  BY <1>1, <1>4 DEF Inv

(* The call is over or has not begun: there is no loop to speak of.        *)
LEMMA NotInLoop ==
  ASSUME ReadTypeOK', Fresh', rpc' \in {"idle", "fopen"}
  PROVE  Inv'
<1>1. Position' /\ Faithful' /\ Left'
  BY DEF Position, Faithful, Left
<1>2. shown' = <<>> /\ total' = 0 /\ lineno' = 0
  BY DEF Fresh
<1> QED  BY <1>1, <1>2, NothingShown DEF Inv

LEMMA ReturnFresh ==
  ASSUME ReadTypeOK', NEW a, ReadReturn(a)
  PROVE  Inv'
<1>1. Fresh' /\ rpc' \in {"idle", "fopen"}
  BY DEF ReadReturn, Fresh
<1> QED  BY <1>1, NotInLoop

LEMMA OpenStep ==
  ASSUME ReadTypeOK, Inv, ReadTypeOK', ReadOpen(rest'), rest' \in Seq(Line)
  PROVE  Inv'
<1>1. lineno' = 0 /\ shown' = <<>> /\ total' = 0 /\ rpc' = "getline" /\ source' = rest'
  BY DEF Inv, Fresh, ReadOpen
<1>2. Fresh' /\ Left'
  BY <1>1 DEF Fresh, Left
<1>3. rest' = SubSeq(rest', 1, Len(rest')) /\ 0 <= Len(rest')
  OBVIOUS
<1>4. Position'
  BY <1>1, <1>3 DEF Position
<1>5. Faithful'
  BY <1>1 DEF Faithful
<1> QED  BY <1>1, <1>2, <1>4, <1>5, NothingShown DEF Inv

(* One getline moves the position by one line.                             *)
LEMMA NextLine ==
  ASSUME ReadTypeOK, Position, GetLine, rest' = Tail(rest), lineno' = lineno + 1,
         UNCHANGED <<source, disturbed>>
  PROVE  Position' /\ (~disturbed => lineno' <= Len(source) /\ Head(rest) = source[lineno'])
<1>1. CASE disturbed
  BY <1>1 DEF Position
<1>2. CASE ~disturbed
  <2>1. lineno <= Len(source) /\ rest = SubSeq(source, lineno + 1, Len(source)) /\ rest # <<>>
    BY <1>2 DEF Position, GetLine
  <2>2. lineno < Len(source)
    BY <2>1 DEF ReadTypeOK
  <2>3. Head(rest) = source[lineno + 1]
    BY <2>1, <2>2 DEF ReadTypeOK
  <2>4. Tail(rest) = SubSeq(source, lineno + 2, Len(source))
    BY <2>1, <2>2 DEF ReadTypeOK
  <2> QED  BY <2>2, <2>3, <2>4 DEF Position, ReadTypeOK
<1> QED  BY <1>1, <1>2

LEMMA SkipStep ==
  ASSUME ReadTypeOK, Inv, SkipLine
  PROVE  Inv'
<1>1. Position'
  BY NextLine DEF Inv, SkipLine
<1>2. /\ rpc' = "getline" /\ shown' = shown /\ lineno' = lineno + 1 /\ lineno + 1 < offset
      /\ offset' = offset /\ limit' = limit /\ total' = total /\ source' = source
  BY DEF SkipLine, GetLine
<1>3. shown = <<>> /\ total <= MaxBytes /\ total = 0
  BY <1>2 DEF Inv, Progress, SkipLine, GetLine, ReadTypeOK
<1>4. Fresh' /\ Left'
  BY <1>2 DEF Fresh, Left
<1>5. Len(shown') = 0 /\ lineno' < offset' /\ shown' = <<>>
  BY <1>2, <1>3 DEF ReadTypeOK
<1>6. Progress'
  BY <1>2, <1>3, <1>5 DEF Progress, ReadTypeOK
<1>7. PageBounded'
  BY <1>2, <1>5 DEF PageBounded, ReadTypeOK
<1>8. Faithful'
  BY <1>5 DEF Faithful
<1> QED  BY <1>1, <1>4, <1>6, <1>7, <1>8 DEF Inv

LEMMA PastStep ==
  ASSUME ReadTypeOK, Inv, PastLimit
  PROVE  Inv'
<1>1. Position'
  BY NextLine DEF Inv, PastLimit
<1>2. /\ rpc = "getline" /\ rpc' = "broke" /\ shown' = shown /\ lineno' = lineno + 1
      /\ lineno + 1 >= offset /\ Len(shown) >= limit
      /\ offset' = offset /\ limit' = limit /\ source' = source
      /\ disturbed' = disturbed /\ total' = total
  BY DEF PastLimit, GetLine
<1>3. Len(shown) = limit /\ lineno <= offset + limit
  BY <1>2 DEF Inv, PageBounded, ReadTypeOK
<1>4. lineno >= offset /\ Len(shown) = lineno - offset + 1
  BY <1>2, <1>3 DEF Inv, Progress, ReadTypeOK
<1>5. Fresh'
  BY <1>2 DEF Fresh
<1>6. Left'
  BY <1>2, <1>3, <1>4 DEF Left, ReadTypeOK
<1>7. /\ \A i \in 1..Len(shown) : shown[i].number = offset + i - 1
      /\ Len(shown) = lineno' - offset /\ lineno' >= offset
  BY <1>2, <1>4 DEF Inv, Progress, ReadTypeOK
<1>8. Progress'
  BY <1>2, <1>3, <1>7 DEF Progress, ReadTypeOK
<1>9. Faithful'
  BY <1>2 DEF Inv, Faithful
<1>10. lineno' <= offset' + limit'
  BY <1>2, <1>3, <1>4 DEF ReadTypeOK
<1>11. PageBounded'
  BY <1>2, <1>3, <1>10 DEF Inv, PageBounded
<1> QED  BY <1>1, <1>5, <1>6, <1>8, <1>9, <1>11 DEF Inv

LEMMA ShowStep ==
  ASSUME ReadTypeOK, Inv, ReadTypeOK', ShowLine
  PROVE  Inv'
<1> DEFINE new == [number |-> lineno + 1, line |-> Head(rest)]
<1>1. Position' /\ (~disturbed => lineno' <= Len(source) /\ Head(rest) = source[lineno'])
  BY NextLine DEF Inv, ShowLine
<1>2. /\ rpc = "getline" /\ shown' = Append(shown, new) /\ lineno' = lineno + 1
      /\ lineno + 1 >= offset /\ Len(shown) < limit
      /\ offset' = offset /\ limit' = limit /\ source' = source /\ disturbed' = disturbed
      /\ total' = total + PrefixSize + Size(Head(rest))
      /\ rpc' = IF total' > MaxBytes THEN "broke" ELSE "getline"
  BY DEF ShowLine, GetLine
<1>3. Len(shown) = lineno - offset + 1
  <2>1. CASE lineno >= offset
    BY <1>2, <2>1 DEF Inv, Progress
  <2>2. CASE lineno < offset
    <3>1. shown = <<>> /\ lineno = offset - 1
      BY <1>2, <2>2 DEF Inv, Progress, ReadTypeOK
    <3> QED  BY <3>1 DEF ReadTypeOK
  <2> QED  BY <2>1, <2>2 DEF ReadTypeOK
<1>4. /\ Len(shown') = Len(shown) + 1 /\ shown'[Len(shown')] = new
      /\ \A i \in 1..Len(shown) : shown'[i] = shown[i]
  BY <1>2 DEF ReadTypeOK
<1>5. new.number = lineno + 1 /\ new.line = Head(rest)
  OBVIOUS
<1> HIDE DEF new
<1>6. Len(shown') = lineno' - offset' + 1 /\ lineno' >= offset' /\ Len(shown') <= limit'
  <2>0. lineno \in Nat /\ offset \in Nat /\ Len(shown) \in Nat
    BY DEF ReadTypeOK
  <2>1. Len(shown') = lineno' - offset' + 1
    <3>1. Len(shown') = (lineno - offset + 1) + 1 /\ lineno' = lineno + 1 /\ offset' = offset
      BY <1>2, <1>3, <1>4, Zenon
    <3> QED  BY <2>0, <3>1
  <2>2. lineno' >= offset'
    BY <1>2
  <2>3. Len(shown') <= limit'
    BY <1>2, <1>4 DEF ReadTypeOK
  <2> QED  BY <2>1, <2>2, <2>3
<1>7. \A i \in 1..Len(shown') : shown'[i].number = offset' + i - 1
  <2> SUFFICES ASSUME NEW i \in 1..Len(shown') PROVE shown'[i].number = offset' + i - 1
    OBVIOUS
  <2>1. CASE i \in 1..Len(shown)
    BY <1>2, <1>4, <2>1 DEF Inv, Progress
  <2>2. CASE i = Len(shown')
    BY <1>2, <1>4, <1>5, <1>6, <2>2 DEF ReadTypeOK
  <2> QED  BY <1>4, <2>1, <2>2 DEF ReadTypeOK
<1>8. Progress'
  <2>3. shown' # <<>>
    BY <1>4 DEF ReadTypeOK
  <2>1. total' \in Nat /\ (rpc' = "getline" => total' <= MaxBytes)
    BY <1>2, ReadAssumption DEF ReadTypeOK, ReadAssumption
  <2>2. ~(lineno' < offset')
    BY <1>6 DEF ReadTypeOK
  <2>4. Len(shown') = lineno' - offset' + 1
    BY <1>6
  <2> QED  BY <1>7, <2>1, <2>2, <2>3, <2>4 DEF Progress
<1>9. Faithful'
  <2> SUFFICES ASSUME ~disturbed, NEW i \in 1..Len(shown')
               PROVE  /\ offset + i - 1 <= Len(source)
                      /\ shown'[i] = [number |-> offset + i - 1, line |-> source[offset + i - 1]]
    BY <1>2 DEF Faithful
  <2>1. CASE i \in 1..Len(shown)
    BY <1>2, <1>4, <2>1 DEF Inv, Faithful
  <2>2. CASE i = Len(shown')
    <3>1. offset + i - 1 = lineno'
      BY <1>2, <1>6, <2>2 DEF ReadTypeOK
    <3> QED  BY <1>1, <1>2, <1>4, <2>2, <3>1 DEF new
  <2> QED  BY <1>4, <2>1, <2>2 DEF ReadTypeOK
<1>10. Left'
  BY <1>2 DEF Left, Capped
<1>11. Fresh'
  BY <1>2 DEF Fresh
<1>12. PageBounded'
  <2>1. lineno' <= offset' + limit'
    <3>1. lineno' \in Nat /\ offset' \in Nat /\ limit' \in Nat /\ Len(shown') \in Nat
      BY DEF ReadTypeOK
    <3>2. \A a, b, c, d \in Nat : a = b - c + 1 /\ a <= d => b <= c + d
      OBVIOUS
    <3> QED  BY <1>6, <3>1, <3>2, Zenon
  <2>2. total' <= MaxBytes + PrefixSize + Size(shown'[Len(shown')].line)
    <3>1. total <= MaxBytes /\ total \in Nat
      BY <1>2 DEF Inv, Progress, ReadTypeOK
    <3>2. Size(Head(rest)) \in Nat /\ PrefixSize \in Nat /\ MaxBytes \in Nat
      BY HeadTail, ReadAssumption DEF ShowLine, ReadAssumption
    <3> QED  BY <1>2, <1>4, <1>5, <3>1, <3>2
  <2> QED  BY <1>6, <2>1, <2>2 DEF PageBounded
<1> QED  BY <1>1, <1>8, <1>9, <1>10, <1>11, <1>12 DEF Inv

(* The loop is left at the end of the file, or with an error.              *)
LEMMA EndStep ==
  ASSUME ReadTypeOK, Inv, EndOfFile \/ ReadError
  PROVE  Inv'
<1>1. /\ rpc = "getline" /\ rpc' = "broke"
      /\ offset' = offset /\ limit' = limit /\ source' = source
      /\ rest' = rest /\ lineno' = lineno /\ shown' = shown /\ total' = total
      /\ disturbed' \/ (disturbed' = disturbed /\ rest = <<>>)
  BY Zenon DEF EndOfFile, ReadError, loop
<1>2. Position' /\ Faithful' /\ Fresh'
  BY <1>1 DEF Inv, Position, Faithful, Fresh
<1>3. Progress' /\ PageBounded'
  BY <1>1 DEF Inv, Progress, PageBounded
<1>4. ASSUME ~disturbed' PROVE lineno' = Len(source')
  <2>1. ~disturbed /\ rest = <<>> /\ Len(rest) = 0
    BY <1>1, <1>4
  <2>2. lineno <= Len(source) /\ rest = SubSeq(source, lineno + 1, Len(source))
    BY <1>1, <2>1 DEF Inv, Position
  <2>3. Len(SubSeq(source, lineno + 1, Len(source))) = 0
    BY <2>1, <2>2
  <2> QED  BY <1>1, <2>2, <2>3 DEF ReadTypeOK
<1>5. Left'
  BY <1>4 DEF Left
<1> QED  BY <1>2, <1>3, <1>5 DEF Inv

LEMMA WrittenStep ==
  ASSUME ReadTypeOK, Inv, WrittenInPlace(rest')
  PROVE  Inv'
<1>1. /\ rpc = "getline" /\ rpc' = rpc /\ disturbed'
      /\ offset' = offset /\ limit' = limit /\ source' = source
      /\ lineno' = lineno /\ shown' = shown /\ total' = total
  BY DEF WrittenInPlace
<1>2. Position' /\ Faithful' /\ Fresh' /\ Left'
  BY <1>1 DEF Position, Faithful, Fresh, Left
<1>3. Progress' /\ PageBounded'
  BY <1>1 DEF Inv, Progress, PageBounded
<1> QED  BY <1>2, <1>3 DEF Inv

LEMMA InvStep == ReadTypeOK /\ Inv /\ ReadTypeOK' /\ [ReadNext]_readVars => Inv'
<1> SUFFICES ASSUME ReadTypeOK, Inv, ReadTypeOK', [ReadNext]_readVars PROVE Inv'
  OBVIOUS
<1>0. CASE UNCHANGED readVars
  BY <1>0 DEF readVars, loop, Inv, Fresh, Position, Progress, Faithful, Left, PageBounded, Capped
<1>1. ASSUME ReadBegin(offset', limit') PROVE Inv'
  <2>1. Fresh' /\ rpc' \in {"idle", "fopen"}
    BY <1>1 DEF ReadBegin, loop, Inv, Fresh
  <2> QED  BY <2>1, NotInLoop
<1>2. ASSUME rest' \in Seq(Line), ReadOpen(rest') PROVE Inv'
  BY <1>2, OpenStep
<1>3. ASSUME WrittenInPlace(rest') PROVE Inv'
  BY <1>3, WrittenStep
<1>4. CASE CannotOpen
  BY <1>4, ReturnFresh DEF CannotOpen
<1>5. CASE ReadError \/ EndOfFile
  BY <1>5, EndStep
<1>6. CASE Binary
  BY <1>6, ReturnFresh DEF Binary
<1>7. CASE SkipLine
  BY <1>7, SkipStep
<1>8. CASE PastLimit
  BY <1>8, PastStep
<1>9. CASE ShowLine
  BY <1>9, ShowStep
<1>10. CASE FinishPage
  BY <1>10, ReturnFresh DEF FinishPage
<1> QED  BY <1>0, <1>1, <1>2, <1>3, <1>4, <1>5, <1>6, <1>7, <1>8, <1>9, <1>10
         DEF ReadNext, Loop

(* However the file, the arguments and the faults are, the page and the    *)
(* loop keep their bounds (main.c:576-587).                                *)
THEOREM ReadPageBounded == ReadSpec => []PageBounded
<1>1. ReadInit => ReadTypeOK /\ Inv
  BY ReadTypeInit, InvInit
<1>2. ReadTypeOK /\ Inv /\ [ReadNext]_readVars => (ReadTypeOK /\ Inv)'
  BY ReadTypeStep, InvStep
<1>3. Inv => PageBounded
  BY DEF Inv
<1> QED  BY <1>1, <1>2, <1>3, PTL DEF ReadSpec
-----------------------------------------------------------------------------
(* What holds of an answer stays true of it: only a new call changes the   *)
(* file, the offset or the limit it is about, and it takes the answer back.*)
LEMMA AnswerStays ==
  ASSUME ReadTypeOK, [ReadNext]_readVars, rpc' = "idle"
  PROVE  \/ rpc = "idle" /\ UNCHANGED <<offset, limit, answer, source, disturbed>>
         \/ CannotOpen \/ Binary \/ FinishPage
BY DEF ReadNext, Loop, readVars, ReadBegin, ReadOpen, WrittenInPlace, ReadError, SkipLine,
       PastLimit, ShowLine, EndOfFile, CannotOpen, Binary, FinishPage, GetLine

(* A line with a NUL is a line of the file.                                *)
LEMMA BinaryRight ==
  ASSUME ReadTypeOK, Inv, Binary
  PROVE  PageRight' /\ PagingMissesNothing'
<1>1. /\ rpc = "getline" /\ rest # <<>> /\ HasNul(Head(rest))
      /\ answer' = Says("binary") /\ source' = source /\ disturbed' = disturbed
  BY DEF Binary, GetLine, ReadReturn
<1>2. answer'.kind = "binary"
  BY <1>1 DEF Says
<1>3. ASSUME ~disturbed' PROVE \E i \in 1..Len(source') : HasNul(source'[i])
  <2>1. lineno <= Len(source) /\ rest = SubSeq(source, lineno + 1, Len(source))
    BY <1>1, <1>3 DEF Inv, Position
  <2>2. lineno + 1 \in 1..Len(source) /\ Head(rest) = source[lineno + 1]
    BY <1>1, <2>1 DEF ReadTypeOK
  <2> QED  BY <1>1, <2>2
<1>4. PageRight'
  BY <1>2, <1>3 DEF PageRight
<1>5. PagingMissesNothing'
  BY <1>2 DEF PagingMissesNothing
<1> QED  BY <1>4, <1>5

LEMMA CannotOpenRight ==
  ASSUME CannotOpen
  PROVE  PageRight' /\ PagingMissesNothing'
<1>1. answer'.kind = "cannot open"
  BY DEF CannotOpen, ReadReturn, Says
<1> QED  BY <1>1 DEF PageRight, PagingMissesNothing

(* An answer without lines.                                                *)
LEMMA NothingRight ==
  ASSUME ReadTypeOK, Inv, FinishPage, ~(Len(shown) > 0)
  PROVE  PageRight' /\ PagingMissesNothing'
<1>1. /\ rpc = "broke" /\ answer' = Says(IF lineno = 0 THEN "empty" ELSE "beyond")
      /\ source' = source /\ disturbed' = disturbed /\ offset' = offset
  BY DEF FinishPage, ReadReturn
<1>2. answer'.kind = IF lineno = 0 THEN "empty" ELSE "beyond"
  BY <1>1 DEF Says
<1>3. Len(shown) = 0 /\ limit > 0 /\ Len(shown) # limit
  BY DEF ReadTypeOK
<1>4. shown = <<>> /\ total = 0 /\ lineno < offset
  <2>1. shown = <<>>
    BY <1>3 DEF ReadTypeOK
  <2>2. ~(lineno >= offset)
    BY <1>1, <1>3 DEF Inv, Progress, ReadTypeOK
  <2>3. lineno < offset
    BY <2>2 DEF ReadTypeOK
  <2> QED  BY <2>1, <2>3 DEF Inv, Progress
<1>5. ASSUME ~disturbed PROVE lineno = Len(source)
  BY <1>1, <1>3, <1>4, <1>5, ReadAssumption DEF Inv, Left, Capped, ReadAssumption
<1>6. ASSUME ~disturbed', lineno = 0 PROVE source' = <<>>
  BY <1>1, <1>5, <1>6 DEF ReadTypeOK
<1>7. ASSUME ~disturbed' PROVE Len(source') < offset'
  BY <1>1, <1>4, <1>5, <1>7
<1>8. PageRight'
  BY <1>2, <1>6, <1>7 DEF PageRight
<1>9. PagingMissesNothing'
  BY <1>2 DEF PagingMissesNothing
<1> QED  BY <1>8, <1>9

(* An answer with lines.                                                   *)
LEMMA ShownRight ==
  ASSUME ReadTypeOK, Inv, FinishPage, Len(shown) > 0
  PROVE  PageRight' /\ PagingMissesNothing'
<1> DEFINE n == Len(shown)
<1>1. /\ rpc = "broke" /\ source' = source /\ disturbed' = disturbed /\ offset' = offset
      /\ limit' = limit
      /\ answer' = [kind |-> "page", lines |-> shown, capped |-> Capped, hint |-> Hint]
  BY DEF FinishPage, ReadReturn
<1>2. answer'.kind = "page" /\ answer'.lines = shown /\ answer'.capped = Capped /\ answer'.hint = Hint
  BY <1>1
<1>3. n \in Nat /\ n >= 1 /\ n <= limit /\ offset \in Nat \ {0} /\ limit \in Nat \ {0} /\ lineno \in Nat
  BY DEF Inv, PageBounded, ReadTypeOK
<1>4. /\ n = lineno - offset + 1 \/ (n = lineno - offset /\ n = limit)
      /\ shown[n].number = offset + n - 1
  <2>1. shown # <<>>
    BY <1>3
  <2>2. ~(lineno < offset)
    BY <2>1 DEF Inv, Progress
  <2>3. lineno >= offset
    BY <2>2 DEF ReadTypeOK
  <2>4. n \in 1..Len(shown)
    BY <1>3
  <2> QED  BY <1>1, <2>3, <2>4 DEF Inv, Progress
<1>5. ASSUME ~disturbed
      PROVE  /\ offset + n - 1 <= Len(source) /\ shown = Slice(n)
             /\ lineno <= Len(source)
             /\ (n = limit /\ lineno = offset + limit) \/ lineno = Len(source) \/ Capped
  <2>1. \A i \in 1..n : /\ offset + i - 1 <= Len(source)
                        /\ shown[i] = [number |-> offset + i - 1, line |-> source[offset + i - 1]]
    BY <1>1, <1>5 DEF Inv, Faithful
  <2>2. n \in 1..n
    BY <1>3
  <2>3. offset + n - 1 <= Len(source)
    BY <2>1, <2>2
  <2>4. shown \in Seq(Numbered) /\ shown = [i \in 1..n |-> shown[i]]
    BY DEF ReadTypeOK
  <2>5. [i \in 1..n |-> shown[i]] = Slice(n)
    BY <2>1, Zenon DEF Slice
  <2>6. lineno <= Len(source)
          /\ ((n = limit /\ lineno = offset + limit) \/ lineno = Len(source) \/ Capped)
    BY <1>1, <1>5 DEF Inv, Position, Left
  <2> QED  BY <2>3, <2>4, <2>5, <2>6
<1> HIDE DEF n
<1>6. PageRight'
  <2> SUFFICES ASSUME ~disturbed
               PROVE  /\ n >= 1 /\ n <= limit /\ offset + n - 1 <= Len(source)
                      /\ shown = Slice(n)
                      /\ n = limit \/ offset + n - 1 = Len(source) \/ Capped
    BY <1>1, <1>2 DEF PageRight, Slice, n
  <2>1. n = limit \/ offset + n - 1 = Len(source) \/ Capped
    <3>1. CASE n = limit \/ Capped
      BY <3>1
    <3>2. CASE n # limit /\ lineno = Len(source)
      <4>1. n = lineno - offset + 1
        BY <1>4, <3>2
      <4> QED  BY <1>3, <3>2, <4>1
    <3> QED  BY <1>5, <3>1, <3>2
  <2> QED  BY <1>3, <1>5, <2>1
<1>7. PagingMissesNothing'
  <2> DEFINE last == shown[n].number
  <2> SUFFICES ASSUME ~disturbed
               PROVE  /\ Hint # 0 => Hint \in {last, last + 1}
                      /\ Hint = last => last = Len(source)
                      /\ Hint = 0 /\ ~Capped => last = Len(source)
                      /\ Hint # 0 /\ limit > 1 => Hint > offset
    BY <1>1, <1>2 DEF PagingMissesNothing, n
  <2>1. last = offset + n - 1 /\ last \in Nat \ {0} /\ Len(source) \in Nat
    BY <1>3, <1>4 DEF ReadTypeOK
  <2>2. Hint = IF n = limit /\ ~Capped THEN lineno ELSE 0
    BY DEF Hint, n
  <2> HIDE DEF last
  <2>3. lineno = last \/ (n = limit /\ lineno = last + 1)
    BY <1>3, <1>4, <2>1
  <2>4. CASE n = limit /\ ~Capped
    <3>1. Hint = lineno /\ lineno # 0
      BY <1>3, <2>1, <2>2, <2>3, <2>4
    <3>2. Hint \in {last, last + 1}
      BY <2>3, <3>1
    <3>3. lineno = last => last = Len(source)
      <4>1. lineno = last => lineno # offset + limit
        BY <1>3, <2>1, <2>4
      <4> QED  BY <1>5, <2>4, <4>1
    <3>4. limit > 1 => lineno > offset
      BY <1>3, <2>1, <2>3, <2>4
    <3> QED  BY <3>1, <3>2, <3>3, <3>4
  <2>5. CASE ~(n = limit /\ ~Capped)
    <3>1. Hint = 0 /\ Hint # last
      BY <2>1, <2>2, <2>5
    <3>2. ~Capped => last = Len(source)
      BY <1>5, <2>3, <2>5
    <3> QED  BY <3>1, <3>2
  <2> QED  BY <2>4, <2>5
<1> QED  BY <1>6, <1>7

LEMMA AnswersStep ==
  ReadTypeOK /\ Inv /\ PageRight /\ PagingMissesNothing /\ [ReadNext]_readVars
    => PageRight' /\ PagingMissesNothing'
<1> SUFFICES ASSUME ReadTypeOK, Inv, PageRight, PagingMissesNothing, [ReadNext]_readVars
             PROVE  PageRight' /\ PagingMissesNothing'
  OBVIOUS
<1>1. CASE rpc' # "idle"
  BY <1>1 DEF PageRight, PagingMissesNothing
<1>2. CASE rpc = "idle" /\ UNCHANGED <<offset, limit, answer, source, disturbed>>
  BY <1>2 DEF PageRight, PagingMissesNothing, Slice
<1>3. CASE CannotOpen \/ Binary \/ FinishPage
  BY <1>3, CannotOpenRight, BinaryRight, NothingRight, ShownRight
<1> QED  BY <1>1, <1>2, <1>3, AnswerStays

LEMMA AnswersRight == ReadSpec => [](PageRight /\ PagingMissesNothing)
<1>1. ReadInit => ReadTypeOK /\ Inv /\ PageRight /\ PagingMissesNothing
  <2>1. ReadInit => answer.kind = "none"
    BY DEF ReadInit, Says
  <2>2. answer.kind = "none" => PageRight /\ PagingMissesNothing
    BY DEF PageRight, PagingMissesNothing
  <2> QED  BY <2>1, <2>2, ReadTypeInit, InvInit
<1>2. ReadTypeOK /\ Inv /\ PageRight /\ PagingMissesNothing /\ [ReadNext]_readVars
        => (ReadTypeOK /\ Inv /\ PageRight /\ PagingMissesNothing)'
  BY ReadTypeStep, InvStep, AnswersStep
<1> QED  BY <1>1, <1>2, PTL DEF ReadSpec

(* A page is the lines it says it is, and an excuse is a true one          *)
(* (main.c:569-605).                                                       *)
THEOREM ReadPageRight == ReadSpec => []PageRight
BY AnswersRight, PTL

(* A reader that pages through a file misses no line of it                 *)
(* (main.c:590-601).                                                       *)
THEOREM ReadPagingMissesNothing == ReadSpec => []PagingMissesNothing
BY AnswersRight, PTL

-----------------------------------------------------------------------------
LEMMA ToolsAreEdits == [ToolsNext]_toolsVars => [Next]_vars
<1>1. UNCHANGED toolsVars => UNCHANGED vars
  BY DEF toolsVars
<1>2. EditTool => Next
  BY DEF EditTool, Next
<1>3. ReadTool => UNCHANGED vars
  BY DEF ReadTool
<1>4. OtherPrograms => Next
  BY DEF OtherPrograms, Next
<1> QED BY <1>1, <1>2, <1>3, <1>4 DEF ToolsNext

LEMMA ToolsEdit == ToolsSpec => Spec
<1>1. ToolsInit => Init
  BY DEF ToolsInit
<1> QED  BY <1>1, ToolsAreEdits, PTL DEF ToolsSpec, Spec

(* Beside read_file, other programs and every fault, edit_file changes the *)
(* file in one step, from a content it read to its edited form             *)
(* (main.c:610-692).                                                       *)
THEOREM ToolsKeepPromise == ToolsSpec => KeepsPromise
BY ToolsEdit, EditKeepsPromise

-----------------------------------------------------------------------------
(* What edit_file, and others, do to the file is to a reader of it one of  *)
(* the things ReadFile lets happen.                                        *)
LEMMA LinesOfAre ==
  ASSUME NEW c \in Seq(Chars), \A i, j \in 1..Len(c) : i <= j => SubSeq(c, i, j) \in Line
  PROVE  LinesOf(c) \in Seq(Line)
<1> DEFINE Ends == {i \in 1..Len(c) : c[i] = LF \/ i = Len(c)}
           Before(i) == {0} \cup {j \in Ends : j < i}
           from(i) == Max(Before(i)) + 1
           f == [i \in 1..Len(c) |-> IF i \in Ends THEN <<SubSeq(c, from(i), i)>> ELSE <<>>]
<1>1. Len(c) \in Nat
  OBVIOUS
<1>2. \A i \in 1..Len(c) : SubSeq(c, from(i), i) \in Line
  <2> TAKE i \in 1..Len(c)
  <2>1. i \in Nat /\ i >= 1 /\ i - 1 \in Nat /\ Before(i) \in SUBSET (0..(i - 1)) /\ Before(i) # {}
    BY <1>1
  <2> HIDE DEF Before
  <2>2. Max(Before(i)) \in Before(i)
    <3> DEFINE m == i - 1
    <3>1. m \in Nat /\ Before(i) \in SUBSET (0..m)
      BY <2>1
    <3> HIDE DEF m
    <3> QED BY <2>1, <3>1, MaxOf
  <2>3. from(i) \in 1..i
    BY <2>1, <2>2
  <2> HIDE DEF from
  <2>4. from(i) \in 1..Len(c) /\ from(i) <= i
    BY <1>1, <2>1, <2>3
  <2> QED BY <2>4
<1> HIDE DEF from, Ends
<1>3. f \in Seq(Seq(Line))
  <2>1. \A i \in 1..Len(c) : f[i] \in Seq(Line)
    <3> TAKE i \in 1..Len(c)
    <3> DEFINE l == SubSeq(c, from(i), i)
    <3>1. l \in Line
      BY <1>2
    <3>2. f[i] = IF i \in Ends THEN <<l>> ELSE <<>>
      OBVIOUS
    <3> HIDE DEF l, f
    <3>3. <<l>> \in Seq(Line) /\ <<>> \in Seq(Line)
      BY <3>1
    <3> QED BY <3>2, <3>3
  <2>2. f = [i \in 1..Len(c) |-> f[i]]
    OBVIOUS
  <2> HIDE DEF f
  <2> QED BY <1>1, <2>1, <2>2
<1>4. LinesOf(c) = FlattenSeq(f)
  BY DEF LinesOf, f, from, Before, Ends
<1> HIDE DEF f
<1> QED BY <1>3, <1>4, FlattenType

LEMMA FileLines ==
  ASSUME NEW t \in {"edit_file", "read_file"}, NEW c \in FilesOf(t), c \in Contents,
         NEW k \in 1..(Len(c) + 1)
  PROVE  LinesOf(SubSeq(c, k, Len(c))) \in Seq(Line)
<1> DEFINE N == Len(c)
           s == SubSeq(c, k, N)
           M == Len(s)
<1>1. c \in Seq(Chars) /\ N \in Nat /\ k \in Nat /\ k >= 1 /\ k <= N + 1
  BY DEF Contents
<1>2. s \in Seq(Chars) /\ M = N + 1 - k /\ \A i \in 1..M : s[i] = c[k + i - 1]
  BY <1>1
<1>3. ASSUME NEW i \in 1..M, NEW j \in 1..M, i <= j
      PROVE  SubSeq(s, i, j) \in Line
  <2> DEFINE a == k + i - 1
             b == k + j - 1
             x == SubSeq(s, i, j)
             y == SubSeq(c, a, b)
             len == j - i + 1
  <2>1. a \in 1..N /\ b \in 1..N /\ a <= b /\ M \in Nat /\ len \in Nat /\ b - a + 1 = len
    <3> HIDE DEF N, M
    <3> QED BY <1>1, <1>2, <1>3
  <2>2. y \in Line
    <3>1. \A p, q \in 1..Len(c) : p <= q => SubSeq(c, p, q) \in Line
      BY ToolsAssumption
    <3> HIDE DEF a, b
    <3> QED BY <2>1, <3>1
  <2>3. x \in Seq(Chars) /\ Len(x) = len /\ \A h \in 1..len : x[h] = s[i + h - 1]
    <3> HIDE DEF s
    <3> QED BY <1>2, <1>3, <2>1
  <2>4. y \in Seq(Chars) /\ Len(y) = len /\ \A h \in 1..len : y[h] = c[a + h - 1]
    <3> HIDE DEF a, b
    <3> QED BY <1>1, <2>1
  <2>5. \A h \in 1..len : x[h] = y[h]
    <3> TAKE h \in 1..len
    <3> DEFINE g == i + h - 1
    <3>1. g \in 1..M /\ k + g - 1 = a + h - 1
      <4>1. M \in Nat /\ k \in Nat /\ i \in 1..M /\ j \in 1..M /\ h \in 1..(j - i + 1)
        BY <1>1, <1>3, <2>1
      <4> HIDE DEF M
      <4> QED BY ONLY <4>1
    <3> HIDE DEF s, M, x, y, a
    <3>2. s[g] = c[a + h - 1]
      <4>1. s[g] = c[k + g - 1]
        <5> HIDE DEF g
        <5> QED BY <1>2, <3>1
      <4> QED BY <3>1, <4>1
    <3> QED BY <2>3, <2>4, <3>2
  <2> HIDE DEF x, y, len
  <2>6. x = [h \in 1..len |-> x[h]] /\ y = [h \in 1..len |-> y[h]]
    BY <2>3, <2>4
  <2>7. x = y
    BY <2>5, <2>6
  <2> QED BY <2>2, <2>7 DEF x
<1> HIDE DEF s
<1> QED BY <1>2, <1>3, LinesOfAre DEF s

ToolInv ==
  /\ TypeOK /\ tool \in {"edit_file", "read_file"}
  /\ tool = "read_file" => file \in FilesOf(tool) \cup {NoFile}

LEMMA ToolInvInit == ToolsInit => ToolInv
<1> SUFFICES ASSUME ToolsInit PROVE ToolInv
  OBVIOUS
<1>1. TypeOK
  BY TypeInit DEF ToolsInit
<1> QED BY <1>1 DEF ToolsInit, ToolInv

LEMMA ToolInvStep == ToolInv /\ [ToolsNext]_toolsVars => ToolInv'
<1> SUFFICES ASSUME ToolInv, [ToolsNext]_toolsVars PROVE ToolInv'
  OBVIOUS
<1>1. TypeOK'
  BY ToolsAreEdits, TypeStep DEF ToolInv
<1>2. tool' = tool
  BY DEF ToolsNext, EditTool, ReadTool, OtherPrograms, toolsVars
<1>3. tool = "read_file" => file' \in FilesOf(tool) \cup {NoFile}
  <2> SUFFICES ASSUME tool = "read_file" PROVE file' \in FilesOf(tool) \cup {NoFile}
    OBVIOUS
  <2>1. file' = file \/ file' \in FilesOf(tool)
    BY DEF ToolsNext, EditTool, ReadTool, OtherPrograms, toolsVars, vars
  <2> QED BY <2>1 DEF ToolInv
<1> QED BY <1>1, <1>2, <1>3 DEF ToolInv

LEMMA ReadToolStep ==
  ASSUME ToolInv, tool = "read_file", read_file_tool
  PROVE  ReadNext
<1>1. ASSUME NEW o \in Offsets, NEW l \in Limits, ReadBegin(o, l)
      PROVE  offset' \in Nat \ {0} /\ limit' \in Nat \ {0} /\ ReadBegin(offset', limit')
  <2>1. o \in Int /\ l \in Int /\ DefaultLimit \in Nat \ {0}
    BY ToolsAssumption, ReadAssumption
  <2>2. offset' = (IF o < 1 THEN 1 ELSE o) /\ limit' = IF l <= 0 THEN DefaultLimit ELSE l
    BY <1>1 DEF ReadBegin
  <2>3. offset' \in Nat \ {0} /\ limit' \in Nat \ {0}
    BY ONLY <2>1, <2>2
  <2>4. offset' = (IF offset' < 1 THEN 1 ELSE offset') /\ limit' = IF limit' <= 0 THEN DefaultLimit ELSE limit'
    BY ONLY <2>3
  <2> QED BY <1>1, <2>3, <2>4 DEF ReadBegin
<1>2. ASSUME file # NoFile, ReadOpen(LinesOf(file))
      PROVE  rest' \in Seq(Line) /\ ReadOpen(rest')
  <2>1. file \in FilesOf("read_file") /\ file \in Contents
    BY <1>2 DEF ToolInv, TypeOK
  <2>2. Len(file) \in Nat /\ 1 \in 1..(Len(file) + 1) /\ SubSeq(file, 1, Len(file)) = file
    BY <2>1 DEF Contents
  <2>3. LinesOf(SubSeq(file, 1, Len(file))) \in Seq(Line)
    BY <2>1, <2>2, FileLines
  <2>4. rest' = LinesOf(file)
    BY <1>2 DEF ReadOpen
  <2> QED BY <1>2, <2>2, <2>3, <2>4
<1> QED BY <1>1, <1>2 DEF read_file_tool, ReadNext

LEMMA OtherProgramsStep ==
  ASSUME ToolInv, OtherPrograms
  PROVE  ReadNext \/ UNCHANGED readVars
<1>1. CASE UNCHANGED readVars
  BY <1>1
<1>2. CASE \E k \in 1..(Len(file') + 1) : WrittenInPlace(LinesOf(SubSeq(file', k, Len(file'))))
  <2>1. PICK k \in 1..(Len(file') + 1) : WrittenInPlace(LinesOf(SubSeq(file', k, Len(file'))))
    BY <1>2
  <2>2. file' \in FilesOf(tool) /\ file' \in Contents /\ tool \in {"edit_file", "read_file"}
    BY EditAssumption DEF OtherPrograms, Outside, ToolInv
  <2>3. LinesOf(SubSeq(file', k, Len(file'))) \in Seq(Line)
    BY <2>2, FileLines
  <2>4. rest' = LinesOf(SubSeq(file', k, Len(file')))
    BY <2>1 DEF WrittenInPlace
  <2> QED BY <2>1, <2>3, <2>4 DEF ReadNext
<1> QED BY <1>1, <1>2 DEF OtherPrograms

(* Whatever edit_file and other programs do to the file meanwhile, a       *)
(* reader of it is one of ReadFile (main.c:553-606).                       *)
THEOREM ToolsReaderAlone == ToolsSpec => ReaderAlone
<1>1. ToolsInit => ReadInit
  BY DEF ToolsInit
<1>2. ToolInv /\ [ToolsNext]_toolsVars => [ReadNext]_readVars
  <2> SUFFICES ASSUME ToolInv, [ToolsNext]_toolsVars PROVE ReadNext \/ UNCHANGED readVars
    OBVIOUS
  <2>1. CASE UNCHANGED toolsVars
    BY <2>1 DEF toolsVars
  <2>2. CASE EditTool
    BY <2>2 DEF EditTool
  <2>3. CASE ReadTool
    BY <2>3, ReadToolStep DEF ReadTool
  <2>4. CASE OtherPrograms
    BY <2>4, OtherProgramsStep
  <2> QED BY <2>1, <2>2, <2>3, <2>4 DEF ToolsNext
<1> QED BY <1>1, <1>2, ToolInvInit, ToolInvStep, PTL DEF ToolsSpec, ReaderAlone, ReadSpec

(* The two tools keep their variables within type beside each other        *)
(* (main.c:553-606, 610-692).                                              *)
THEOREM ToolsTypeCorrect == ToolsSpec => []ToolsTypeOK
<1>1. ReaderAlone => []ReadTypeOK
  BY ReadTypeCorrect, PTL DEF ReaderAlone
<1>2. Spec => []TypeOK
  BY EditTypeCorrect
<1> QED BY <1>1, <1>2, ToolsEdit, ToolsReaderAlone, PTL DEF ToolsTypeOK

(* Also with edits and other programs about, a page is the slice of the    *)
(* file it was asked for, the hints miss no line and the page has its      *)
(* bound (main.c:569-605).                                                 *)
THEOREM ToolsPagesRight == ToolsSpec => [](PageRight /\ PagingMissesNothing /\ PageBounded)
<1>1. ReaderAlone => [](PageRight /\ PagingMissesNothing) /\ []PageBounded
  BY AnswersRight, ReadPageBounded, PTL DEF ReaderAlone
<1> QED BY <1>1, ToolsReaderAlone, PTL
=============================================================================
