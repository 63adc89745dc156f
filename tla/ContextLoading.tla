--------------------------- MODULE ContextLoading ---------------------------
(***************************************************************************)
(* What main gathers for the system prompt before the first turn: skills   *)
(* and rules of the project, then of the user, from directories that are   *)
(* read in no order, into two tables of fixed size.                        *)
(*                                                                         *)
(* A line of a file is what one fgets or one strchr finds: whether it is   *)
(* indented, the key before its colon (or the dash of an item) and the     *)
(* rest.  The lengths of names and values are left out.                    *)
(***************************************************************************)
EXTENDS Integers, Sequences, FiniteSets, SequencesExt

CONSTANTS
  MaxSkills, MaxRules, MaxRulePaths,
  Layouts,       (* What the four directories may hold.                    *)
  Globs          (* The globs of rules.                                    *)

ASSUME CapsAssumption ==
  MaxSkills \in Nat \ {0} /\ MaxRules \in Nat \ {0} /\ MaxRulePaths \in Nat \ {0}

Line == [indent : BOOLEAN, key : STRING, val : STRING]

ASSUME LayoutsAssumption ==
  \A layout \in Layouts :
    \A d \in {"./skills", "./rules", "~/skills", "~/rules"} :
      \A e \in layout[d] : e.doc \in Seq(Line)

VARIABLES
  dirs,          (* The entries of each directory.                         *)
  home,          (* Whether HOME is set.                                   *)
  matches,       (* The globs find finds a file for.                       *)
  stage, todo,   (* The directory that is read, and what is left of it.    *)
  skills, rules, (* The tables, of entries and where they come from.       *)
  warned,
  prompt         (* The rules and skills of the system prompt.             *)

files  == <<dirs, home, matches>>
tables == <<skills, rules, warned>>
vars   == <<files, stage, todo, tables, prompt>>

(* Mutant: the user's directories come first.                              *)
Order_UserFirst == <<"~/skills", "~/rules", "./skills", "./rules">>

Order == <<"./skills", "./rules", "~/skills", "~/rules">>

SkillDirs == {"./skills", "~/skills"}
RuleDirs  == {"./rules", "~/rules"}

Gather == 5
Done   == 6

Readable(d) == d \in {"./skills", "./rules"} \/ home

Mark(line)  == line.key = "---"
Blank(line) == line.key = "" /\ line.val = ""

-----------------------------------------------------------------------------
(* parse_frontmatter.                                                      *)

Piece(line, fold) == [sep |-> IF fold THEN " " ELSE "\n", key |-> line.key, val |-> line.val]

Plain(val) == IF val = "" THEN <<>> ELSE <<[sep |-> "", key |-> "", val |-> val]>>

append_fold(dst, piece) ==
  Append(dst, IF dst = <<>> THEN [piece EXCEPT !.sep = ""] ELSE piece)

SkillStart ==
  [in_fm |-> FALSE, done |-> FALSE, cont |-> "", fold |-> TRUE, name |-> <<>>, description |-> <<>>]

ReadPair(s, line) ==
  IF line.val \in {">", "|"}
  THEN [s EXCEPT ![line.key] = <<>>, !.cont = line.key, !.fold = (line.val = ">")]
  ELSE [s EXCEPT ![line.key] = Plain(line.val), !.cont = ""]

(* Mutant: a key of no interest leaves the block before it open.           *)
ReadSkillLine_Open(s, line) ==
  IF s.done THEN s
  ELSE IF ~s.in_fm THEN [s EXCEPT !.in_fm = Mark(line), !.done = ~Mark(line) /\ ~Blank(line)]
  ELSE IF Mark(line) THEN [s EXCEPT !.done = TRUE]
  ELSE IF s.cont # "" /\ line.indent
       THEN IF Blank(line) THEN s ELSE [s EXCEPT ![s.cont] = append_fold(@, Piece(line, s.fold))]
  ELSE IF line.key \in {"name", "description"} THEN ReadPair(s, line)
  ELSE s

ReadSkillLine(s, line) ==
  IF s.done THEN s
  ELSE IF ~s.in_fm THEN [s EXCEPT !.in_fm = Mark(line), !.done = ~Mark(line) /\ ~Blank(line)]
  ELSE IF Mark(line) THEN [s EXCEPT !.done = TRUE]
  ELSE IF s.cont # "" /\ line.indent
       THEN IF Blank(line) THEN s ELSE [s EXCEPT ![s.cont] = append_fold(@, Piece(line, s.fold))]
  ELSE IF line.key \in {"name", "description"} THEN ReadPair(s, line)
  ELSE [s EXCEPT !.cont = ""]

parse_frontmatter(doc) ==
  LET state[i \in 0..Len(doc)] ==
        IF i = 0 THEN SkillStart ELSE ReadSkillLine(state[i - 1], doc[i])
  IN  state[Len(doc)]

IsSkill(e) == e.form \in {"md", "dir"} /\ parse_frontmatter(e.doc).name # <<>>

-----------------------------------------------------------------------------
(* parse_rule: the first line counts for what it begins with.              *)

HasFrontmatter(doc) == doc # <<>> /\ Mark(doc[1]) /\ ~doc[1].indent

(* Mutant: the next key does not end the list.                             *)
ReadRuleLine_Sticky(s, line) ==
  IF s.done THEN s
  ELSE IF ~line.indent
       THEN IF Mark(line) THEN [s EXCEPT !.done = TRUE] ELSE [s EXCEPT !.in_paths = @ \/ line.key = "paths"]
  ELSE IF s.in_paths /\ line.key = "-" /\ line.val # "" /\ Len(s.paths) < MaxRulePaths
       THEN [s EXCEPT !.paths = Append(@, line.val)]
  ELSE s

ReadRuleLine(s, line) ==
  IF s.done THEN s
  ELSE IF ~line.indent
       THEN IF Mark(line) THEN [s EXCEPT !.done = TRUE] ELSE [s EXCEPT !.in_paths = (line.key = "paths")]
  ELSE IF s.in_paths /\ line.key = "-" /\ line.val # "" /\ Len(s.paths) < MaxRulePaths
       THEN [s EXCEPT !.paths = Append(@, line.val)]
  ELSE s

RuleStart == [done |-> FALSE, in_paths |-> FALSE, paths |-> <<>>]

parse_rule(doc) ==
  LET state[i \in 1..Len(doc)] ==
        IF i = 1 THEN RuleStart ELSE ReadRuleLine(state[i - 1], doc[i])
  IN  IF HasFrontmatter(doc) THEN state[Len(doc)].paths ELSE <<>>

IsRule(e) == e.form = "md"

(* A popen that fails is a glob without a match.                           *)
rule_applies(r) ==
  LET paths == parse_rule(r.entry.doc)
  IN  paths = <<>> \/ \E i \in DOMAIN paths : paths[i] \in matches

-----------------------------------------------------------------------------
Init ==
  /\ dirs \in Layouts /\ home \in BOOLEAN /\ matches \in SUBSET Globs
  /\ stage = 1 /\ todo = IF Readable(Order[1]) THEN dirs[Order[1]] ELSE {}
  /\ skills = <<>> /\ rules = <<>> /\ warned = FALSE
  /\ prompt = [rules |-> <<>>, skills |-> <<>>]

Found(e) == [entry |-> e, from |-> Order[stage]]

In(ds) == stage < Gather /\ Order[stage] \in ds

(* Mutant: the cap is one too high.                                        *)
SkillEntry_OffByOne(e) ==
  /\ In(SkillDirs) /\ Len(skills) <= MaxSkills
  /\ todo' = todo \ {e}
  /\ skills' = IF IsSkill(e) THEN Append(skills, Found(e)) ELSE skills
  /\ UNCHANGED <<rules, warned>>

(* The next entry of a directory of skills.                                *)
SkillEntry(e) ==
  /\ In(SkillDirs) /\ Len(skills) < MaxSkills
  /\ todo' = todo \ {e}
  /\ skills' = IF IsSkill(e) THEN Append(skills, Found(e)) ELSE skills
  /\ UNCHANGED <<rules, warned>>

(* Mutant: nobody is told.                                                 *)
SkillCap_Silent ==
  /\ In(SkillDirs) /\ Len(skills) >= MaxSkills
  /\ todo' = {} /\ UNCHANGED tables

SkillCap ==
  /\ In(SkillDirs) /\ Len(skills) >= MaxSkills
  /\ warned' = TRUE /\ todo' = {} /\ UNCHANGED <<skills, rules>>

RuleEntry(e) ==
  /\ In(RuleDirs) /\ Len(rules) < MaxRules
  /\ todo' = todo \ {e}
  /\ rules' = IF IsRule(e) THEN Append(rules, Found(e)) ELSE rules
  /\ UNCHANGED <<skills, warned>>

RuleCap ==
  /\ In(RuleDirs) /\ Len(rules) >= MaxRules
  /\ todo' = {} /\ UNCHANGED tables

Scan ==
  /\ \E e \in todo : SkillEntry(e) \/ SkillCap \/ RuleEntry(e) \/ RuleCap
  /\ UNCHANGED <<files, stage, prompt>>

(* The next directory, if there is one.                                    *)
NextDirectory ==
  /\ stage < Gather /\ todo = {}
  /\ stage' = stage + 1
  /\ todo' = IF stage' < Gather /\ Readable(Order[stage']) THEN dirs[Order[stage']] ELSE {}
  /\ UNCHANGED <<files, tables, prompt>>

applying == FlattenSeq([i \in DOMAIN rules |-> IF rule_applies(rules[i]) THEN <<rules[i]>> ELSE <<>>])

build_system_prompt ==
  /\ stage = Gather /\ stage' = Done
  /\ prompt' = [rules |-> applying, skills |-> skills]
  /\ UNCHANGED <<files, todo, tables>>

Next == Scan \/ NextDirectory \/ build_system_prompt

Spec == Init /\ [][Next]_vars

-----------------------------------------------------------------------------
(* What a reader of YAML makes of the files: a key is in the first column, *)
(* the block behind it goes on to the next line in the first column.       *)

Between(doc, opening, closing) ==
  SubSeq(doc, opening + 1, IF closing = 0 THEN Len(doc) ELSE closing - 1)

(* The marks of a skill may be indented, those of a rule may not.          *)
Body(doc) ==
  LET opening == SelectInSeq(doc, LAMBDA line : ~Blank(line))
  IN  IF opening = 0 \/ ~Mark(doc[opening]) THEN <<>>
      ELSE Between(doc, opening, SelectInSubSeq(doc, opening + 1, Len(doc), Mark))

RuleBody(doc) ==
  IF HasFrontmatter(doc)
  THEN Between(doc, 1, SelectInSubSeq(doc, 2, Len(doc), LAMBDA line : Mark(line) /\ ~line.indent))
  ELSE <<>>

(* The line in the first column that line i of a body belongs to.          *)
Above(body, i) == SelectLastInSubSeq(body, 1, i, LAMBDA line : ~line.indent /\ ~Blank(line))

(* To the parsers an empty line ends what is above it.                     *)
Adjoins(body, i) == \A g \in (Above(body, i) + 1)..i : body[g].indent

IsBlock(line) == line.val \in {">", "|"}

(* Files the parser is made for: a key at most once, and of the indented   *)
(* lines those of blocks only, or such as belong to other keys; no empty   *)
(* line within a block.                                                    *)
Simple(doc) ==
  LET body == Body(doc)
  IN  /\ \A i, j \in DOMAIN body :
           i # j /\ ~body[i].indent /\ ~body[j].indent /\ ~Blank(body[i]) => body[i].key # body[j].key
      /\ \A i \in DOMAIN body : body[i].indent /\ ~Blank(body[i]) =>
           LET h == Above(body, i)
           IN  /\ h # 0 /\ Adjoins(body, i)
               /\ \/ body[h].key \in {"name", "description"} /\ IsBlock(body[h])
                  \/ {body[h].key, body[i].key} \cap {"name", "description"} = {}

(* The lines of the block that line h opens.                               *)
BlockOf(body, h) == {i \in DOMAIN body : Above(body, i) = h /\ i # h /\ ~Blank(body[i])}

(* What line i of a body adds to that block: nothing separates the first.  *)
BlockPiece(body, h, i) ==
  IF i \notin BlockOf(body, h) THEN <<>>
  ELSE <<[Piece(body[i], body[h].val = ">") EXCEPT
            !.sep = IF \E j \in BlockOf(body, h) : j < i THEN @ ELSE ""]>>

Written(doc, key) ==
  LET body == Body(doc)
      h    == SelectInSeq(body, LAMBDA line : ~line.indent /\ line.key = key)
  IN  IF h = 0 THEN <<>>
      ELSE IF ~IsBlock(body[h]) THEN Plain(body[h].val)
      ELSE FlattenSeq([i \in DOMAIN body |-> BlockPiece(body, h, i)])

(* The lines of globs a rule is meant to have: indented items right under  *)
(* a line "paths", with nothing in the first column between.               *)
GlobLines(body) ==
  {i \in DOMAIN body : /\ body[i].indent /\ body[i].key = "-" /\ body[i].val # ""
                       /\ Above(body, i) # 0 /\ body[Above(body, i)].key = "paths"
                       /\ Adjoins(body, i)}

(* As many of them as a rule has room for.                                 *)
GlobsKept(body) ==
  {i \in GlobLines(body) : Cardinality({j \in GlobLines(body) : j < i}) < MaxRulePaths}

GlobsListed(doc) == {RuleBody(doc)[i].val : i \in GlobsKept(RuleBody(doc))}

-----------------------------------------------------------------------------
(* The caps hold, and the tables have what the directories have.           *)
ContextTypeOK ==
  /\ stage \in 1..Done /\ warned \in BOOLEAN
  /\ Len(skills) <= MaxSkills /\ Len(rules) <= MaxRules
  /\ \A i \in DOMAIN skills : skills[i].from \in SkillDirs /\ skills[i].entry \in dirs[skills[i].from]
  /\ \A i \in DOMAIN rules : rules[i].from \in RuleDirs /\ rules[i].entry \in dirs[rules[i].from]

Has(table, d, e) == \E i \in DOMAIN table : table[i] = [entry |-> e, from |-> d]

(* In whatever order the directories are read, no skill or rule of the     *)
(* project gives way to one of the user (main.c:1232-1241): if one is left *)
(* out for the cap, none of the user's has come in.                        *)
ProjectFirst ==
  stage >= Gather =>
    /\ \A e \in dirs["./skills"] : IsSkill(e) /\ ~Has(skills, "./skills", e) =>
         \A i \in DOMAIN skills : skills[i].from = "./skills"
    /\ \A e \in dirs["./rules"] : IsRule(e) /\ ~Has(rules, "./rules", e) =>
         \A i \in DOMAIN rules : rules[i].from = "./rules"

(* The name and the description of a skill are the ones written in its     *)
(* file, blocks and all (main.c:777-815).                                  *)
SkillsAsWritten ==
  \A i \in DOMAIN skills :
    LET doc == skills[i].entry.doc
    IN  Simple(doc) => /\ parse_frontmatter(doc).name = Written(doc, "name")
                       /\ parse_frontmatter(doc).description = Written(doc, "description")

(* A skill with a name is in the prompt, or the table is full and the user *)
(* has been told (main.c:825-829).                                         *)
NoSkillMissed ==
  stage = Done =>
    \A d \in SkillDirs : Readable(d) => \A e \in dirs[d] :
      e.form \in {"md", "dir"} /\ Simple(e.doc) /\ Written(e.doc, "name") # <<>> =>
        Has(prompt.skills, d, e) \/ (warned /\ Len(skills) = MaxSkills)

(* Any rule is in the prompt exactly if no glob is listed in it or one of  *)
(* those listed, wherever it is in the list, has a match (main.c:901-952). *)
(* Listed are indented items under "paths", up to the cap; globs in        *)
(* another form (items in the first column or after an empty line, the     *)
(* `paths: [glob]` of README.md:54) do not count, and a rule with only     *)
(* such globs is in every prompt, whatever README.md:54 says of it.        *)
RuleScoped ==
  stage = Done =>
    \A i \in DOMAIN rules :
      LET doc == rules[i].entry.doc
      IN  Has(prompt.rules, rules[i].from, rules[i].entry)
            <=> (GlobsListed(doc) = {} \/ GlobsListed(doc) \cap matches # {})
=============================================================================
