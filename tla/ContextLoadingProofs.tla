------------------------- MODULE ContextLoadingProofs -------------------------
(***************************************************************************)
(* The caps, the precedence of the project, both parsers and the prompt,   *)
(* for every size of the tables, every file and every order of reading.    *)
(***************************************************************************)
EXTENDS ContextLoading, InductionProofs, TLAPS

(* What the tables are made of.                                            *)
Rows(ds) == UNION {{[entry |-> e, from |-> d] : e \in dirs[d]} : d \in ds}

AllFrom(table, d) == \A i \in DOMAIN table : table[i].from = d

(* What is left of the directory, while it is read.                        *)
Left(n) == IF stage = n THEN todo ELSE {}

SkillsSettled ==
  \/ \A e \in dirs["./skills"] \ Left(1) : IsSkill(e) => Has(skills, "./skills", e)
  \/ Len(skills) >= MaxSkills /\ AllFrom(skills, "./skills")

RulesSettled ==
  \/ \A e \in dirs["./rules"] \ Left(2) : IsRule(e) => Has(rules, "./rules", e)
  \/ Len(rules) >= MaxRules /\ AllFrom(rules, "./rules")

TablesOK ==
  /\ skills \in Seq(Rows(SkillDirs)) /\ Len(skills) <= MaxSkills
  /\ rules \in Seq(Rows(RuleDirs)) /\ Len(rules) <= MaxRules

(* The inductive invariant: until the user's directories are opened the    *)
(* tables are the project's, and what the project has is in, or there is   *)
(* no room for anything else.                                              *)
LoadInv ==
  /\ stage \in 1..Done /\ warned \in BOOLEAN
  /\ todo \subseteq (IF stage < Gather THEN dirs[Order[stage]] ELSE {})
  /\ TablesOK
  /\ stage <= 2 => AllFrom(skills, "./skills")
  /\ stage <= 3 => AllFrom(rules, "./rules")
  /\ stage = 1 => rules = <<>>
  /\ stage >= 1 => SkillsSettled
  /\ stage >= 2 => RulesSettled

-----------------------------------------------------------------------------
(* A row is added behind the others, which stay.                           *)
LEMMA RowAdded ==
  ASSUME NEW S, NEW t \in Seq(S), NEW x \in S
  PROVE  /\ Append(t, x) \in Seq(S) /\ Len(t) \in Nat /\ Len(Append(t, x)) = Len(t) + 1
         /\ DOMAIN t = 1..Len(t) /\ DOMAIN Append(t, x) = 1..(Len(t) + 1)
         /\ \A i \in DOMAIN t : Append(t, x)[i] = t[i]
         /\ Append(t, x)[Len(t) + 1] = x
OBVIOUS

(* Which directory a stage reads.                                          *)
LEMMA OrderIs ==
  /\ Order[1] = "./skills" /\ Order[2] = "./rules"
  /\ Order[3] = "~/skills" /\ Order[4] = "~/rules"
BY DEF Order

LEMMA StagesAre ==
  ASSUME NEW n \in 1..Done, n < Gather
  PROVE  n \in {1, 2, 3, 4}
BY DEF Done, Gather

(* A row of a set of directories names one of them and an entry of it.     *)
LEMMA RowIs ==
  ASSUME NEW ds, NEW r \in Rows(ds)
  PROVE  r.from \in ds /\ r.entry \in dirs[r.from]
BY DEF Rows

LEMMA RowOf ==
  ASSUME NEW ds, NEW d \in ds, NEW e \in dirs[d]
  PROVE  [entry |-> e, from |-> d] \in Rows(ds)
BY DEF Rows

(* A table that grows by a row has what it had and the row.                *)
LEMMA HasGrows ==
  ASSUME NEW S, NEW t \in Seq(S), NEW d, NEW e, [entry |-> e, from |-> d] \in S
  PROVE  /\ Has(Append(t, [entry |-> e, from |-> d]), d, e)
         /\ \A b, f : Has(t, b, f) => Has(Append(t, [entry |-> e, from |-> d]), b, f)
         /\ AllFrom(t, d) => AllFrom(Append(t, [entry |-> e, from |-> d]), d)
<1> DEFINE x == [entry |-> e, from |-> d]
           u == Append(t, x)
<1>1. /\ Len(t) \in Nat /\ DOMAIN t = 1..Len(t) /\ DOMAIN u = 1..(Len(t) + 1)
      /\ \A i \in DOMAIN t : u[i] = t[i]
      /\ u[Len(t) + 1] = x
  BY RowAdded
<1>2. Len(t) + 1 \in DOMAIN u /\ DOMAIN t \subseteq DOMAIN u
  BY <1>1
<1>3. \A i \in DOMAIN u : i \in DOMAIN t \/ i = Len(t) + 1
  BY <1>1
<1> HIDE DEF u
<1>4. Has(u, d, e)
  BY <1>1, <1>2 DEF Has
<1>5. \A b, f : Has(t, b, f) => Has(u, b, f)
  BY <1>1, <1>2 DEF Has
<1>6. AllFrom(t, d) => AllFrom(u, d)
  BY <1>1, <1>3 DEF AllFrom
<1> QED BY <1>4, <1>5, <1>6 DEF u

LEMMA InitLoads == Init => LoadInv
<1> SUFFICES ASSUME Init PROVE LoadInv
  OBVIOUS
<1>1. stage = 1 /\ skills = <<>> /\ rules = <<>> /\ warned = FALSE
  BY DEF Init
<1>2. todo \subseteq dirs["./skills"] /\ (todo = {} \/ todo = dirs["./skills"])
  BY OrderIs DEF Init
<1>3. TablesOK
  <2>1. <<>> \in Seq(Rows(SkillDirs)) /\ <<>> \in Seq(Rows(RuleDirs)) /\ Len(<<>>) = 0
    OBVIOUS
  <2> QED BY <1>1, <2>1, CapsAssumption DEF TablesOK
<1>4. AllFrom(skills, "./skills") /\ AllFrom(rules, "./rules")
  BY <1>1 DEF AllFrom
<1>5. todo = dirs["./skills"]
  BY OrderIs DEF Init, Readable
<1>6. SkillsSettled
  BY <1>1, <1>5 DEF SkillsSettled, Left
<1>7. todo \subseteq (IF stage < Gather THEN dirs[Order[stage]] ELSE {})
  BY <1>1, <1>2, OrderIs DEF Gather
<1>8. stage \in 1..Done /\ ~(stage >= 2)
  <2>1. stage = 1
    BY <1>1
  <2> QED BY <2>1 DEF Done
<1>9. warned \in BOOLEAN
  BY <1>1
<1> QED BY <1>1, <1>3, <1>4, <1>6, <1>7, <1>8, <1>9 DEF LoadInv

-----------------------------------------------------------------------------
(* Which stages read skills, and which rules.                              *)
LEMMA SkillStage == ASSUME LoadInv, In(SkillDirs)
                    PROVE  stage \in {1, 3} /\ Order[stage] \in SkillDirs
<1>1. stage \in {1, 2, 3, 4} /\ Order[stage] \in SkillDirs
  BY StagesAre DEF LoadInv, In
<1> QED BY <1>1, OrderIs DEF SkillDirs

LEMMA RuleStage == ASSUME LoadInv, In(RuleDirs)
                   PROVE  stage \in {2, 4} /\ Order[stage] \in RuleDirs
<1>1. stage \in {1, 2, 3, 4} /\ Order[stage] \in RuleDirs
  BY StagesAre DEF LoadInv, In
<1> QED BY <1>1, OrderIs DEF RuleDirs

LEMMA EntryIsThere == ASSUME LoadInv, stage < Gather, NEW e \in todo
                      PROVE  e \in dirs[Order[stage]]
BY DEF LoadInv

LEMMA SkillEntryKeeps ==
  ASSUME LoadInv, NEW e \in todo, SkillEntry(e), UNCHANGED <<files, stage, prompt>>
  PROVE  LoadInv'
<1>1. stage \in {1, 3} /\ Order[stage] \in SkillDirs /\ stage < Gather
  BY SkillStage DEF SkillEntry, In
<1>2. e \in dirs[Order[stage]] /\ Found(e) = [entry |-> e, from |-> Order[stage]]
  BY <1>1, EntryIsThere DEF Found
<1>3. Found(e) \in Rows(SkillDirs)
  BY <1>1, <1>2, RowOf
<1>4. /\ stage' = stage /\ dirs' = dirs /\ rules' = rules /\ warned' = warned
      /\ todo' = todo \ {e}
      /\ skills' = IF IsSkill(e) THEN Append(skills, Found(e)) ELSE skills
      /\ Len(skills) < MaxSkills
  BY DEF SkillEntry, files
<1>5. skills \in Seq(Rows(SkillDirs)) /\ Rows(SkillDirs)' = Rows(SkillDirs)
      /\ Rows(RuleDirs)' = Rows(RuleDirs)
  BY <1>4 DEF LoadInv, TablesOK, Rows
<1>6. TablesOK'
  <2>1. skills' \in Seq(Rows(SkillDirs)) /\ Len(skills') <= MaxSkills
    BY <1>3, <1>4, <1>5, RowAdded, CapsAssumption
  <2> QED BY <1>4, <1>5, <2>1 DEF LoadInv, TablesOK
<1>7. /\ IsSkill(e) => Has(skills', Order[stage], e)
      /\ \A d, f : Has(skills, d, f) => Has(skills', d, f)
      /\ AllFrom(skills, Order[stage]) => AllFrom(skills', Order[stage])
  BY <1>2, <1>3, <1>4, <1>5, HasGrows
<1>8. (stage <= 2 => AllFrom(skills, "./skills"))'
  BY <1>1, <1>4, <1>7, OrderIs DEF LoadInv
<1>9. SkillsSettled'
  <2>1. \A f \in dirs["./skills"] \ Left(1) : IsSkill(f) => Has(skills, "./skills", f)
    <3>1. ~(Len(skills) >= MaxSkills)
      BY <1>4, <1>5, CapsAssumption
    <3> QED BY <3>1 DEF LoadInv, SkillsSettled, Left
  <2>2. ASSUME NEW f \in dirs["./skills"] \ Left(1)', IsSkill(f)
        PROVE  Has(skills', "./skills", f)
    <3>1. CASE stage = 1 /\ f = e
      BY <1>4, <1>7, <2>2, <3>1, OrderIs
    <3>2. CASE ~(stage = 1 /\ f = e)
      <4>1. f \notin Left(1)
        BY <1>4, <2>2, <3>2 DEF Left
      <4> QED BY <1>7, <2>1, <2>2, <4>1
    <3> QED BY <3>1, <3>2
  <2>3. IsSkill(e)' = IsSkill(e) /\ dirs' = dirs
    BY <1>4
  <2> QED BY <1>4, <2>2 DEF SkillsSettled
<1>10. todo' \subseteq (IF stage' < Gather THEN dirs'[Order[stage']] ELSE {})
  BY <1>4 DEF LoadInv
<1>11. RulesSettled' = RulesSettled \/ stage = 1
  BY <1>1, <1>4 DEF RulesSettled, Left, AllFrom
<1> QED BY <1>4, <1>6, <1>8, <1>9, <1>10, <1>11, <1>1 DEF LoadInv

LEMMA SkillCapKeeps ==
  ASSUME LoadInv, SkillCap, UNCHANGED <<files, stage, prompt>>
  PROVE  LoadInv'
<1>1. stage \in {1, 3} /\ stage < Gather
  BY SkillStage DEF SkillCap, In
<1>2. /\ stage' = stage /\ dirs' = dirs /\ skills' = skills /\ rules' = rules
      /\ warned' = TRUE /\ todo' = {} /\ Len(skills) >= MaxSkills
  BY DEF SkillCap, files
<1>3. TablesOK'
  BY <1>2 DEF LoadInv, TablesOK, Rows
<1>4. SkillsSettled'
  <2>1. CASE stage = 1
    BY <1>2, <2>1 DEF LoadInv, SkillsSettled, AllFrom
  <2>2. CASE stage = 3
    BY <1>2, <2>2 DEF LoadInv, SkillsSettled, AllFrom, Left, Has, IsSkill
  <2> QED BY <1>1, <2>1, <2>2
<1>5. (stage <= 2 => AllFrom(skills, "./skills"))' /\ (stage <= 3 => AllFrom(rules, "./rules"))'
  BY <1>2 DEF LoadInv, AllFrom
<1>6. (stage >= 2 => RulesSettled)'
  BY <1>1, <1>2 DEF LoadInv, RulesSettled, Left, AllFrom, Has, IsRule
<1>7. todo' \subseteq (IF stage' < Gather THEN dirs'[Order[stage']] ELSE {}) /\ warned' \in BOOLEAN
  BY <1>2
<1> QED BY <1>2, <1>3, <1>4, <1>5, <1>6, <1>7 DEF LoadInv

LEMMA RuleEntryKeeps ==
  ASSUME LoadInv, NEW e \in todo, RuleEntry(e), UNCHANGED <<files, stage, prompt>>
  PROVE  LoadInv'
<1>1. stage \in {2, 4} /\ Order[stage] \in RuleDirs /\ stage < Gather
  BY RuleStage DEF RuleEntry, In
<1>2. e \in dirs[Order[stage]] /\ Found(e) = [entry |-> e, from |-> Order[stage]]
  BY <1>1, EntryIsThere DEF Found
<1>3. Found(e) \in Rows(RuleDirs)
  BY <1>1, <1>2, RowOf
<1>4. /\ stage' = stage /\ dirs' = dirs /\ skills' = skills /\ warned' = warned
      /\ todo' = todo \ {e}
      /\ rules' = IF IsRule(e) THEN Append(rules, Found(e)) ELSE rules
      /\ Len(rules) < MaxRules
  BY DEF RuleEntry, files
<1>5. rules \in Seq(Rows(RuleDirs)) /\ Rows(RuleDirs)' = Rows(RuleDirs)
      /\ Rows(SkillDirs)' = Rows(SkillDirs)
  BY <1>4 DEF LoadInv, TablesOK, Rows
<1>6. TablesOK'
  <2>1. rules' \in Seq(Rows(RuleDirs)) /\ Len(rules') <= MaxRules
    BY <1>3, <1>4, <1>5, RowAdded, CapsAssumption
  <2> QED BY <1>4, <1>5, <2>1 DEF LoadInv, TablesOK
<1>7. /\ IsRule(e) => Has(rules', Order[stage], e)
      /\ \A d, f : Has(rules, d, f) => Has(rules', d, f)
      /\ AllFrom(rules, Order[stage]) => AllFrom(rules', Order[stage])
  BY <1>2, <1>3, <1>4, <1>5, HasGrows
<1>8. (stage <= 3 => AllFrom(rules, "./rules"))'
  BY <1>1, <1>4, <1>7, OrderIs DEF LoadInv
<1>9. RulesSettled'
  <2>1. \A f \in dirs["./rules"] \ Left(2) : IsRule(f) => Has(rules, "./rules", f)
    <3>1. ~(Len(rules) >= MaxRules)
      BY <1>4, <1>5, CapsAssumption
    <3> QED BY <1>1, <3>1 DEF LoadInv, RulesSettled, Left
  <2>2. ASSUME NEW f \in dirs["./rules"] \ Left(2)', IsRule(f)
        PROVE  Has(rules', "./rules", f)
    <3>1. CASE stage = 2 /\ f = e
      BY <1>4, <1>7, <2>2, <3>1, OrderIs
    <3>2. CASE ~(stage = 2 /\ f = e)
      <4>1. f \notin Left(2)
        BY <1>4, <2>2, <3>2 DEF Left
      <4> QED BY <1>7, <2>1, <2>2, <4>1
    <3> QED BY <3>1, <3>2
  <2> QED BY <1>4, <2>2 DEF RulesSettled
<1>10. todo' \subseteq (IF stage' < Gather THEN dirs'[Order[stage']] ELSE {})
  BY <1>4 DEF LoadInv
<1>11. SkillsSettled' /\ (stage <= 2 => AllFrom(skills, "./skills"))'
  BY <1>1, <1>4 DEF LoadInv, SkillsSettled, Left, AllFrom, Has, IsSkill
<1> QED BY <1>4, <1>6, <1>8, <1>9, <1>10, <1>11, <1>1 DEF LoadInv

LEMMA RuleCapKeeps ==
  ASSUME LoadInv, RuleCap, UNCHANGED <<files, stage, prompt>>
  PROVE  LoadInv'
<1>1. stage \in {2, 4} /\ stage < Gather
  BY RuleStage DEF RuleCap, In
<1>2. /\ stage' = stage /\ dirs' = dirs /\ skills' = skills /\ rules' = rules
      /\ warned' = warned /\ todo' = {} /\ Len(rules) >= MaxRules
  BY DEF RuleCap, files, tables
<1>3. TablesOK'
  BY <1>2 DEF LoadInv, TablesOK, Rows
<1>4. RulesSettled'
  <2>1. CASE stage = 2
    BY <1>2, <2>1 DEF LoadInv, RulesSettled, AllFrom
  <2>2. CASE stage = 4
    BY <1>2, <2>2 DEF LoadInv, RulesSettled, AllFrom, Left, Has, IsRule
  <2> QED BY <1>1, <2>1, <2>2
<1>5. (stage <= 2 => AllFrom(skills, "./skills"))' /\ (stage <= 3 => AllFrom(rules, "./rules"))'
  BY <1>2 DEF LoadInv, AllFrom
<1>6. SkillsSettled'
  BY <1>1, <1>2 DEF LoadInv, SkillsSettled, Left, AllFrom, Has, IsSkill
<1>7. todo' \subseteq (IF stage' < Gather THEN dirs'[Order[stage']] ELSE {})
  BY <1>2
<1>8. (stage = 1 => rules = <<>>)' /\ (stage \in 1..Done /\ warned \in BOOLEAN)'
  BY <1>2 DEF LoadInv
<1> QED BY <1>3, <1>4, <1>5, <1>6, <1>7, <1>8 DEF LoadInv

LEMMA NextDirectoryKeeps == ASSUME LoadInv, NextDirectory PROVE LoadInv'
<1>1. /\ stage < Gather /\ todo = {} /\ stage' = stage + 1
      /\ dirs' = dirs /\ skills' = skills /\ rules' = rules /\ warned' = warned
  BY DEF NextDirectory, files, tables
<1>2. stage \in {1, 2, 3, 4}
  BY <1>1, StagesAre DEF LoadInv
<1>3. TablesOK'
  BY <1>1 DEF LoadInv, TablesOK, Rows
<1>4. SkillsSettled'
  <2>1. Left(1) = {} /\ Left(1)' = {}
    BY <1>1, <1>2 DEF Left
  <2> QED BY <1>1, <1>2, <2>1 DEF LoadInv, SkillsSettled, AllFrom, Has, IsSkill
<1>5. RulesSettled'
  <2>1. CASE stage = 1
    <3>1. todo' = dirs["./rules"] /\ stage' = 2
      BY <1>1, <2>1, OrderIs DEF NextDirectory, Readable, Gather
    <3> QED BY <1>1, <3>1 DEF RulesSettled, Left
  <2>2. CASE stage # 1
    <3>1. Left(2) = {} /\ Left(2)' = {}
      BY <1>1, <1>2, <2>2 DEF Left
    <3> QED BY <1>1, <1>2, <2>2, <3>1 DEF LoadInv, RulesSettled, AllFrom, Has, IsRule
  <2> QED BY <2>1, <2>2
<1>6. (stage <= 2 => AllFrom(skills, "./skills"))' /\ (stage <= 3 => AllFrom(rules, "./rules"))'
  BY <1>1, <1>2 DEF LoadInv, AllFrom
<1>7. todo' \subseteq (IF stage' < Gather THEN dirs'[Order[stage']] ELSE {})
  BY <1>1 DEF NextDirectory
<1>8. stage' \in 1..Done /\ stage' # 1
  BY <1>1, <1>2 DEF Done
<1> QED BY <1>1, <1>3, <1>4, <1>5, <1>6, <1>7, <1>8 DEF LoadInv

LEMMA BuildKeeps == ASSUME LoadInv, build_system_prompt PROVE LoadInv'
<1>1. /\ stage = Gather /\ stage' = Done
      /\ dirs' = dirs /\ skills' = skills /\ rules' = rules /\ warned' = warned /\ todo' = todo
  BY DEF build_system_prompt, files, tables
<1>2. todo = {} /\ stage = 5 /\ stage' = 6
  BY <1>1 DEF LoadInv, Gather, Done
<1>3. TablesOK'
  BY <1>1 DEF LoadInv, TablesOK, Rows
<1>4. SkillsSettled' /\ RulesSettled'
  BY <1>1, <1>2 DEF LoadInv, SkillsSettled, RulesSettled, Left, AllFrom, Has, IsSkill, IsRule
<1>5. stage' \in 1..Done
  BY <1>2 DEF Done
<1>6. todo' = {}
  BY <1>1, <1>2
<1> QED BY <1>1, <1>2, <1>3, <1>4, <1>5, <1>6 DEF LoadInv

LEMMA StutterLoads == ASSUME LoadInv, UNCHANGED vars PROVE LoadInv'
<1>1. /\ stage' = stage /\ dirs' = dirs /\ skills' = skills /\ rules' = rules
      /\ warned' = warned /\ todo' = todo
  BY DEF vars, files, tables
<1> QED BY <1>1 DEF LoadInv, TablesOK, Rows, SkillsSettled, RulesSettled, Left, AllFrom, Has,
                    IsSkill, IsRule

LEMMA LoadStep == LoadInv /\ [Next]_vars => LoadInv'
<1> SUFFICES ASSUME LoadInv, [Next]_vars PROVE LoadInv'
  OBVIOUS
<1>1. CASE Scan
  <2>1. PICK e \in todo : SkillEntry(e) \/ SkillCap \/ RuleEntry(e) \/ RuleCap
    BY <1>1 DEF Scan
  <2>2. UNCHANGED <<files, stage, prompt>>
    BY <1>1 DEF Scan
  <2> QED BY <2>1, <2>2, SkillEntryKeeps, SkillCapKeeps, RuleEntryKeeps, RuleCapKeeps
<1>2. CASE NextDirectory
  BY <1>2, NextDirectoryKeeps
<1>3. CASE build_system_prompt
  BY <1>3, BuildKeeps
<1>4. CASE UNCHANGED vars
  BY <1>4, StutterLoads
<1> QED BY <1>1, <1>2, <1>3, <1>4 DEF Next

LEMMA LoadInvHolds == Spec => []LoadInv
BY InitLoads, LoadStep, PTL DEF Spec

-----------------------------------------------------------------------------
(* The caps hold whatever the directories hold, and a row of the tables is *)
(* an entry of the directory it names (main.c:825, 959).                   *)
THEOREM ContextTypeCorrect == Spec => []ContextTypeOK
<1>1. LoadInv => ContextTypeOK
  <2> SUFFICES ASSUME LoadInv PROVE ContextTypeOK
    OBVIOUS
  <2>1. skills \in Seq(Rows(SkillDirs)) /\ rules \in Seq(Rows(RuleDirs))
    BY DEF LoadInv, TablesOK
  <2>2. /\ \A i \in DOMAIN skills : skills[i] \in Rows(SkillDirs)
        /\ \A i \in DOMAIN rules : rules[i] \in Rows(RuleDirs)
    BY <2>1
  <2>3. /\ \A i \in DOMAIN skills : skills[i].from \in SkillDirs /\ skills[i].entry \in dirs[skills[i].from]
        /\ \A i \in DOMAIN rules : rules[i].from \in RuleDirs /\ rules[i].entry \in dirs[rules[i].from]
    BY <2>2, RowIs
  <2> QED BY <2>3 DEF LoadInv, TablesOK, ContextTypeOK
<1> QED BY <1>1, LoadInvHolds, PTL

(* No order of reading makes the project give way to the user             *)
(* (main.c:1232-1241).                                                     *)
THEOREM ProjectNotDropped == Spec => []ProjectFirst
<1>1. LoadInv => ProjectFirst
  <2> SUFFICES ASSUME LoadInv, stage >= Gather PROVE
        /\ \A e \in dirs["./skills"] : IsSkill(e) /\ ~Has(skills, "./skills", e) =>
             AllFrom(skills, "./skills")
        /\ \A e \in dirs["./rules"] : IsRule(e) /\ ~Has(rules, "./rules", e) =>
             AllFrom(rules, "./rules")
    BY DEF ProjectFirst, AllFrom
  <2>1. stage >= 2 /\ Left(1) = {} /\ Left(2) = {}
    BY DEF LoadInv, Left, Done, Gather
  <2> QED BY <2>1 DEF LoadInv, SkillsSettled, RulesSettled
<1> QED BY <1>1, LoadInvHolds, PTL

-----------------------------------------------------------------------------
(* What parse_frontmatter makes of a file, line by line.                   *)

Names == {"name", "description"}

Pieces == [sep : {"", " ", "\n"}, key : STRING \cup {""}, val : STRING]

SkillState ==
  [in_fm : BOOLEAN, done : BOOLEAN, cont : Names \cup {""}, fold : BOOLEAN,
   name : Seq(Pieces), description : Seq(Pieces)]

(* The states after 0, 1, ... n lines.                                     *)
SkillRun(doc, f, n) ==
  f[0] = SkillStart /\ \A i \in 1..n : f[i] = ReadSkillLine(f[i - 1], doc[i])

LEMMA SkillRunExists ==
  ASSUME NEW doc \in Seq(Line)
  PROVE  \E f : f = [i \in 0..Len(doc) |->
                       IF i = 0 THEN SkillStart ELSE ReadSkillLine(f[i - 1], doc[i])]
<1> DEFINE Some(n) == \E f : f = [i \in 0..n |-> f[i]] /\ SkillRun(doc, f, n)
           G == {n \in Nat : Some(n)}
<1>1. Some(0)
  <2> DEFINE f == [i \in 0..0 |-> SkillStart]
  <2>1. f = [i \in 0..0 |-> f[i]] /\ f[0] = SkillStart
    OBVIOUS
  <2> HIDE DEF f
  <2>2. SkillRun(doc, f, 0)
    BY <2>1 DEF SkillRun
  <2> QED BY <2>1, <2>2
<1>2. ASSUME NEW n \in G PROVE n + 1 \in G
  <2>1. PICK f : f = [i \in 0..n |-> f[i]] /\ SkillRun(doc, f, n)
    OBVIOUS
  <2> DEFINE last == ReadSkillLine(f[n], doc[n + 1])
             g == [i \in 0..(n + 1) |-> IF i = n + 1 THEN last ELSE f[i]]
  <2> HIDE DEF last
  <2>2. n \in Nat /\ \A i \in 0..n : g[i] = f[i]
    OBVIOUS
  <2>3. g[n + 1] = last /\ g = [i \in 0..(n + 1) |-> g[i]]
    OBVIOUS
  <2> HIDE DEF g
  <2>4. g[0] = SkillStart
    BY <2>1, <2>2 DEF SkillRun
  <2>5. ASSUME NEW i \in 1..(n + 1) PROVE g[i] = ReadSkillLine(g[i - 1], doc[i])
    <3>1. CASE i = n + 1
      <4>1. i - 1 = n /\ n \in 0..n
        BY <2>2, <3>1
      <4>2. g[i - 1] = f[n] /\ g[i] = last
        BY <2>2, <2>3, <3>1, <4>1
      <4> QED BY <3>1, <4>2 DEF last
    <3>2. CASE i # n + 1
      <4>1. i \in 1..n /\ i \in 0..n /\ i - 1 \in 0..n
        BY <2>2, <3>2
      <4>2. f[i] = ReadSkillLine(f[i - 1], doc[i])
        BY <2>1, <4>1 DEF SkillRun
      <4>3. g[i] = f[i] /\ g[i - 1] = f[i - 1]
        BY <2>2, <4>1
      <4> QED BY <4>2, <4>3
    <3> QED BY <3>1, <3>2
  <2>6. SkillRun(doc, g, n + 1)
    BY <2>4, <2>5 DEF SkillRun
  <2> QED BY <2>2, <2>3, <2>6
<1> HIDE DEF Some
<1>3. G = Nat
  <2>1. G \in SUBSET Nat /\ 0 \in G
    BY <1>1
  <2> HIDE DEF G
  <2> QED BY <1>2, <2>1, SetInduction
<1>4. Some(Len(doc))
  <2>1. Len(doc) \in G
    BY <1>3
  <2> QED BY <2>1
<1>5. PICK f : f = [i \in 0..Len(doc) |-> f[i]] /\ SkillRun(doc, f, Len(doc))
  BY <1>4 DEF Some
<1>6. \A i \in 0..Len(doc) : f[i] = IF i = 0 THEN SkillStart ELSE ReadSkillLine(f[i - 1], doc[i])
  <2> TAKE i \in 0..Len(doc)
  <2>1. i # 0 => i \in 1..Len(doc)
    OBVIOUS
  <2> QED BY <1>5, <2>1 DEF SkillRun
<1>7. f = [i \in 0..Len(doc) |-> IF i = 0 THEN SkillStart ELSE ReadSkillLine(f[i - 1], doc[i])]
  BY <1>5, <1>6
<1> QED BY <1>7

LEMMA SkillRunIs ==
  ASSUME NEW doc \in Seq(Line)
  PROVE  \E f : SkillRun(doc, f, Len(doc)) /\ parse_frontmatter(doc) = f[Len(doc)]
<1> DEFINE f == CHOOSE f : f = [i \in 0..Len(doc) |->
                  IF i = 0 THEN SkillStart ELSE ReadSkillLine(f[i - 1], doc[i])]
<1>1. f = [i \in 0..Len(doc) |-> IF i = 0 THEN SkillStart ELSE ReadSkillLine(f[i - 1], doc[i])]
  BY SkillRunExists
<1>2. parse_frontmatter(doc) = f[Len(doc)]
  BY DEF parse_frontmatter
<1> HIDE DEF f
<1>3. \A i \in 0..Len(doc) : f[i] = IF i = 0 THEN SkillStart ELSE ReadSkillLine(f[i - 1], doc[i])
  BY <1>1
<1>4. f[0] = SkillStart
  BY <1>3
<1>5. \A i \in 1..Len(doc) : f[i] = ReadSkillLine(f[i - 1], doc[i])
  BY <1>3
<1> QED BY <1>2, <1>4, <1>5 DEF SkillRun

(* A line of the file, whatever it is, keeps the state one.                *)
LEMMA ReadSkillDone ==
  ASSUME NEW s, NEW line, s.done PROVE ReadSkillLine(s, line) = s
BY DEF ReadSkillLine

LEMMA ReadSkillBefore ==
  ASSUME NEW s \in SkillState, NEW line \in Line, ~s.done, ~s.in_fm, NEW t, t = ReadSkillLine(s, line)
  PROVE  /\ t \in SkillState /\ t.in_fm = Mark(line) /\ t.done = (~Mark(line) /\ ~Blank(line))
         /\ t.name = s.name /\ t.description = s.description /\ t.cont = s.cont
<1>1. t = [s EXCEPT !.in_fm = Mark(line), !.done = ~Mark(line) /\ ~Blank(line)]
  BY DEF ReadSkillLine
<1>2. Mark(line) \in BOOLEAN /\ (~Mark(line) /\ ~Blank(line)) \in BOOLEAN
  BY DEF Mark, Blank
<1> QED BY <1>1, <1>2 DEF SkillState

LEMMA ReadSkillMark ==
  ASSUME NEW s \in SkillState, NEW line \in Line, ~s.done, s.in_fm, Mark(line), NEW t, t = ReadSkillLine(s, line)
  PROVE  t \in SkillState /\ t.done /\ t.name = s.name /\ t.description = s.description
<1>1. t = [s EXCEPT !.done = TRUE]
  BY DEF ReadSkillLine
<1> QED BY <1>1 DEF SkillState

(* Below: a line between the marks.  An empty line within a block, or      *)
(* outside of one, a line of a block, a key, and a line of other keys.     *)
Inside(s) == s \in SkillState /\ s.in_fm /\ ~s.done

LEMMA ReadSkillNothing ==
  ASSUME NEW s, Inside(s), NEW line \in Line, ~Mark(line), NEW t, t = ReadSkillLine(s, line),
         Blank(line) \/ line.key \notin Names, s.cont # "" /\ line.indent => Blank(line)
  PROVE  /\ Inside(t) /\ t.name = s.name /\ t.description = s.description /\ t.fold = s.fold
         /\ t.cont = IF line.indent THEN s.cont ELSE ""
<1>1. line.key \notin {"name", "description"}
  BY DEF Names, Blank
<1>2. CASE s.cont # "" /\ line.indent
  BY <1>2 DEF ReadSkillLine, Inside, SkillState
<1>3. CASE ~(s.cont # "" /\ line.indent)
  <2>1. t = [s EXCEPT !.cont = ""]
    BY <1>1, <1>3 DEF ReadSkillLine, Inside
  <2> QED BY <1>3, <2>1 DEF Inside, SkillState
<1> QED BY <1>2, <1>3

LEMMA PieceType ==
  ASSUME NEW line \in Line, NEW fold
  PROVE  /\ Piece(line, fold) \in Pieces /\ [Piece(line, fold) EXCEPT !.sep = ""] \in Pieces
         /\ Piece(line, fold).sep = (IF fold THEN " " ELSE "\n")
BY DEF Line, Piece, Pieces

BlockRead(s, line, t) ==
  /\ t.cont = s.cont /\ t.fold = s.fold
  /\ \A c \in Names : t[c] = IF c = s.cont THEN append_fold(s[c], Piece(line, s.fold)) ELSE s[c]

KeyRead(s, line, t) ==
  /\ t.cont = IF IsBlock(line) THEN line.key ELSE ""
  /\ IsBlock(line) => t.fold = (line.val = ">")
  /\ \A c \in Names : t[c] = IF c # line.key THEN s[c]
                              ELSE IF IsBlock(line) THEN <<>> ELSE Plain(line.val)

LEMMA ReadSkillBlock ==
  ASSUME NEW s, Inside(s), NEW line \in Line, ~Mark(line), NEW t, t = ReadSkillLine(s, line),
         s.cont # "", line.indent, ~Blank(line)
  PROVE  Inside(t) /\ BlockRead(s, line, t)
<1> DEFINE p == Piece(line, s.fold)
           q == append_fold(s[s.cont], p)
<1>1. s.cont \in Names /\ s[s.cont] \in Seq(Pieces)
  BY DEF Inside, SkillState, Names
<1>2. p \in Pieces /\ [p EXCEPT !.sep = ""] \in Pieces
  BY PieceType
<1>3. q \in Seq(Pieces)
  <2> DEFINE dst == s[s.cont]
             x == IF dst = <<>> THEN [p EXCEPT !.sep = ""] ELSE p
  <2>1. x \in Pieces /\ dst \in Seq(Pieces)
    BY <1>1, <1>2
  <2>2. q = Append(dst, x)
    BY DEF append_fold
  <2> HIDE DEF x, dst, q
  <2>3. Append(dst, x) \in Seq(Pieces)
    BY <2>1, RowAdded
  <2> QED BY <2>2, <2>3
<1>4. t = [s EXCEPT ![s.cont] = q]
  BY DEF ReadSkillLine, Inside
<1> HIDE DEF p, q
<1>5. CASE s.cont = "name"
  <2>1. t = [s EXCEPT !.name = q]
    BY <1>4, <1>5
  <2>2. Inside(t) /\ t.cont = s.cont /\ t.fold = s.fold
    BY <1>3, <2>1 DEF Inside, SkillState
  <2>3. t["name"] = q /\ t["description"] = s["description"]
    BY <2>1 DEF Inside, SkillState
  <2> QED BY <1>5, <2>2, <2>3 DEF BlockRead, Names, q, p
<1>6. CASE s.cont = "description"
  <2>1. t = [s EXCEPT !.description = q]
    BY <1>4, <1>6
  <2>2. Inside(t) /\ t.cont = s.cont /\ t.fold = s.fold
    BY <1>3, <2>1 DEF Inside, SkillState
  <2>3. t["description"] = q /\ t["name"] = s["name"]
    BY <2>1 DEF Inside, SkillState
  <2> QED BY <1>6, <2>2, <2>3 DEF BlockRead, Names, q, p
<1> QED BY <1>1, <1>5, <1>6 DEF Names

LEMMA PlainType == ASSUME NEW line \in Line PROVE Plain(line.val) \in Seq(Pieces)
<1>1. CASE line.val = ""
  <2>1. Plain(line.val) = <<>>
    BY <1>1 DEF Plain
  <2>2. <<>> \in Seq(Pieces)
    OBVIOUS
  <2> QED BY <2>1, <2>2
<1>2. CASE line.val # ""
  <2> DEFINE x == [sep |-> "", key |-> "", val |-> line.val]
  <2>1. x \in Pieces
    BY DEF Pieces, Line
  <2>2. Plain(line.val) = <<x>>
    BY <1>2 DEF Plain
  <2> HIDE DEF x
  <2>3. <<x>> \in Seq(Pieces)
    BY <2>1
  <2> QED BY <2>2, <2>3
<1> QED BY <1>1, <1>2

LEMMA ReadSkillKey ==
  ASSUME NEW s, Inside(s), NEW line \in Line, ~Mark(line), NEW t, t = ReadSkillLine(s, line),
         line.key \in Names, ~line.indent
  PROVE  Inside(t) /\ KeyRead(s, line, t)
<1>1. t = ReadPair(s, line)
  BY DEF ReadSkillLine, Inside, Names
<1>2. Plain(line.val) \in Seq(Pieces) /\ <<>> \in Seq(Pieces) /\ (line.val = ">") \in BOOLEAN
  <2>1. Plain(line.val) \in Seq(Pieces)
    BY PlainType
  <2> QED BY <2>1
<1>3. CASE line.key = "name" /\ IsBlock(line)
  <2>1. t = [s EXCEPT !.name = <<>>, !.cont = "name", !.fold = (line.val = ">")]
    BY <1>1, <1>3 DEF ReadPair, IsBlock
  <2> QED BY <1>2, <1>3, <2>1 DEF KeyRead, Inside, SkillState, Names
<1>4. CASE line.key = "name" /\ ~IsBlock(line)
  <2>1. t = [s EXCEPT !.name = Plain(line.val), !.cont = ""]
    BY <1>1, <1>4 DEF ReadPair, IsBlock
  <2> QED BY <1>2, <1>4, <2>1 DEF KeyRead, Inside, SkillState, Names
<1>5. CASE line.key = "description" /\ IsBlock(line)
  <2>1. t = [s EXCEPT !.description = <<>>, !.cont = "description", !.fold = (line.val = ">")]
    BY <1>1, <1>5 DEF ReadPair, IsBlock
  <2> QED BY <1>2, <1>5, <2>1 DEF KeyRead, Inside, SkillState, Names
<1>6. CASE line.key = "description" /\ ~IsBlock(line)
  <2>1. t = [s EXCEPT !.description = Plain(line.val), !.cont = ""]
    BY <1>1, <1>6 DEF ReadPair, IsBlock
  <2> QED BY <1>2, <1>6, <2>1 DEF KeyRead, Inside, SkillState, Names
<1> QED BY <1>3, <1>4, <1>5, <1>6 DEF Names
-----------------------------------------------------------------------------
(* The lines of a body and the line above that they belong to.             *)

LEMMA AboveIs ==
  ASSUME NEW body \in Seq(Line), NEW j \in 0..Len(body)
  PROVE  /\ Above(body, j) \in 0..j
         /\ Above(body, j) # 0 => ~body[Above(body, j)].indent /\ ~Blank(body[Above(body, j)])
         /\ \A i \in (Above(body, j) + 1)..j : body[i].indent \/ Blank(body[i])
<1> DEFINE I == {i \in 1..j : ~body[i].indent /\ ~Blank(body[i])}
<1>1. Above(body, j) = IF I # {} THEN Max(I) ELSE 0
  BY DEF Above, SelectLastInSubSeq
<1>2. Len(body) \in Nat /\ j \in Nat
  OBVIOUS
<1>3. CASE I = {}
  <2>1. Above(body, j) = 0
    BY <1>1, <1>3
  <2>2. \A i \in (0 + 1)..j : body[i].indent \/ Blank(body[i])
    BY <1>3
  <2> QED BY <1>2, <2>1, <2>2
<1>4. CASE I # {}
  <2>1. I \in SUBSET (0..j)
    OBVIOUS
  <2> DEFINE m == Above(body, j)
  <2>2. m = Max(I)
    BY <1>1, <1>4
  <2> HIDE DEF I, m
  <2>3. m \in I /\ \A i \in I : m >= i
    BY <1>2, <1>4, <2>1, <2>2, MaxOf
  <2>4. m \in 1..j /\ ~body[m].indent /\ ~Blank(body[m])
    BY <2>3 DEF I
  <2>5. ASSUME NEW i \in (m + 1)..j PROVE body[i].indent \/ Blank(body[i])
    <3>1. i \in 1..j /\ ~(m >= i)
      BY <1>2, <2>4
    <3> QED BY <2>3, <3>1 DEF I
  <2> QED BY <1>2, <2>4, <2>5 DEF m
<1> QED BY <1>3, <1>4

LEMMA AboveUnique ==
  ASSUME NEW body \in Seq(Line), NEW j \in 0..Len(body), NEW m \in 0..j,
         m # 0 => ~body[m].indent /\ ~Blank(body[m]),
         \A i \in (m + 1)..j : body[i].indent \/ Blank(body[i])
  PROVE  Above(body, j) = m
<1> DEFINE a == Above(body, j)
<1>1. /\ a \in 0..j
      /\ a # 0 => ~body[a].indent /\ ~Blank(body[a])
      /\ \A i \in (a + 1)..j : body[i].indent \/ Blank(body[i])
  BY AboveIs
<1> HIDE DEF a
<1>2. ~(a < m)
  <2> SUFFICES ASSUME a < m PROVE FALSE
    OBVIOUS
  <2>1. m \in (a + 1)..j /\ m # 0
    BY <1>1
  <2> QED BY <1>1, <2>1
<1>3. ~(m < a)
  <2> SUFFICES ASSUME m < a PROVE FALSE
    OBVIOUS
  <2>1. a \in (m + 1)..j /\ a # 0
    BY <1>1
  <2> QED BY <1>1, <2>1
<1>4. a \in Int /\ m \in Int
  BY <1>1
<1>5. a = m
  BY ONLY <1>2, <1>3, <1>4
<1> QED BY <1>5 DEF a

LEMMA AboveNext ==
  ASSUME NEW body \in Seq(Line), NEW j \in Nat, j < Len(body)
  PROVE  /\ Above(body, j + 1) = IF body[j + 1].indent \/ Blank(body[j + 1]) THEN Above(body, j) ELSE j + 1
         /\ Adjoins(body, j + 1) = (Above(body, j + 1) = j + 1 \/ (Adjoins(body, j) /\ body[j + 1].indent))
<1> DEFINE a == Above(body, j)
           b == Above(body, j + 1)
           line == body[j + 1]
<1>0. Len(body) \in Nat /\ j \in 0..Len(body) /\ j + 1 \in 0..Len(body)
  OBVIOUS
<1>1. /\ a \in 0..j
      /\ a # 0 => ~body[a].indent /\ ~Blank(body[a])
      /\ \A i \in (a + 1)..j : body[i].indent \/ Blank(body[i])
  BY <1>0, AboveIs
<1>2. CASE line.indent \/ Blank(line)
  <2>1. a \in 0..(j + 1)
    BY <1>1
  <2>2. \A i \in (a + 1)..(j + 1) : body[i].indent \/ Blank(body[i])
    <3> TAKE i \in (a + 1)..(j + 1)
    <3>1. i = j + 1 \/ i \in (a + 1)..j
      BY <1>1
    <3> QED BY <1>1, <1>2, <3>1
  <2>3. b = a
    <3> HIDE DEF a
    <3> QED BY <1>0, <1>1, <2>1, <2>2, AboveUnique
  <2>4. b # j + 1
    BY <1>1, <2>3
  <2>5. Adjoins(body, j + 1) = (Adjoins(body, j) /\ line.indent)
    <3>1. \A i : i \in (a + 1)..(j + 1) <=> i = j + 1 \/ i \in (a + 1)..j
      BY <1>1
    <3>2. Adjoins(body, j + 1) = \A i \in (a + 1)..(j + 1) : body[i].indent
      BY <2>3 DEF Adjoins
    <3>3. Adjoins(body, j) = \A i \in (a + 1)..j : body[i].indent
      BY DEF Adjoins
    <3> HIDE DEF a, b
    <3> QED BY <3>1, <3>2, <3>3
  <2> QED BY <1>2, <2>3, <2>4, <2>5
<1>3. CASE ~(line.indent \/ Blank(line))
  <2>1. \A i \in ((j + 1) + 1)..(j + 1) : FALSE
    BY <1>0
  <2>2. j + 1 \in 0..(j + 1)
    BY <1>0
  <2>3. b = j + 1
    BY <1>0, <1>3, <2>1, <2>2, AboveUnique
  <2>4. Adjoins(body, j + 1)
    BY <2>1, <2>3 DEF Adjoins
  <2> QED BY <1>3, <2>3, <2>4
<1> QED BY <1>2, <1>3

-----------------------------------------------------------------------------
(* The invariant of a body: what the fields hold after j of its lines.     *)

IsHead(body, i, c) == ~body[i].indent /\ body[i].key = c

BlockTo(body, h, j) == FlattenSeq([i \in 1..j |-> BlockPiece(body, h, i)])

(* The block that the next line may go on with.                            *)
Opened(body, j) ==
  /\ Above(body, j) # 0 /\ body[Above(body, j)].key \in Names
  /\ IsBlock(body[Above(body, j)]) /\ Adjoins(body, j)

BlockOK(body, h, j, field) ==
  IF IsBlock(body[h])
  THEN field = BlockTo(body, h, j) /\ (field = <<>> <=> ~\E i \in BlockOf(body, h) : i <= j)
  ELSE field = Plain(body[h].val)

FieldOK(body, c, j, field) ==
  /\ (\A i \in 1..j : ~IsHead(body, i, c)) => field = <<>>
  /\ \A h \in 1..j : IsHead(body, h, c) => BlockOK(body, h, j, field)

BodyOK(body, j, s) ==
  /\ Inside(s)
  /\ s.cont = IF Opened(body, j) THEN body[Above(body, j)].key ELSE ""
  /\ s.cont # "" => s.fold = (body[Above(body, j)].val = ">")
  /\ \A c \in Names : FieldOK(body, c, j, s[c])

(* What is asked of a body.                                                *)
SimpleBody(body) ==
  /\ \A i, j \in DOMAIN body :
       i # j /\ ~body[i].indent /\ ~body[j].indent /\ ~Blank(body[i]) => body[i].key # body[j].key
  /\ \A i \in DOMAIN body : body[i].indent /\ ~Blank(body[i]) =>
       LET h == Above(body, i)
       IN  /\ h # 0 /\ Adjoins(body, i)
           /\ \/ body[h].key \in Names /\ IsBlock(body[h])
              \/ {body[h].key, body[i].key} \cap Names = {}

LEMMA BlockPieceType ==
  ASSUME NEW body \in Seq(Line), NEW h, NEW i \in 1..Len(body)
  PROVE  BlockPiece(body, h, i) \in Seq(Pieces)
<1> DEFINE p == Piece(body[i], body[h].val = ">")
           q == [p EXCEPT !.sep = IF \E j \in BlockOf(body, h) : j < i THEN @ ELSE ""]
<1>1. body[i] \in Line
  OBVIOUS
<1>2. p \in Pieces /\ [p EXCEPT !.sep = ""] \in Pieces
  BY <1>1, PieceType
<1>3. q \in Pieces
  <2> HIDE DEF p
  <2> QED BY <1>2 DEF Pieces
<1>4. <<q>> \in Seq(Pieces) /\ <<>> \in Seq(Pieces)
  <2> HIDE DEF q
  <2> QED BY <1>3
<1>5. BlockPiece(body, h, i) = IF i \notin BlockOf(body, h) THEN <<>> ELSE <<q>>
  BY DEF BlockPiece
<1> HIDE DEF q
<1> QED BY <1>4, <1>5

LEMMA BlockToNext ==
  ASSUME NEW body \in Seq(Line), NEW h, NEW j \in Nat, j < Len(body)
  PROVE  /\ BlockTo(body, h, j + 1) = BlockTo(body, h, j) \o BlockPiece(body, h, j + 1)
         /\ BlockTo(body, h, j) \in Seq(Pieces) /\ BlockPiece(body, h, j + 1) \in Seq(Pieces)
<1> DEFINE f == [i \in 1..(j + 1) |-> BlockPiece(body, h, i)]
           g == [i \in 1..j |-> BlockPiece(body, h, i)]
<1>1. f \in [1..(j + 1) -> Seq(Pieces)]
  <2>1. \A i \in 1..(j + 1) : i \in 1..Len(body)
    OBVIOUS
  <2> QED BY <2>1, BlockPieceType
<1>2. g = [i \in 1..j |-> f[i]] /\ f[j + 1] = BlockPiece(body, h, j + 1)
  <2>1. \A i \in 1..j : i \in 1..(j + 1)
    OBVIOUS
  <2>2. j + 1 \in 1..(j + 1)
    OBVIOUS
  <2> QED BY <2>1, <2>2
<1> HIDE DEF f
<1>3. /\ FlattenSeq(f) = FlattenSeq([i \in 1..j |-> f[i]]) \o f[j + 1]
      /\ FlattenSeq([i \in 1..j |-> f[i]]) \in Seq(Pieces) /\ f[j + 1] \in Seq(Pieces)
  BY <1>1, FlattenNext
<1> QED BY <1>2, <1>3 DEF BlockTo, f

(* A line that is not of the block leaves it.                              *)
LEMMA BlockStays ==
  ASSUME NEW body \in Seq(Line), NEW h, NEW j \in Nat, j < Len(body),
         j + 1 \notin BlockOf(body, h), NEW field, BlockOK(body, h, j, field)
  PROVE  BlockOK(body, h, j + 1, field)
<1>1. BlockPiece(body, h, j + 1) = <<>>
  BY DEF BlockPiece
<1>2. BlockTo(body, h, j + 1) = BlockTo(body, h, j)
  <2> DEFINE b == BlockTo(body, h, j)
  <2>1. b \in Seq(Pieces) /\ BlockTo(body, h, j + 1) = b \o <<>>
    BY <1>1, BlockToNext
  <2> HIDE DEF b
  <2>2. b \o <<>> = b
    BY <2>1
  <2> QED BY <2>1, <2>2 DEF b
<1>3. (\E i \in BlockOf(body, h) : i <= j + 1) <=> \E i \in BlockOf(body, h) : i <= j
  <2>1. \A i \in BlockOf(body, h) : i \in 1..Len(body)
    BY DEF BlockOf
  <2>2. \A i \in BlockOf(body, h) : i <= j + 1 <=> i <= j
    <3> TAKE i \in BlockOf(body, h)
    <3>1. i \in Nat /\ i # j + 1
      BY <2>1
    <3> QED BY ONLY <3>1, j \in Nat
  <2> QED BY <2>2
<1> QED BY <1>2, <1>3 DEF BlockOK

(* The lines of a block are behind the one that opens it.                  *)
LEMMA BlockBehind ==
  ASSUME NEW body \in Seq(Line), NEW h, NEW i \in BlockOf(body, h)
  PROVE  i \in 1..Len(body) /\ h \in 0..Len(body) /\ h < i
<1>1. i \in 1..Len(body) /\ Above(body, i) = h /\ i # h
  BY DEF BlockOf
<1>2. Above(body, i) \in 0..i
  <2>1. i \in 0..Len(body)
    BY <1>1
  <2> QED BY <2>1, AboveIs
<1> QED BY <1>1, <1>2

LEMMA BlockBegins ==
  ASSUME NEW body \in Seq(Line), NEW h \in 1..Len(body)
  PROVE  BlockTo(body, h, h) = <<>> /\ ~\E i \in BlockOf(body, h) : i <= h
<1>1. ~\E i \in BlockOf(body, h) : i <= h
  <2> SUFFICES ASSUME NEW i \in BlockOf(body, h), i <= h PROVE FALSE
    OBVIOUS
  <2>1. i \in 1..Len(body) /\ h < i
    BY BlockBehind
  <2> QED BY <2>1
<1> DEFINE f == [i \in 1..h |-> BlockPiece(body, h, i)]
<1>2. \A i \in 1..h : BlockPiece(body, h, i) = <<>>
  BY <1>1 DEF BlockPiece
<1>3. <<>> \in Seq({})
  OBVIOUS
<1>4. f \in [1..h -> Seq({})] /\ h \in Nat
  <2>1. \A i \in 1..h : BlockPiece(body, h, i) \in Seq({})
    BY <1>2, <1>3
  <2> QED BY <2>1
<1>5. f \in Seq(Seq({}))
  <2> HIDE DEF f
  <2> QED BY <1>4
<1>6. FlattenSeq(f) \in Seq({})
  <2> HIDE DEF f
  <2> QED BY <1>5, FlattenType
<1>7. \A x \in Seq({}) : x = <<>>
  OBVIOUS
<1> QED BY <1>1, <1>6, <1>7 DEF BlockTo

LEMMA FieldStays ==
  ASSUME NEW body \in Seq(Line), NEW j \in Nat, j < Len(body), NEW c, NEW field,
         FieldOK(body, c, j, field), ~IsHead(body, j + 1, c),
         \A h \in 1..j : IsHead(body, h, c) => j + 1 \notin BlockOf(body, h)
  PROVE  FieldOK(body, c, j + 1, field)
<1>1. \A i \in 1..j : i \in 1..(j + 1)
  OBVIOUS
<1>2. ASSUME NEW h \in 1..(j + 1), IsHead(body, h, c) PROVE BlockOK(body, h, j + 1, field)
  <2>1. h \in 1..j
    BY <1>2
  <2>2. BlockOK(body, h, j, field)
    BY <1>2, <2>1 DEF FieldOK
  <2> QED BY <1>2, <2>1, <2>2, BlockStays
<1> QED BY <1>1, <1>2 DEF FieldOK

(* A key of interest is there once.                                        *)
LEMMA HeadOnce ==
  ASSUME NEW body \in Seq(Line), SimpleBody(body), NEW c \in Names,
         NEW h \in 1..Len(body), IsHead(body, h, c), NEW k \in 1..Len(body), IsHead(body, k, c)
  PROVE  h = k
<1>1. ~Blank(body[h])
  BY DEF IsHead, Names, Blank
<1> QED BY <1>1 DEF SimpleBody, IsHead

LEMMA FieldBegins ==
  ASSUME NEW body \in Seq(Line), SimpleBody(body), NEW j \in Nat, j < Len(body), NEW c \in Names,
         IsHead(body, j + 1, c)
  PROVE  FieldOK(body, c, j + 1, IF IsBlock(body[j + 1]) THEN <<>> ELSE Plain(body[j + 1].val))
<1> DEFINE field == IF IsBlock(body[j + 1]) THEN <<>> ELSE Plain(body[j + 1].val)
<1>1. j + 1 \in 1..Len(body) /\ j + 1 \in 1..(j + 1)
  OBVIOUS
<1>2. BlockTo(body, j + 1, j + 1) = <<>> /\ ~\E i \in BlockOf(body, j + 1) : i <= j + 1
  BY <1>1, BlockBegins
<1>3. BlockOK(body, j + 1, j + 1, field)
  BY <1>2 DEF BlockOK
<1> HIDE DEF field
<1>4. ASSUME NEW h \in 1..(j + 1), IsHead(body, h, c) PROVE h = j + 1
  <2>1. h \in 1..Len(body)
    OBVIOUS
  <2> QED BY <1>1, <1>4, <2>1, HeadOnce
<1>5. FieldOK(body, c, j + 1, field)
  BY <1>1, <1>3, <1>4 DEF FieldOK
<1> QED BY <1>5 DEF field

LEMMA FieldGrows ==
  ASSUME NEW body \in Seq(Line), SimpleBody(body), NEW j \in Nat, j < Len(body), NEW c \in Names,
         NEW h \in 1..j, IsHead(body, h, c), IsBlock(body[h]), j + 1 \in BlockOf(body, h),
         NEW field, FieldOK(body, c, j, field)
  PROVE  FieldOK(body, c, j + 1, append_fold(field, Piece(body[j + 1], body[h].val = ">")))
<1> DEFINE p == Piece(body[j + 1], body[h].val = ">")
           q == IF field = <<>> THEN [p EXCEPT !.sep = ""] ELSE p
           new == append_fold(field, p)
<1>1. h \in 1..Len(body) /\ j + 1 \in 1..Len(body) /\ h \in 1..(j + 1)
  OBVIOUS
<1>2. BlockOK(body, h, j, field)
  BY DEF FieldOK
<1>3. /\ field = BlockTo(body, h, j) /\ (field = <<>> <=> ~\E i \in BlockOf(body, h) : i <= j)
      /\ field \in Seq(Pieces)
  BY <1>2, BlockToNext DEF BlockOK
<1>4. p \in Pieces /\ [p EXCEPT !.sep = ""] \in Pieces
  <2>1. body[j + 1] \in Line
    BY <1>1
  <2> QED BY <2>1, PieceType
<1>5. q \in Pieces
  BY <1>4
<1>6. (\E i \in BlockOf(body, h) : i < j + 1) <=> (\E i \in BlockOf(body, h) : i <= j)
  <2>1. \A i \in BlockOf(body, h) : i \in 1..Len(body)
    BY DEF BlockOf
  <2>2. \A i \in BlockOf(body, h) : i < j + 1 <=> i <= j
    <3> TAKE i \in BlockOf(body, h)
    <3>1. i \in Nat
      BY <2>1
    <3> QED BY ONLY <3>1, j \in Nat
  <2> QED BY <2>2
<1>7. BlockPiece(body, h, j + 1) = <<q>>
  <2> HIDE DEF p
  <2>1. [p EXCEPT !.sep = p.sep] = p
    BY <1>4 DEF Pieces
  <2>2. BlockPiece(body, h, j + 1) =
          <<[p EXCEPT !.sep = IF \E i \in BlockOf(body, h) : i < j + 1 THEN p.sep ELSE ""]>>
    BY DEF BlockPiece, p
  <2>3. CASE field = <<>>
    BY <1>3, <1>6, <2>2, <2>3
  <2>4. CASE field # <<>>
    BY <1>3, <1>6, <2>1, <2>2, <2>4
  <2> QED BY <2>3, <2>4
<1>8. new = Append(field, q)
  BY DEF append_fold
<1> HIDE DEF p, q, new
<1>9. Append(field, q) = field \o <<q>> /\ Append(field, q) # <<>>
  <2>1. Append(field, q) = field \o <<q>>
    BY <1>3, <1>5
  <2>2. Len(Append(field, q)) = Len(field) + 1 /\ Len(field) \in Nat
    BY <1>3, <1>5, RowAdded
  <2>3. Len(<<>>) = 0
    OBVIOUS
  <2> QED BY <2>1, <2>2, <2>3
<1>10. new = BlockTo(body, h, j + 1)
  <2>1. BlockTo(body, h, j + 1) = BlockTo(body, h, j) \o BlockPiece(body, h, j + 1)
    BY BlockToNext
  <2> QED BY <1>3, <1>7, <1>8, <1>9, <2>1
<1>11. BlockOK(body, h, j + 1, new)
  <2>1. \E i \in BlockOf(body, h) : i <= j + 1
    OBVIOUS
  <2> QED BY <1>8, <1>9, <1>10, <2>1 DEF BlockOK
<1>12. ASSUME NEW k \in 1..(j + 1), IsHead(body, k, c) PROVE k = h
  <2>1. k \in 1..Len(body)
    OBVIOUS
  <2> QED BY <1>1, <1>12, <2>1, HeadOnce
<1>13. FieldOK(body, c, j + 1, new)
  BY <1>1, <1>11, <1>12 DEF FieldOK
<1> QED BY <1>13 DEF new, p

(* One more line of a body.                                                *)
LEMMA BodyNext ==
  ASSUME NEW body \in Seq(Line), SimpleBody(body), NEW j \in Nat, j < Len(body),
         NEW s, BodyOK(body, j, s), ~Mark(body[j + 1]), NEW t, t = ReadSkillLine(s, body[j + 1])
  PROVE  BodyOK(body, j + 1, t)
<1> DEFINE line == body[j + 1]
           a == Above(body, j)
           b == Above(body, j + 1)
<1>1. j + 1 \in 1..Len(body) /\ line \in Line /\ j \in 0..Len(body) /\ DOMAIN body = 1..Len(body)
  OBVIOUS
<1>2. a \in 0..j /\ (a # 0 => ~body[a].indent /\ ~Blank(body[a]))
  BY <1>1, AboveIs
<1>3. /\ b = IF line.indent \/ Blank(line) THEN a ELSE j + 1
      /\ Adjoins(body, j + 1) = (b = j + 1 \/ (Adjoins(body, j) /\ line.indent))
  BY AboveNext
<1>4. /\ Inside(s) /\ s.cont = IF Opened(body, j) THEN body[a].key ELSE ""
      /\ s.cont # "" => s.fold = (body[a].val = ">")
      /\ \A c \in Names : FieldOK(body, c, j, s[c])
  BY DEF BodyOK
<1>5. \A h : j + 1 \in BlockOf(body, h) <=> b = h /\ j + 1 # h /\ ~Blank(line)
  BY <1>1 DEF BlockOf
<1>6. "name" \in Names /\ "description" \in Names /\ "" \notin Names
      /\ \A c \in Names : c = "name" \/ c = "description"
  BY DEF Names
<1>7. Opened(body, j) <=> a # 0 /\ body[a].key \in Names /\ IsBlock(body[a]) /\ Adjoins(body, j)
  BY DEF Opened
<1>8. Opened(body, j + 1) <=> b # 0 /\ body[b].key \in Names /\ IsBlock(body[b]) /\ Adjoins(body, j + 1)
  BY DEF Opened
<1>9. (a # j + 1) /\ \A h \in 1..j : h # j + 1
  BY <1>2
<1>14. ~Mark(line) /\ t = ReadSkillLine(s, line)
  OBVIOUS
<1> HIDE DEF a, b, line
<1>10. CASE Blank(line)
  <2>1. b = a
    BY <1>3, <1>10
  <2>2. /\ Inside(t) /\ t.name = s.name /\ t.description = s.description /\ t.fold = s.fold
        /\ t.cont = IF line.indent THEN s.cont ELSE ""
    BY <1>1, <1>4, <1>10, <1>14, ReadSkillNothing
  <2>3. Opened(body, j + 1) <=> Opened(body, j) /\ line.indent
    BY <1>3, <1>7, <1>8, <1>9, <2>1
  <2>4. \A c \in Names : t[c] = s[c] /\ ~IsHead(body, j + 1, c)
    BY <1>6, <1>10, <2>2 DEF IsHead, Blank, line
  <2>5. \A c \in Names : FieldOK(body, c, j + 1, t[c])
    <3> TAKE c \in Names
    <3>1. \A h \in 1..j : j + 1 \notin BlockOf(body, h)
      BY <1>5, <1>10
    <3> QED BY <1>4, <2>4, <3>1, FieldStays
  <2>6. /\ t.cont = IF Opened(body, j + 1) THEN body[b].key ELSE ""
        /\ t.cont # "" => t.fold = (body[b].val = ">")
    BY <1>4, <2>1, <2>2, <2>3
  <2> QED BY <2>2, <2>5, <2>6 DEF BodyOK, b
<1>11. CASE ~Blank(line) /\ ~line.indent /\ line.key \notin Names
  <2>1. b = j + 1 /\ body[b] = line
    BY <1>3, <1>11 DEF line
  <2>2. /\ Inside(t) /\ t.name = s.name /\ t.description = s.description /\ t.fold = s.fold
        /\ t.cont = ""
    BY <1>1, <1>4, <1>11, <1>14, ReadSkillNothing
  <2>3. ~Opened(body, j + 1)
    BY <1>8, <1>11, <2>1
  <2>4. \A c \in Names : t[c] = s[c] /\ ~IsHead(body, j + 1, c)
    BY <1>6, <1>11, <2>2 DEF IsHead, line
  <2>5. \A c \in Names : FieldOK(body, c, j + 1, t[c])
    <3> TAKE c \in Names
    <3>1. \A h \in 1..j : j + 1 \notin BlockOf(body, h)
      BY <1>5, <1>9, <2>1
    <3> QED BY <1>4, <2>4, <3>1, FieldStays
  <2> QED BY <2>2, <2>3, <2>5 DEF BodyOK
<1>12. CASE ~Blank(line) /\ ~line.indent /\ line.key \in Names
  <2>1. b = j + 1 /\ body[b] = line /\ Adjoins(body, j + 1) /\ b # 0
    <3>1. b = j + 1 /\ Adjoins(body, j + 1)
      BY <1>3, <1>12
    <3>2. j + 1 # 0
      OBVIOUS
    <3> QED BY <3>1, <3>2 DEF line
  <2>2. /\ Inside(t) /\ t.cont = (IF IsBlock(line) THEN line.key ELSE "")
        /\ IsBlock(line) => t.fold = (line.val = ">")
        /\ \A c \in Names : t[c] = IF c # line.key THEN s[c]
                                   ELSE IF IsBlock(line) THEN <<>> ELSE Plain(line.val)
    <3>1. Inside(t) /\ KeyRead(s, line, t)
      BY <1>1, <1>4, <1>12, <1>14, ReadSkillKey
    <3> QED BY <3>1 DEF KeyRead
  <2>3. Opened(body, j + 1) <=> IsBlock(line)
    BY <1>8, <1>12, <2>1
  <2>4. /\ t.cont = IF Opened(body, j + 1) THEN body[b].key ELSE ""
        /\ t.cont # "" => t.fold = (body[b].val = ">")
    BY <2>1, <2>2, <2>3
  <2>5. ASSUME NEW c \in Names PROVE FieldOK(body, c, j + 1, t[c])
    <3>1. CASE c = line.key
      <4>1. IsHead(body, j + 1, c)
        BY <1>12, <3>1 DEF IsHead, line
      <4>2. FieldOK(body, c, j + 1, IF IsBlock(line) THEN <<>> ELSE Plain(line.val))
        BY <4>1, FieldBegins DEF line
      <4>3. t[c] = IF IsBlock(line) THEN <<>> ELSE Plain(line.val)
        BY <2>2, <3>1
      <4> QED BY <4>2, <4>3
    <3>2. CASE c # line.key
      <4>1. t[c] = s[c] /\ ~IsHead(body, j + 1, c)
        BY <2>2, <3>2 DEF IsHead, line
      <4>2. \A h \in 1..j : j + 1 \notin BlockOf(body, h)
        BY <1>5, <1>9, <2>1
      <4> QED BY <1>4, <4>1, <4>2, FieldStays
    <3> QED BY <3>1, <3>2
  <2> QED BY <2>2, <2>4, <2>5 DEF BodyOK, b
<1>13. CASE ~Blank(line) /\ line.indent
  <2>1. b = a
    BY <1>3, <1>13
  <2>2. /\ b # 0 /\ Adjoins(body, j + 1)
        /\ \/ body[b].key \in Names /\ IsBlock(body[b])
           \/ {body[b].key, line.key} \cap Names = {}
    BY <1>1, <1>13 DEF SimpleBody, b, line
  <2>3. Adjoins(body, j) /\ a # 0 /\ a \in 1..j
    <3>1. Adjoins(body, j)
      BY <1>3, <1>9, <2>1, <2>2
    <3>2. a # 0
      BY <2>1, <2>2
    <3> QED BY <1>2, <3>1, <3>2
  <2>4. CASE body[b].key \in Names /\ IsBlock(body[b])
    <3>1. Opened(body, j) /\ Opened(body, j + 1)
      BY <1>7, <1>8, <2>1, <2>2, <2>3, <2>4
    <3>2. s.cont = body[a].key /\ s.cont # "" /\ s.fold = (body[a].val = ">")
      BY <1>4, <1>6, <2>1, <2>4, <3>1
    <3>3. /\ Inside(t) /\ t.cont = s.cont /\ t.fold = s.fold
          /\ \A c \in Names : t[c] = IF c = s.cont THEN append_fold(s[c], Piece(line, s.fold)) ELSE s[c]
      <4>1. Inside(t) /\ BlockRead(s, line, t)
        BY <1>1, <1>4, <1>13, <1>14, <3>2, ReadSkillBlock
      <4> QED BY <4>1 DEF BlockRead
    <3>4. /\ t.cont = IF Opened(body, j + 1) THEN body[b].key ELSE ""
          /\ t.cont # "" => t.fold = (body[b].val = ">")
      BY <2>1, <3>1, <3>2, <3>3
    <3>5. ASSUME NEW c \in Names PROVE FieldOK(body, c, j + 1, t[c])
      <4>1. CASE c = body[a].key
        <5>1. IsHead(body, a, c) /\ IsBlock(body[a])
          BY <1>2, <2>1, <2>3, <2>4, <4>1 DEF IsHead
        <5>2. j + 1 \in BlockOf(body, a)
          BY <1>5, <1>9, <1>13, <2>1
        <5>3. FieldOK(body, c, j, s[c])
          BY <1>4
        <5>4. FieldOK(body, c, j + 1, append_fold(s[c], Piece(body[j + 1], body[a].val = ">")))
          BY <2>3, <5>1, <5>2, <5>3, FieldGrows
        <5>5. t[c] = append_fold(s[c], Piece(line, s.fold))
          BY <3>2, <3>3, <4>1
        <5> QED BY <3>2, <5>4, <5>5 DEF line
      <4>2. CASE c # body[a].key
        <5>1. t[c] = s[c] /\ ~IsHead(body, j + 1, c)
          BY <1>13, <3>2, <3>3, <4>2 DEF IsHead, line
        <5>2. \A h \in 1..j : IsHead(body, h, c) => j + 1 \notin BlockOf(body, h)
          BY <1>5, <2>1, <4>2 DEF IsHead
        <5> QED BY <1>4, <5>1, <5>2, FieldStays
      <4> QED BY <4>1, <4>2
    <3> QED BY <3>3, <3>4, <3>5 DEF BodyOK, b
  <2>5. CASE {body[b].key, line.key} \cap Names = {}
    <3>1. body[a].key \notin Names /\ line.key \notin Names
      BY <2>1, <2>5
    <3>2. ~Opened(body, j) /\ ~Opened(body, j + 1)
      BY <1>7, <1>8, <2>1, <3>1
    <3>3. s.cont = ""
      BY <1>4, <3>2
    <3>4. /\ Inside(t) /\ t.name = s.name /\ t.description = s.description /\ t.cont = ""
      BY <1>1, <1>4, <1>14, <3>1, <3>3, ReadSkillNothing
    <3>5. \A c \in Names : FieldOK(body, c, j + 1, t[c])
      <4> TAKE c \in Names
      <4>1. t[c] = s[c] /\ ~IsHead(body, j + 1, c)
        BY <1>6, <1>13, <3>4 DEF IsHead, line
      <4>2. \A h \in 1..j : IsHead(body, h, c) => j + 1 \notin BlockOf(body, h)
        BY <1>5, <2>1, <3>1 DEF IsHead
      <4> QED BY <1>4, <4>1, <4>2, FieldStays
    <3> QED BY <3>2, <3>4, <3>5 DEF BodyOK
  <2> QED BY <2>2, <2>4, <2>5
<1> QED BY <1>10, <1>11, <1>12, <1>13

-----------------------------------------------------------------------------
IsSlice(s, w, from, to) == s = SubSeq(w, from + 1, to)

LEMMA SliceIs ==
  ASSUME NEW T, NEW w \in Seq(T), NEW from \in Nat, NEW to \in Nat, from <= to, to <= Len(w),
         NEW s, IsSlice(s, w, from, to)
  PROVE  /\ s \in Seq(T) /\ Len(s) \in Nat /\ from + Len(s) = to
         /\ \A k \in 1..Len(s) : s[k] = w[from + k]
<1>0. s = SubSeq(w, from + 1, to)
  BY DEF IsSlice
<1>1. Len(s) = to - from /\ s \in Seq(T)
  BY <1>0
<1>2. \A k \in 1..(to - from) : s[k] = w[from + k]
  BY <1>0
<1>3. to - from \in Nat /\ from + (to - from) = to
  OBVIOUS
<1> QED BY <1>1, <1>2, <1>3

FirstOf(T) == IF T # {} THEN Min(T) ELSE 0

(* What is between the marks: the first of T closes the body.              *)
LEMMA BetweenIs ==
  ASSUME NEW doc \in Seq(Line), NEW o \in 1..Len(doc), NEW T \in SUBSET ((o + 1)..Len(doc)),
         NEW b, b = Between(doc, o, FirstOf(T))
  PROVE  /\ b \in Seq(Line) /\ Len(b) \in Nat /\ o + Len(b) <= Len(doc)
         /\ \A k \in 1..Len(b) : b[k] = doc[o + k] /\ o + k \notin T
         /\ o + Len(b) < Len(doc) => o + Len(b) + 1 \in T
<1>0. Len(doc) \in Nat /\ o \in Nat
  OBVIOUS
<1>1. CASE T = {}
  <2>1. IsSlice(b, doc, o, Len(doc))
    BY <1>1 DEF Between, IsSlice, FirstOf
  <2>4. o <= Len(doc) /\ Len(doc) <= Len(doc)
    OBVIOUS
  <2>2. /\ b \in Seq(Line) /\ Len(b) \in Nat /\ o + Len(b) = Len(doc)
        /\ \A k \in 1..Len(b) : b[k] = doc[o + k]
    BY <1>0, <2>1, <2>4, SliceIs
  <2>3. o + Len(b) <= Len(doc) /\ ~(o + Len(b) < Len(doc))
    BY ONLY <1>0, <2>2
  <2> QED BY <1>1, <2>2, <2>3
<1>2. CASE T # {}
  <2> DEFINE c == Min(T)
  <2>1. c \in T /\ \A y \in T : c <= y
    <3>1. \A y \in (o + 1)..Len(doc) : y \in Nat
      BY <1>0
    <3>2. \A y \in T : y \in Nat
      BY <3>1
    <3>3. T \in SUBSET Nat
      BY ONLY <3>2
    <3> QED BY <1>2, <3>3, MinIsLeast
  <2>2. c \in (o + 1)..Len(doc) /\ c # 0
    <3> HIDE DEF c
    <3>1. c \in (o + 1)..Len(doc)
      BY <2>1
    <3>2. c # 0
      BY ONLY <1>0, <3>1
    <3> QED BY <3>1, <3>2
  <2>3. b = SubSeq(doc, o + 1, c - 1)
    <3>1. b = Between(doc, o, c)
      BY <1>2 DEF FirstOf
    <3> HIDE DEF c
    <3> QED BY <2>2, <3>1 DEF Between
  <2> HIDE DEF c
  <2>9. c - 1 \in Nat /\ o <= c - 1 /\ c - 1 <= Len(doc) /\ c \in Nat
    BY ONLY <1>0, <2>2
  <2>4. /\ b \in Seq(Line) /\ Len(b) \in Nat /\ o + Len(b) = c - 1
        /\ \A k \in 1..Len(b) : b[k] = doc[o + k]
    <3> DEFINE to == c - 1
    <3>1. to \in Nat /\ o <= to /\ to <= Len(doc) /\ IsSlice(b, doc, o, to)
      BY <2>3, <2>9 DEF IsSlice
    <3> HIDE DEF to
    <3>2. /\ b \in Seq(Line) /\ Len(b) \in Nat /\ o + Len(b) = to
          /\ \A k \in 1..Len(b) : b[k] = doc[o + k]
      BY <1>0, <3>1, SliceIs
    <3> QED BY <3>2 DEF to
  <2>5. o + Len(b) + 1 = c
    BY ONLY <1>0, <2>4, <2>9
  <2>6. \A k \in 1..Len(b) : o + k \notin T
    <3> TAKE k \in 1..Len(b)
    <3>1. o + k < c /\ o + k \in Int /\ c \in Int
      BY ONLY <1>0, <2>4, <2>5, <2>9, k \in 1..Len(b)
    <3>2. ~(c <= o + k)
      BY ONLY <3>1
    <3> QED BY <2>1, <3>2
  <2>7. o + Len(b) <= Len(doc)
    BY <2>4, <2>9
  <2>8. \A k \in 1..Len(b) : b[k] = doc[o + k]
    BY <2>4
  <2> QED BY <2>1, <2>4, <2>5, <2>6, <2>7, <2>8
<1> QED BY <1>1, <1>2

(* The line that opens the frontmatter.                                    *)
Opening(doc) == SelectInSeq(doc, LAMBDA line : ~Blank(line))

LEMMA OpeningIs ==
  ASSUME NEW doc \in Seq(Line)
  PROVE  /\ Opening(doc) \in 0..Len(doc)
         /\ Opening(doc) = 0 => \A i \in 1..Len(doc) : Blank(doc[i])
         /\ Opening(doc) # 0 => ~Blank(doc[Opening(doc)])
         /\ \A i \in 1..Len(doc) : i < Opening(doc) => Blank(doc[i])
<1> DEFINE I == {i \in 1..Len(doc) : ~Blank(doc[i])}
           o == Opening(doc)
<1>1. o = IF I # {} THEN Min(I) ELSE 0
  BY DEF Opening, SelectInSeq
<1>2. Len(doc) \in Nat
  OBVIOUS
<1>3. CASE I = {}
  <2>1. o = 0 /\ \A i \in 1..Len(doc) : Blank(doc[i])
    BY <1>1, <1>3
  <2> HIDE DEF o
  <2> QED BY <1>2, <2>1 DEF o
<1>4. CASE I # {}
  <2>1. I \in SUBSET Nat
    OBVIOUS
  <2>2. o = Min(I)
    BY <1>1, <1>4
  <2> HIDE DEF I, o
  <2>3. o \in I /\ \A y \in I : o <= y
    BY <1>4, <2>1, <2>2, MinIsLeast
  <2>4. o \in 1..Len(doc) /\ ~Blank(doc[o])
    BY <2>3 DEF I
  <2>5. ASSUME NEW i \in 1..Len(doc), i < o PROVE Blank(doc[i])
    <3>1. ~(o <= i)
      BY <2>4, <2>5
    <3> QED BY <2>3, <3>1 DEF I
  <2>6. o # 0 /\ o \in 0..Len(doc)
    BY <2>4
  <2> QED BY <2>4, <2>5, <2>6 DEF o
<1> QED BY <1>3, <1>4

LEMMA BodyIs ==
  ASSUME NEW doc \in Seq(Line), NEW o, o = Opening(doc), NEW b, b = Body(doc)
  PROVE  /\ b \in Seq(Line)
         /\ o = 0 \/ ~Mark(doc[o]) => b = <<>>
         /\ o # 0 /\ Mark(doc[o]) =>
              /\ Len(b) \in Nat /\ o + Len(b) <= Len(doc)
              /\ \A k \in 1..Len(b) : b[k] = doc[o + k] /\ ~Mark(b[k])
              /\ o + Len(b) < Len(doc) => Mark(doc[o + Len(b) + 1])
<1>1. o \in 0..Len(doc)
  BY OpeningIs
<1>2. b = IF o = 0 \/ ~Mark(doc[o]) THEN <<>>
          ELSE Between(doc, o, SelectInSubSeq(doc, o + 1, Len(doc), Mark))
  BY DEF Body, Opening
<1>3. CASE o = 0 \/ ~Mark(doc[o])
  <2>1. b = <<>>
    BY <1>2, <1>3
  <2>2. <<>> \in Seq(Line)
    OBVIOUS
  <2> QED BY <1>3, <2>1, <2>2
<1>4. CASE o # 0 /\ Mark(doc[o])
  <2> DEFINE T == {i \in (o + 1)..Len(doc) : Mark(doc[i])}
  <2>1. SelectInSubSeq(doc, o + 1, Len(doc), Mark) = FirstOf(T)
    BY DEF SelectInSubSeq, FirstOf
  <2>2. b = Between(doc, o, FirstOf(T))
    BY <1>2, <1>4, <2>1
  <2>3. o \in 1..Len(doc) /\ T \in SUBSET ((o + 1)..Len(doc))
    BY <1>1, <1>4
  <2>4. \A i \in (o + 1)..Len(doc) : Mark(doc[i]) => i \in T
    OBVIOUS
  <2>5. \A i \in T : Mark(doc[i])
    OBVIOUS
  <2> HIDE DEF T
  <2>6. /\ b \in Seq(Line) /\ Len(b) \in Nat /\ o + Len(b) <= Len(doc)
        /\ \A k \in 1..Len(b) : b[k] = doc[o + k] /\ o + k \notin T
        /\ o + Len(b) < Len(doc) => o + Len(b) + 1 \in T
    BY <2>2, <2>3, BetweenIs
  <2>7. \A k \in 1..Len(b) : ~Mark(b[k])
    <3> TAKE k \in 1..Len(b)
    <3>1. o + k \in (o + 1)..Len(doc)
      BY <2>3, <2>6
    <3> QED BY <2>4, <2>6, <3>1
  <2> QED BY <1>4, <2>5, <2>6, <2>7
<1> QED BY <1>3, <1>4

-----------------------------------------------------------------------------
(* After i lines of a file.                                                *)

Before(s) ==
  /\ s \in SkillState /\ ~s.in_fm /\ ~s.done
  /\ s.cont = "" /\ \A c \in Names : s[c] = <<>>

AfterLines(doc, o, b, i, s) ==
  /\ o = 0 \/ i < o => Before(s)
  /\ o # 0 /\ o <= i /\ ~Mark(doc[o]) => s.done /\ \A c \in Names : s[c] = <<>>
  /\ o # 0 /\ o <= i /\ Mark(doc[o]) =>
       IF i <= o + Len(b) THEN BodyOK(b, i - o, s)
       ELSE s.done /\ \A c \in Names : FieldOK(b, c, Len(b), s[c])

RunOK(doc, i, s) == AfterLines(doc, Opening(doc), Body(doc), i, s)

LEMMA StartIsBefore == Before(SkillStart)
<1>1. <<>> \in Seq(Pieces)
  OBVIOUS
<1> QED BY <1>1 DEF Before, SkillStart, SkillState, Names

LEMMA BodyStarts ==
  ASSUME NEW body \in Seq(Line), NEW s, Inside(s), s.cont = "", \A c \in Names : s[c] = <<>>
  PROVE  BodyOK(body, 0, s)
<1>1. Above(body, 0) = 0
  <2>1. Len(body) \in Nat
    BY ONLY body \in Seq(Line)
  <2>2. 0 \in 0..Len(body)
    BY ONLY <2>1
  <2> DEFINE a == Above(body, 0)
  <2>3. a \in 0..0
    BY <2>2, AboveIs
  <2> HIDE DEF a
  <2>4. a = 0
    BY ONLY <2>3
  <2> QED BY <2>4 DEF a
<1>2. ~Opened(body, 0)
  BY <1>1 DEF Opened
<1>3. \A c \in Names : FieldOK(body, c, 0, s[c])
  <2>1. \A h : h \notin 1..0
    BY ONLY TRUE
  <2> QED BY <2>1 DEF FieldOK
<1> QED BY <1>2, <1>3 DEF BodyOK

LEMMA RunNext ==
  ASSUME NEW doc \in Seq(Line), SimpleBody(Body(doc)), NEW i \in Nat, i < Len(doc),
         NEW s, RunOK(doc, i, s), NEW t, t = ReadSkillLine(s, doc[i + 1])
  PROVE  RunOK(doc, i + 1, t)
<1> DEFINE o == Opening(doc)
           b == Body(doc)
           line == doc[i + 1]
<1>0. Len(doc) \in Nat /\ i + 1 \in 1..Len(doc) /\ line \in Line
  OBVIOUS
<1>1. /\ o \in 0..Len(doc)
      /\ o = 0 => Blank(line)
      /\ o # 0 => ~Blank(doc[o])
      /\ i + 1 < o => Blank(line)
  BY <1>0, OpeningIs
<1>2. b \in Seq(Line) /\ Len(b) \in Nat
  <2>1. b \in Seq(Line)
    BY BodyIs
  <2> QED BY <2>1
<1>3. o # 0 /\ Mark(doc[o]) =>
         /\ o + Len(b) <= Len(doc)
         /\ \A k \in 1..Len(b) : b[k] = doc[o + k] /\ ~Mark(b[k])
         /\ o + Len(b) < Len(doc) => Mark(doc[o + Len(b) + 1])
  BY BodyIs
<1>4. /\ o = 0 \/ i < o => Before(s)
      /\ o # 0 /\ o <= i /\ ~Mark(doc[o]) => s.done /\ \A c \in Names : s[c] = <<>>
      /\ o # 0 /\ o <= i /\ Mark(doc[o]) =>
           IF i <= o + Len(b) THEN BodyOK(b, i - o, s)
           ELSE s.done /\ \A c \in Names : FieldOK(b, c, Len(b), s[c])
  BY DEF RunOK, AfterLines
<1>5. SimpleBody(b) /\ t = ReadSkillLine(s, line)
  OBVIOUS
<1>6. SUFFICES AfterLines(doc, o, b, i + 1, t)
  BY DEF RunOK
<1> HIDE DEF o, b
<1>7. ASSUME Before(s)
      PROVE  /\ t \in SkillState /\ t.in_fm = Mark(line) /\ t.done = (~Mark(line) /\ ~Blank(line))
             /\ t.cont = "" /\ \A c \in Names : t[c] = <<>>
  <2>1. /\ t \in SkillState /\ t.in_fm = Mark(line) /\ t.done = (~Mark(line) /\ ~Blank(line))
        /\ t.name = s.name /\ t.description = s.description /\ t.cont = s.cont
    BY <1>0, <1>5, <1>7, ReadSkillBefore DEF Before
  <2> QED BY <1>7, <2>1 DEF Before, Names
<1>8. CASE o = 0 \/ i + 1 < o
  <2>1. Before(s) /\ Blank(line)
    BY <1>1, <1>4, <1>8
  <2>2. Before(t)
    BY <1>7, <2>1 DEF Before, Mark, Blank
  <2>3. ~(o # 0 /\ o <= i + 1)
    BY <1>1, <1>8
  <2> QED BY <2>2, <2>3 DEF AfterLines
<1>9. CASE o = i + 1
  <2>1. Before(s) /\ ~Blank(line) /\ doc[o] = line /\ o # 0
    <3>1. i < o /\ o # 0
      BY <1>9
    <3> QED BY <1>1, <1>4, <1>9, <3>1
  <2>2. CASE ~Mark(line)
    <3>1. t.done /\ \A c \in Names : t[c] = <<>>
      BY <1>7, <2>1, <2>2
    <3>2. ~(i + 1 < o)
      BY <1>1, <1>9
    <3> QED BY <2>1, <2>2, <3>1, <3>2 DEF AfterLines
  <2>3. CASE Mark(line)
    <3>1. BodyOK(b, 0, t)
      BY <1>2, <1>7, <2>1, <2>3, BodyStarts DEF Inside
    <3>2. (i + 1) - o = 0 /\ i + 1 <= o + Len(b) /\ ~(i + 1 < o)
      BY <1>1, <1>2, <1>9
    <3>3. BodyOK(b, (i + 1) - o, t)
      BY <3>1, <3>2
    <3>4. /\ ~(o = 0 \/ i + 1 < o) /\ Mark(doc[o])
      BY <2>1, <2>3, <3>2
    <3>5. i + 1 <= o + Len(b)
      BY <3>2
    <3> QED BY <3>3, <3>4, <3>5 DEF AfterLines
  <2> QED BY <2>2, <2>3
<1>10. CASE o # 0 /\ o <= i /\ ~Mark(doc[o])
  <2>1. s.done /\ \A c \in Names : s[c] = <<>>
    BY <1>4, <1>10
  <2>2. t = s
    BY <1>5, <2>1, ReadSkillDone
  <2>3. ~(i + 1 < o)
    BY <1>1, <1>10
  <2> QED BY <1>10, <2>1, <2>2, <2>3 DEF AfterLines
<1>11. CASE o # 0 /\ o <= i /\ Mark(doc[o])
  <2>0. ~(i + 1 < o) /\ o \in Nat
    BY <1>1, <1>11
  <2>1. CASE i + 1 <= o + Len(b)
    <3> DEFINE j == i - o
    <3>1. j \in Nat /\ j < Len(b) /\ i <= o + Len(b) /\ j + 1 = (i + 1) - o /\ o + (j + 1) = i + 1
      BY <1>2, <1>11, <2>0, <2>1
    <3>2. BodyOK(b, j, s)
      BY <1>4, <1>11, <3>1
    <3>3. j + 1 \in 1..Len(b)
      BY <1>2, <3>1
    <3> HIDE DEF j
    <3>4. b[j + 1] = line /\ ~Mark(b[j + 1])
      BY <1>3, <1>11, <3>1, <3>3
    <3>5. BodyOK(b, j + 1, t)
      BY <1>2, <1>5, <3>1, <3>2, <3>4, BodyNext
    <3> QED BY <1>11, <2>0, <2>1, <3>1, <3>5 DEF AfterLines
  <2>2. CASE i = o + Len(b)
    <3>1. BodyOK(b, Len(b), s)
      <4>1. i - o = Len(b) /\ i <= o + Len(b)
        BY <1>2, <2>0, <2>2
      <4> QED BY <1>4, <1>11, <4>1
    <3>2. Mark(line)
      <4>1. o + Len(b) < Len(doc) /\ o + Len(b) + 1 = i + 1
        BY <2>2
      <4> QED BY <1>3, <1>11, <4>1
    <3>3. t.done /\ t.name = s.name /\ t.description = s.description
      BY <1>0, <1>5, <3>1, <3>2, ReadSkillMark DEF BodyOK, Inside
    <3>4. \A c \in Names : FieldOK(b, c, Len(b), t[c])
      BY <3>1, <3>3 DEF BodyOK, Names
    <3>5. ~(i + 1 <= o + Len(b))
      BY <1>2, <2>0, <2>2
    <3> QED BY <1>11, <2>0, <3>3, <3>4, <3>5 DEF AfterLines
  <2>3. CASE o + Len(b) < i
    <3>1. ~(i <= o + Len(b)) /\ ~(i + 1 <= o + Len(b))
      BY <1>2, <2>0, <2>3
    <3>2. s.done /\ \A c \in Names : FieldOK(b, c, Len(b), s[c])
      BY <1>4, <1>11, <3>1
    <3>3. t = s
      BY <1>5, <3>2, ReadSkillDone
    <3> QED BY <1>11, <2>0, <3>1, <3>2, <3>3 DEF AfterLines
  <2>4. i + 1 <= o + Len(b) \/ i = o + Len(b) \/ o + Len(b) < i
    BY <1>2, <2>0
  <2> QED BY <2>1, <2>2, <2>3, <2>4
<1>12. o = 0 \/ i + 1 < o \/ o = i + 1 \/ (o # 0 /\ o <= i)
  BY <1>1
<1> QED BY <1>8, <1>9, <1>10, <1>11, <1>12

(* The fields at the end of the file.                                      *)
LEMMA FieldIsWritten ==
  ASSUME NEW doc \in Seq(Line), NEW c, NEW field, FieldOK(Body(doc), c, Len(Body(doc)), field)
  PROVE  field = Written(doc, c)
<1> DEFINE b == Body(doc)
           I == {i \in 1..Len(b) : ~b[i].indent /\ b[i].key = c}
           h == IF I # {} THEN Min(I) ELSE 0
<1>1. Written(doc, c) =
        IF h = 0 THEN <<>>
        ELSE IF ~IsBlock(b[h]) THEN Plain(b[h].val)
        ELSE FlattenSeq([i \in DOMAIN b |-> BlockPiece(b, h, i)])
  BY DEF Written, SelectInSeq
<1>2. b \in Seq(Line) /\ DOMAIN b = 1..Len(b)
  <2>1. b \in Seq(Line)
    BY BodyIs
  <2> QED BY <2>1
<1>3. /\ (\A i \in 1..Len(b) : ~IsHead(b, i, c)) => field = <<>>
      /\ \A k \in 1..Len(b) : IsHead(b, k, c) => BlockOK(b, k, Len(b), field)
  BY DEF FieldOK
<1>4. \A i \in 1..Len(b) : i \in I <=> IsHead(b, i, c)
  BY DEF IsHead
<1>5. I \in SUBSET Nat /\ \A i \in I : i \in 1..Len(b)
  OBVIOUS
<1> HIDE DEF b, I
<1>6. CASE I = {}
  <2>1. h = 0 /\ field = <<>>
    BY <1>3, <1>4, <1>6
  <2> QED BY <1>1, <2>1
<1>7. CASE I # {}
  <2>1. h \in I
    BY <1>5, <1>7, MinIsLeast
  <2>2. h \in 1..Len(b) /\ IsHead(b, h, c)
    BY <1>4, <1>5, <2>1
  <2>3. h # 0
    BY <2>2
  <2> HIDE DEF h
  <2>4. BlockOK(b, h, Len(b), field)
    BY <1>3, <2>2
  <2> QED BY <1>1, <1>2, <2>3, <2>4 DEF BlockOK, BlockTo
<1> QED BY <1>6, <1>7

(* A file the parser is made for is parsed as it is written.               *)
LEMMA SkillParsed ==
  ASSUME NEW doc \in Seq(Line), Simple(doc), NEW c \in Names
  PROVE  parse_frontmatter(doc)[c] = Written(doc, c)
<1>1. PICK f : SkillRun(doc, f, Len(doc)) /\ parse_frontmatter(doc) = f[Len(doc)]
  BY SkillRunIs
<1>2. SimpleBody(Body(doc))
  BY DEF Simple, SimpleBody, Names
<1>3. Len(doc) \in Nat /\ Opening(doc) \in 0..Len(doc)
  BY OpeningIs
<1> DEFINE G == {i \in Nat : i <= Len(doc) => RunOK(doc, i, f[i])}
<1>4. 0 \in G
  <2>1. f[0] = SkillStart /\ Before(f[0])
    BY <1>1, StartIsBefore DEF SkillRun
  <2>2. Opening(doc) = 0 \/ ~(Opening(doc) <= 0)
    BY <1>3
  <2> QED BY <2>1, <2>2 DEF RunOK, AfterLines, AfterLines
<1>5. ASSUME NEW i \in G PROVE i + 1 \in G
  <2> SUFFICES ASSUME i + 1 <= Len(doc) PROVE RunOK(doc, i + 1, f[i + 1])
    OBVIOUS
  <2>1. i \in Nat /\ i < Len(doc) /\ i <= Len(doc) /\ i + 1 \in 1..Len(doc) /\ (i + 1) - 1 = i
    BY <1>3
  <2>2. RunOK(doc, i, f[i])
    BY <2>1
  <2>3. f[i + 1] = ReadSkillLine(f[i], doc[i + 1])
    BY <1>1, <2>1 DEF SkillRun
  <2> QED BY <1>2, <2>1, <2>2, <2>3, RunNext
<1>6. G = Nat
  <2>1. G \in SUBSET Nat
    OBVIOUS
  <2> HIDE DEF G
  <2> QED BY <1>4, <1>5, <2>1, SetInduction
<1> DEFINE n == Len(doc)
           o == Opening(doc)
           b == Body(doc)
           field == f[n][c]
<1>7. RunOK(doc, n, f[n])
  BY <1>3, <1>6
<1>8. b \in Seq(Line) /\ Len(b) \in Nat
  <2>1. b \in Seq(Line)
    BY BodyIs
  <2> QED BY <2>1
<1>9. FieldOK(b, c, Len(b), field)
  <2>1. CASE o = 0 \/ ~Mark(doc[o])
    <3>1. o = 0 \/ (o # 0 /\ o <= n)
      BY <1>3
    <3>2. field = <<>>
      BY <1>7, <2>1, <3>1 DEF RunOK, AfterLines, Before
    <3>3. b = <<>>
      BY <2>1, BodyIs
    <3>4. Len(b) = 0
      BY <3>3
    <3> HIDE DEF b, field, n, o
    <3>5. ~\E h : h \in 1..Len(b)
      BY <3>4
    <3> QED BY <3>2, <3>5 DEF FieldOK
  <2>2. CASE o # 0 /\ Mark(doc[o])
    <3>1. o <= n /\ o + Len(b) <= n /\ o \in Nat
      BY <1>3, <2>2, BodyIs
    <3>2. IF n <= o + Len(b) THEN BodyOK(b, n - o, f[n])
          ELSE f[n].done /\ \A d \in Names : FieldOK(b, d, Len(b), f[n][d])
      BY <1>7, <2>2, <3>1 DEF RunOK, AfterLines
    <3>3. CASE n <= o + Len(b)
      <4>1. n - o = Len(b)
        BY <1>3, <1>8, <3>1, <3>3
      <4> QED BY <3>2, <3>3, <4>1 DEF BodyOK
    <3>4. CASE ~(n <= o + Len(b))
      BY <3>2, <3>4
    <3> QED BY <3>3, <3>4
  <2> QED BY <2>1, <2>2
<1>10. field = Written(doc, c)
  BY <1>9, FieldIsWritten
<1> QED BY <1>1, <1>10

-----------------------------------------------------------------------------
(* What parse_rule makes of a file.                                        *)

RuleState == [done : BOOLEAN, in_paths : BOOLEAN, paths : Seq(STRING)]

RuleRun(doc, f, n) ==
  f[1] = RuleStart /\ \A i \in 1..n : i # 1 => f[i] = ReadRuleLine(f[i - 1], doc[i])

LEMMA RuleRunExists ==
  ASSUME NEW doc \in Seq(Line), doc # <<>>
  PROVE  \E f : f = [i \in 1..Len(doc) |->
                       IF i = 1 THEN RuleStart ELSE ReadRuleLine(f[i - 1], doc[i])]
<1> DEFINE Some(n) == \E f : f = [i \in 1..n |-> f[i]] /\ RuleRun(doc, f, n)
           G == {n \in Nat : Some(n + 1)}
<1>1. Some(0 + 1)
  <2> DEFINE f == [i \in 1..(0 + 1) |-> RuleStart]
  <2>1. f = [i \in 1..(0 + 1) |-> f[i]] /\ f[1] = RuleStart
    OBVIOUS
  <2> HIDE DEF f
  <2>2. \A i \in 1..(0 + 1) : i = 1
    OBVIOUS
  <2>3. RuleRun(doc, f, 0 + 1)
    BY <2>1, <2>2 DEF RuleRun
  <2> QED BY <2>1, <2>3
<1>2. ASSUME NEW m \in G PROVE m + 1 \in G
  <2> DEFINE n == m + 1
  <2>0. n \in Nat /\ n >= 1
    OBVIOUS
  <2>1. PICK f : f = [i \in 1..n |-> f[i]] /\ RuleRun(doc, f, n)
    OBVIOUS
  <2> HIDE DEF n
  <2> DEFINE last == ReadRuleLine(f[n], doc[n + 1])
             g == [i \in 1..(n + 1) |-> IF i = n + 1 THEN last ELSE f[i]]
  <2> HIDE DEF last
  <2>2. \A i \in 1..n : g[i] = f[i]
    BY <2>0
  <2>3. g[n + 1] = last /\ g = [i \in 1..(n + 1) |-> g[i]]
    BY <2>0
  <2> HIDE DEF g
  <2>4. g[1] = RuleStart
    BY <2>0, <2>1, <2>2 DEF RuleRun
  <2>5. ASSUME NEW i \in 1..(n + 1), i # 1 PROVE g[i] = ReadRuleLine(g[i - 1], doc[i])
    <3>1. CASE i = n + 1
      <4>1. i - 1 = n /\ n \in 1..n
        BY <2>0, <3>1
      <4>2. g[i - 1] = f[n] /\ g[i] = last
        BY <2>2, <2>3, <3>1, <4>1
      <4> QED BY <3>1, <4>2 DEF last
    <3>2. CASE i # n + 1
      <4>1. i \in 1..n /\ i - 1 \in 1..n
        BY <2>0, <2>5, <3>2
      <4>2. f[i] = ReadRuleLine(f[i - 1], doc[i])
        BY <2>1, <2>5, <4>1 DEF RuleRun
      <4>3. g[i] = f[i] /\ g[i - 1] = f[i - 1]
        BY <2>2, <4>1
      <4> QED BY <4>2, <4>3
    <3> QED BY <3>1, <3>2
  <2>6. RuleRun(doc, g, n + 1)
    BY <2>4, <2>5 DEF RuleRun
  <2>7. Some(n + 1)
    BY <2>3, <2>6
  <2> HIDE DEF Some
  <2> QED BY <2>0, <2>7 DEF n
<1> HIDE DEF Some
<1>3. G = Nat
  <2>1. G \in SUBSET Nat /\ 0 \in G
    BY <1>1
  <2> HIDE DEF G
  <2> QED BY <1>2, <2>1, SetInduction
<1>4. Some(Len(doc))
  <2>1. Len(doc) - 1 \in Nat /\ (Len(doc) - 1) + 1 = Len(doc)
    OBVIOUS
  <2>2. Some((Len(doc) - 1) + 1)
    BY <1>3, <2>1
  <2> QED BY <2>1, <2>2
<1>5. PICK f : f = [i \in 1..Len(doc) |-> f[i]] /\ RuleRun(doc, f, Len(doc))
  BY <1>4 DEF Some
<1>6. \A i \in 1..Len(doc) : f[i] = IF i = 1 THEN RuleStart ELSE ReadRuleLine(f[i - 1], doc[i])
  BY <1>5 DEF RuleRun
<1>7. f = [i \in 1..Len(doc) |-> IF i = 1 THEN RuleStart ELSE ReadRuleLine(f[i - 1], doc[i])]
  BY <1>5, <1>6
<1> QED BY <1>7

LEMMA RuleRunIs ==
  ASSUME NEW doc \in Seq(Line), HasFrontmatter(doc)
  PROVE  \E f : RuleRun(doc, f, Len(doc)) /\ parse_rule(doc) = f[Len(doc)].paths
<1> DEFINE f == CHOOSE f : f = [i \in 1..Len(doc) |->
                  IF i = 1 THEN RuleStart ELSE ReadRuleLine(f[i - 1], doc[i])]
<1>0. doc # <<>>
  BY DEF HasFrontmatter
<1>1. f = [i \in 1..Len(doc) |-> IF i = 1 THEN RuleStart ELSE ReadRuleLine(f[i - 1], doc[i])]
  BY <1>0, RuleRunExists
<1>2. parse_rule(doc) = f[Len(doc)].paths
  BY DEF parse_rule
<1> HIDE DEF f
<1>3. \A i \in 1..Len(doc) : f[i] = IF i = 1 THEN RuleStart ELSE ReadRuleLine(f[i - 1], doc[i])
  BY <1>1
<1>4. 1 \in 1..Len(doc)
  BY <1>0
<1>5. f[1] = RuleStart
  BY <1>3, <1>4
<1>6. \A i \in 1..Len(doc) : i # 1 => f[i] = ReadRuleLine(f[i - 1], doc[i])
  BY <1>3
<1> QED BY <1>2, <1>5, <1>6 DEF RuleRun

LEMMA ReadRuleDone ==
  ASSUME NEW s, NEW line, s.done PROVE ReadRuleLine(s, line) = s
BY DEF ReadRuleLine

LEMMA ReadRuleMark ==
  ASSUME NEW s \in RuleState, NEW line \in Line, ~s.done, ~line.indent, Mark(line),
         NEW t, t = ReadRuleLine(s, line)
  PROVE  t.done /\ t.paths = s.paths
<1>1. t = [s EXCEPT !.done = TRUE]
  BY DEF ReadRuleLine
<1> QED BY <1>1 DEF RuleState

LEMMA ReadRuleKey ==
  ASSUME NEW s \in RuleState, NEW line \in Line, ~s.done, ~line.indent, ~Mark(line),
         NEW t, t = ReadRuleLine(s, line)
  PROVE  t \in RuleState /\ ~t.done /\ t.paths = s.paths /\ t.in_paths = (line.key = "paths")
<1>1. t = [s EXCEPT !.in_paths = (line.key = "paths")]
  BY DEF ReadRuleLine
<1>2. (line.key = "paths") \in BOOLEAN
  OBVIOUS
<1> QED BY <1>1, <1>2 DEF RuleState

LEMMA ReadRuleItem ==
  ASSUME NEW s \in RuleState, NEW line \in Line, ~s.done, line.indent,
         s.in_paths, line.key = "-", line.val # "", Len(s.paths) < MaxRulePaths,
         NEW t, t = ReadRuleLine(s, line)
  PROVE  t \in RuleState /\ ~t.done /\ t.paths = Append(s.paths, line.val) /\ t.in_paths = s.in_paths
<1>1. t = [s EXCEPT !.paths = Append(s.paths, line.val)]
  BY DEF ReadRuleLine
<1>2. s.paths \in Seq(STRING) /\ line.val \in STRING
  BY DEF RuleState, Line
<1>3. Append(s.paths, line.val) \in Seq(STRING)
  BY <1>2, RowAdded
<1> QED BY <1>1, <1>3 DEF RuleState

LEMMA ReadRuleOther ==
  ASSUME NEW s \in RuleState, NEW line \in Line, ~s.done, line.indent,
         ~s.in_paths \/ line.key # "-" \/ line.val = "" \/ ~(Len(s.paths) < MaxRulePaths)
  PROVE  ReadRuleLine(s, line) = s
BY DEF ReadRuleLine

-----------------------------------------------------------------------------
(* The invariant of a body: the globs of the lines read, and no more.      *)

Listing(body, j) ==
  Above(body, j) # 0 /\ body[Above(body, j)].key = "paths" /\ Adjoins(body, j)

GlobsTo(body, j) == {i \in GlobLines(body) : i <= j}

KeptTo(body, j) == {i \in GlobsKept(body) : i <= j}

PathsOK(body, j, paths) ==
  /\ paths \in Seq(STRING)
  /\ {paths[k] : k \in DOMAIN paths} = {body[i].val : i \in KeptTo(body, j)}
  /\ LET n == Cardinality(GlobsTo(body, j))
     IN  Len(paths) = IF n < MaxRulePaths THEN n ELSE MaxRulePaths

ListOK(body, j, s) ==
  /\ s \in RuleState /\ ~s.done
  /\ s.in_paths <=> Listing(body, j)
  /\ PathsOK(body, j, s.paths)

LEMMA GlobsAre ==
  ASSUME NEW body \in Seq(Line), NEW j
  PROVE  IsFiniteSet(GlobsTo(body, j)) /\ Cardinality(GlobsTo(body, j)) \in Nat
<1>1. GlobLines(body) \subseteq 1..Len(body) /\ Len(body) \in Nat
  <2>1. Len(body) \in Nat /\ DOMAIN body = 1..Len(body)
    BY ONLY body \in Seq(Line)
  <2>2. GlobLines(body) \subseteq DOMAIN body
    BY DEF GlobLines
  <2> QED BY <2>1, <2>2
<1>2. IsFiniteSet(1..Len(body))
  BY <1>1, FS_Interval
<1>3. GlobsTo(body, j) \subseteq 1..Len(body)
  BY <1>1 DEF GlobsTo
<1>4. IsFiniteSet(GlobsTo(body, j))
  BY <1>2, <1>3, FS_Subset
<1> QED BY <1>4, FS_CardinalityType

(* One more line: it is a glob, and it is kept if there is room.           *)
LEMMA GlobsNext ==
  ASSUME NEW body \in Seq(Line), NEW j \in Nat, j < Len(body)
  PROVE  /\ GlobsTo(body, j + 1) =
              IF j + 1 \in GlobLines(body) THEN GlobsTo(body, j) \cup {j + 1} ELSE GlobsTo(body, j)
         /\ KeptTo(body, j + 1) =
              IF j + 1 \in GlobLines(body) /\ Cardinality(GlobsTo(body, j)) < MaxRulePaths
              THEN KeptTo(body, j) \cup {j + 1} ELSE KeptTo(body, j)
<1>1. \A i \in GlobLines(body) : i \in Nat
  <2>1. \A i \in DOMAIN body : i \in Nat
    BY ONLY body \in Seq(Line)
  <2>2. GlobLines(body) \subseteq DOMAIN body
    BY DEF GlobLines
  <2> QED BY <2>1, <2>2
<1>2. \A i \in GlobLines(body) : i <= j + 1 <=> i <= j \/ i = j + 1
  BY <1>1
<1>3. j + 1 <= j + 1
  OBVIOUS
<1>4. {i \in GlobLines(body) : i < j + 1} = GlobsTo(body, j)
  <2>1. \A i \in GlobLines(body) : i < j + 1 <=> i <= j
    BY <1>1
  <2> QED BY <2>1 DEF GlobsTo
<1>5. /\ GlobsKept(body) \subseteq GlobLines(body)
      /\ j + 1 \in GlobsKept(body) <=>
           j + 1 \in GlobLines(body) /\ Cardinality(GlobsTo(body, j)) < MaxRulePaths
  BY <1>4 DEF GlobsKept
<1>6. GlobsTo(body, j + 1) =
        IF j + 1 \in GlobLines(body) THEN GlobsTo(body, j) \cup {j + 1} ELSE GlobsTo(body, j)
  BY <1>2, <1>3 DEF GlobsTo
<1>7. KeptTo(body, j + 1) =
        IF j + 1 \in GlobsKept(body) THEN KeptTo(body, j) \cup {j + 1} ELSE KeptTo(body, j)
  BY <1>2, <1>3, <1>5 DEF KeptTo
<1> QED BY <1>5, <1>6, <1>7

LEMMA PathsStay ==
  ASSUME NEW body \in Seq(Line), NEW j \in Nat, j < Len(body), j + 1 \notin GlobLines(body),
         NEW paths, PathsOK(body, j, paths)
  PROVE  PathsOK(body, j + 1, paths)
BY GlobsNext DEF PathsOK

(* The cardinality of the globs read so far, with line j + 1 a glob.       *)
LEMMA GlobCounted ==
  ASSUME NEW body \in Seq(Line), NEW j \in Nat, j < Len(body), j + 1 \in GlobLines(body)
  PROVE  /\ Cardinality(GlobsTo(body, j)) \in Nat
         /\ Cardinality(GlobsTo(body, j + 1)) = Cardinality(GlobsTo(body, j)) + 1
<1> DEFINE G == GlobsTo(body, j)
<1>1. GlobsTo(body, j + 1) = G \cup {j + 1}
  BY GlobsNext
<1>2. j + 1 \notin G
  BY DEF GlobsTo
<1>3. IsFiniteSet(G) /\ Cardinality(G) \in Nat
  BY GlobsAre
<1> HIDE DEF G
<1>4. Cardinality(G \cup {j + 1}) = Cardinality(G) + 1
  BY <1>2, <1>3, FS_AddElement
<1> QED BY <1>1, <1>3, <1>4 DEF G

LEMMA PathsFull ==
  ASSUME NEW body \in Seq(Line), NEW j \in Nat, j < Len(body), j + 1 \in GlobLines(body),
         NEW paths, PathsOK(body, j, paths), ~(Len(paths) < MaxRulePaths)
  PROVE  PathsOK(body, j + 1, paths)
<1> DEFINE n == Cardinality(GlobsTo(body, j))
           m == Cardinality(GlobsTo(body, j + 1))
<1>1. n \in Nat /\ m = n + 1
  BY GlobCounted
<1>2. /\ paths \in Seq(STRING) /\ Len(paths) = IF n < MaxRulePaths THEN n ELSE MaxRulePaths
      /\ {paths[k] : k \in DOMAIN paths} = {body[i].val : i \in KeptTo(body, j)}
  BY DEF PathsOK
<1>3. KeptTo(body, j + 1) = IF n < MaxRulePaths THEN KeptTo(body, j) \cup {j + 1} ELSE KeptTo(body, j)
  BY GlobsNext
<1>4. MaxRulePaths \in Nat
  BY CapsAssumption
<1> HIDE DEF n, m
<1>5. ~(n < MaxRulePaths)
  BY <1>2
<1>6. ~(m < MaxRulePaths)
  BY <1>1, <1>4, <1>5
<1>7. KeptTo(body, j + 1) = KeptTo(body, j) /\ Len(paths) = IF m < MaxRulePaths THEN m ELSE MaxRulePaths
  BY <1>2, <1>3, <1>5, <1>6
<1> QED BY <1>2, <1>7 DEF PathsOK, m

LEMMA PathsGrow ==
  ASSUME NEW body \in Seq(Line), NEW j \in Nat, j < Len(body), j + 1 \in GlobLines(body),
         NEW paths, PathsOK(body, j, paths), Len(paths) < MaxRulePaths
  PROVE  PathsOK(body, j + 1, Append(paths, body[j + 1].val))
<1> DEFINE v == body[j + 1].val
           new == Append(paths, v)
           K == KeptTo(body, j)
           n == Cardinality(GlobsTo(body, j))
           m == Cardinality(GlobsTo(body, j + 1))
<1>1. v \in STRING
  <2>1. j + 1 \in 1..Len(body)
    OBVIOUS
  <2>2. body[j + 1] \in Line
    BY <2>1
  <2> QED BY <2>2 DEF Line
<1>2. /\ paths \in Seq(STRING) /\ Len(paths) = IF n < MaxRulePaths THEN n ELSE MaxRulePaths
      /\ {paths[k] : k \in DOMAIN paths} = {body[i].val : i \in K}
  BY DEF PathsOK
<1>3. KeptTo(body, j + 1) = IF n < MaxRulePaths THEN K \cup {j + 1} ELSE K
  BY GlobsNext
<1>4. n \in Nat /\ m = n + 1 /\ MaxRulePaths \in Nat
  BY GlobCounted, CapsAssumption
<1>5. {body[i].val : i \in K \cup {j + 1}} = {body[i].val : i \in K} \cup {v}
  OBVIOUS
<1> HIDE DEF v, K, n, m
<1>6. n < MaxRulePaths /\ Len(paths) = n
  BY <1>2, <1>4
<1>7. /\ new \in Seq(STRING) /\ Len(paths) \in Nat /\ Len(new) = Len(paths) + 1
      /\ DOMAIN paths = 1..Len(paths) /\ DOMAIN new = 1..(Len(paths) + 1)
      /\ \A k \in DOMAIN paths : new[k] = paths[k]
      /\ new[Len(paths) + 1] = v
  BY <1>1, <1>2, RowAdded
<1>8. \A k : k \in DOMAIN new <=> k \in DOMAIN paths \/ k = Len(paths) + 1
  BY <1>7
<1> HIDE DEF new
<1>9. {new[k] : k \in DOMAIN new} = {paths[k] : k \in DOMAIN paths} \cup {v}
  <2>1. \A k \in DOMAIN new : new[k] \in {paths[i] : i \in DOMAIN paths} \cup {v}
    BY <1>7, <1>8
  <2>2. \A k \in DOMAIN paths : paths[k] \in {new[i] : i \in DOMAIN new}
    BY <1>7, <1>8
  <2>3. v \in {new[i] : i \in DOMAIN new}
    BY <1>7, <1>8
  <2> QED BY <2>1, <2>2, <2>3
<1>10. Len(new) = IF m < MaxRulePaths THEN m ELSE MaxRulePaths
  <2>1. Len(new) = m
    BY ONLY <1>4, <1>6, <1>7
  <2> QED BY ONLY <1>4, <1>6, <2>1
<1>11. {new[k] : k \in DOMAIN new} = {body[i].val : i \in KeptTo(body, j + 1)}
  BY <1>2, <1>3, <1>5, <1>6, <1>9
<1>12. PathsOK(body, j + 1, new)
  BY <1>7, <1>10, <1>11 DEF PathsOK, m
<1> QED BY <1>12 DEF new, v

LEMMA ListNext ==
  ASSUME NEW body \in Seq(Line), NEW j \in Nat, j < Len(body),
         NEW s, ListOK(body, j, s), body[j + 1].indent \/ ~Mark(body[j + 1]),
         NEW t, t = ReadRuleLine(s, body[j + 1])
  PROVE  ListOK(body, j + 1, t)
<1> DEFINE line == body[j + 1]
           a == Above(body, j)
           b == Above(body, j + 1)
<1>1. j + 1 \in 1..Len(body) /\ line \in Line /\ j \in 0..Len(body) /\ DOMAIN body = 1..Len(body)
  OBVIOUS
<1>2. a \in 0..j
  BY <1>1, AboveIs
<1>3. /\ b = IF line.indent \/ Blank(line) THEN a ELSE j + 1
      /\ Adjoins(body, j + 1) = (b = j + 1 \/ (Adjoins(body, j) /\ line.indent))
  BY AboveNext
<1>4. s \in RuleState /\ ~s.done /\ (s.in_paths <=> Listing(body, j)) /\ PathsOK(body, j, s.paths)
  BY DEF ListOK
<1>5. Listing(body, j) <=> a # 0 /\ body[a].key = "paths" /\ Adjoins(body, j)
  BY DEF Listing
<1>6. Listing(body, j + 1) <=> b # 0 /\ body[b].key = "paths" /\ Adjoins(body, j + 1)
  BY DEF Listing
<1>7. j + 1 \in GlobLines(body) <=>
        /\ line.indent /\ line.key = "-" /\ line.val # ""
        /\ b # 0 /\ body[b].key = "paths" /\ Adjoins(body, j + 1)
  BY <1>1 DEF GlobLines
<1>9. t = ReadRuleLine(s, line) /\ (line.indent \/ ~Mark(line)) /\ a # j + 1 /\ j + 1 # 0
  BY <1>2
<1>10. body[j + 1] = line
  OBVIOUS
<1> HIDE DEF a, b, line
<1>11. CASE ~line.indent
  <2>1. t \in RuleState /\ ~t.done /\ t.paths = s.paths /\ t.in_paths = (line.key = "paths")
    BY <1>1, <1>4, <1>9, <1>11, ReadRuleKey
  <2>2. j + 1 \notin GlobLines(body)
    BY <1>7, <1>11
  <2>3. PathsOK(body, j + 1, t.paths)
    BY <1>4, <2>1, <2>2, PathsStay
  <2>4. Listing(body, j + 1) <=> line.key = "paths"
    <3>1. CASE Blank(line)
      <4>1. b = a /\ ~Adjoins(body, j + 1)
        BY <1>3, <1>9, <1>11, <3>1
      <4> QED BY <1>6, <3>1, <4>1 DEF Blank
    <3>2. CASE ~Blank(line)
      <4>1. b = j + 1 /\ Adjoins(body, j + 1)
        BY <1>3, <1>11, <3>2
      <4> QED BY <1>6, <1>9, <1>10, <4>1
    <3> QED BY <3>1, <3>2
  <2> QED BY <2>1, <2>3, <2>4 DEF ListOK
<1>12. CASE line.indent
  <2>1. b = a /\ (Adjoins(body, j + 1) <=> Adjoins(body, j))
    BY <1>3, <1>9, <1>12
  <2>2. Listing(body, j + 1) <=> s.in_paths
    BY <1>4, <1>5, <1>6, <2>1
  <2>3. j + 1 \in GlobLines(body) <=> s.in_paths /\ line.key = "-" /\ line.val # ""
    BY <1>4, <1>5, <1>7, <1>12, <2>1
  <2>4. CASE j + 1 \in GlobLines(body) /\ Len(s.paths) < MaxRulePaths
    <3>1. PathsOK(body, j + 1, Append(s.paths, line.val))
      BY <1>4, <1>10, <2>4, PathsGrow
    <3>2. t \in RuleState /\ ~t.done /\ t.paths = Append(s.paths, line.val) /\ t.in_paths = s.in_paths
      BY <1>1, <1>4, <1>9, <1>12, <2>3, <2>4, ReadRuleItem
    <3> QED BY <2>2, <3>1, <3>2 DEF ListOK
  <2>5. CASE ~(j + 1 \in GlobLines(body) /\ Len(s.paths) < MaxRulePaths)
    <3>1. t = s
      <4>1. ~s.in_paths \/ line.key # "-" \/ line.val = "" \/ ~(Len(s.paths) < MaxRulePaths)
        BY <2>3, <2>5
      <4> QED BY <1>1, <1>4, <1>9, <1>12, <4>1, ReadRuleOther
    <3>2. PathsOK(body, j + 1, s.paths)
      <4>1. CASE j + 1 \in GlobLines(body)
        BY <1>4, <2>5, <4>1, PathsFull
      <4>2. CASE j + 1 \notin GlobLines(body)
        BY <1>4, <4>2, PathsStay
      <4> QED BY <4>1, <4>2
    <3> QED BY <1>4, <2>2, <3>1, <3>2 DEF ListOK
  <2> QED BY <2>4, <2>5
<1> QED BY <1>11, <1>12

-----------------------------------------------------------------------------
(* After i lines of a rule: the first is the mark.                         *)
ListScan(b, i, s) ==
  IF i <= 1 + Len(b) THEN ListOK(b, i - 1, s)
  ELSE s.done /\ PathsOK(b, Len(b), s.paths)

LEMMA RuleBodyIs ==
  ASSUME NEW doc \in Seq(Line), HasFrontmatter(doc), NEW b, b = RuleBody(doc)
  PROVE  /\ b \in Seq(Line) /\ Len(b) \in Nat /\ 1 + Len(b) <= Len(doc)
         /\ \A k \in 1..Len(b) : b[k] = doc[1 + k] /\ (b[k].indent \/ ~Mark(b[k]))
         /\ 1 + Len(b) < Len(doc) =>
              Mark(doc[1 + Len(b) + 1]) /\ ~doc[1 + Len(b) + 1].indent
<1> DEFINE T == {i \in 2..Len(doc) : Mark(doc[i]) /\ ~doc[i].indent}
<1>1. Len(doc) \in Nat /\ 1 \in 1..Len(doc) /\ 1 + 1 = 2
  BY DEF HasFrontmatter
<1>2. b = Between(doc, 1, FirstOf(T))
  BY DEF RuleBody, SelectInSubSeq, FirstOf
<1>3. T \in SUBSET ((1 + 1)..Len(doc))
  BY <1>1
<1>4. \A i \in 2..Len(doc) : i \notin T => doc[i].indent \/ ~Mark(doc[i])
  OBVIOUS
<1>5. \A i \in T : Mark(doc[i]) /\ ~doc[i].indent
  OBVIOUS
<1> HIDE DEF T
<1>6. /\ b \in Seq(Line) /\ Len(b) \in Nat /\ 1 + Len(b) <= Len(doc)
      /\ \A k \in 1..Len(b) : b[k] = doc[1 + k] /\ 1 + k \notin T
      /\ 1 + Len(b) < Len(doc) => 1 + Len(b) + 1 \in T
  BY <1>1, <1>2, <1>3, BetweenIs
<1>7. \A k \in 1..Len(b) : b[k].indent \/ ~Mark(b[k])
  <2> TAKE k \in 1..Len(b)
  <2>1. 1 + k \in 2..Len(doc)
    BY <1>6
  <2> QED BY <1>4, <1>6, <2>1
<1> QED BY <1>5, <1>6, <1>7

LEMMA ListStarts ==
  ASSUME NEW body \in Seq(Line) PROVE ListOK(body, 0, RuleStart)
<1> DEFINE paths == RuleStart.paths
<1>1. Above(body, 0) = 0
  <2>1. Len(body) \in Nat
    BY ONLY body \in Seq(Line)
  <2>2. 0 \in 0..Len(body)
    BY ONLY <2>1
  <2> DEFINE a == Above(body, 0)
  <2>3. a \in 0..0
    BY <2>2, AboveIs
  <2> HIDE DEF a
  <2>4. a = 0
    BY ONLY <2>3
  <2> QED BY <2>4 DEF a
<1>2. ~Listing(body, 0)
  BY <1>1 DEF Listing
<1>3. GlobsTo(body, 0) = {}
  <2>1. \A i \in GlobLines(body) : i \in DOMAIN body
    BY DEF GlobLines
  <2>2. \A i \in DOMAIN body : ~(i <= 0)
    OBVIOUS
  <2> QED BY <2>1, <2>2 DEF GlobsTo
<1>4. Cardinality(GlobsTo(body, 0)) = 0 /\ KeptTo(body, 0) = {}
  <2>1. KeptTo(body, 0) \subseteq GlobsTo(body, 0)
    BY DEF KeptTo, GlobsTo, GlobsKept
  <2> QED BY <1>3, <2>1, FS_EmptySet
<1>5. paths = <<>>
  BY DEF RuleStart
<1>6. paths \in Seq(STRING) /\ Len(paths) = 0 /\ DOMAIN paths = {}
  BY <1>5
<1> HIDE DEF paths
<1>7. {paths[k] : k \in DOMAIN paths} = {body[i].val : i \in KeptTo(body, 0)}
  BY <1>4, <1>6
<1>8. PathsOK(body, 0, paths)
  BY <1>4, <1>6, <1>7, CapsAssumption DEF PathsOK
<1>9. RuleStart \in RuleState /\ ~RuleStart.done /\ ~RuleStart.in_paths
  BY <1>6 DEF RuleStart, RuleState, paths
<1> QED BY <1>2, <1>8, <1>9 DEF ListOK, paths

LEMMA ScanNext ==
  ASSUME NEW doc \in Seq(Line), HasFrontmatter(doc), NEW b, b = RuleBody(doc),
         NEW i \in Nat, i >= 1, i < Len(doc), NEW s, ListScan(b, i, s),
         NEW t, t = ReadRuleLine(s, doc[i + 1])
  PROVE  ListScan(b, i + 1, t)
<1> DEFINE line == doc[i + 1]
           j == i - 1
<1>0. Len(doc) \in Nat /\ i + 1 \in 1..Len(doc) /\ line \in Line
  OBVIOUS
<1>1. /\ b \in Seq(Line) /\ Len(b) \in Nat /\ 1 + Len(b) <= Len(doc)
      /\ \A k \in 1..Len(b) : b[k] = doc[1 + k] /\ (b[k].indent \/ ~Mark(b[k]))
      /\ 1 + Len(b) < Len(doc) =>
           Mark(doc[1 + Len(b) + 1]) /\ ~doc[1 + Len(b) + 1].indent
  BY RuleBodyIs
<1>2. j \in Nat /\ j + 1 = (i + 1) - 1 /\ 1 + (j + 1) = i + 1 /\ i = j + 1
  OBVIOUS
<1>3. IF i <= 1 + Len(b) THEN ListOK(b, j, s) ELSE s.done /\ PathsOK(b, Len(b), s.paths)
  BY DEF ListScan
<1>4. t = ReadRuleLine(s, line)
  OBVIOUS
<1> HIDE DEF j
<1>5. CASE i + 1 <= 1 + Len(b)
  <2>1. j < Len(b) /\ j + 1 \in 1..Len(b) /\ i <= 1 + Len(b)
    BY <1>1, <1>2, <1>5
  <2>2. ListOK(b, j, s)
    BY <1>3, <2>1
  <2>3. b[j + 1] = line /\ (b[j + 1].indent \/ ~Mark(b[j + 1]))
    BY <1>1, <1>2, <2>1
  <2>4. ListOK(b, j + 1, t)
    BY <1>1, <1>2, <1>4, <2>1, <2>2, <2>3, ListNext
  <2>5. ListOK(b, (i + 1) - 1, t)
    BY <1>2, <2>4
  <2> QED BY <1>5, <2>5 DEF ListScan
<1>6. CASE i = 1 + Len(b)
  <2>1. j = Len(b) /\ i <= 1 + Len(b) /\ ~(i + 1 <= 1 + Len(b)) /\ 1 + Len(b) < Len(doc)
        /\ 1 + Len(b) + 1 = i + 1
    BY <1>1, <1>2, <1>6
  <2>2. ListOK(b, Len(b), s)
    BY <1>3, <2>1
  <2>3. Mark(line) /\ ~line.indent
    BY <1>1, <2>1
  <2>4. t.done /\ t.paths = s.paths
    BY <1>0, <1>4, <2>2, <2>3, ReadRuleMark DEF ListOK
  <2> QED BY <2>1, <2>2, <2>4 DEF ListOK, ListScan
<1>7. CASE 1 + Len(b) < i
  <2>1. ~(i <= 1 + Len(b)) /\ ~(i + 1 <= 1 + Len(b))
    BY <1>1, <1>7
  <2>2. s.done /\ PathsOK(b, Len(b), s.paths)
    BY <1>3, <2>1
  <2>3. t = s
    BY <1>4, <2>2, ReadRuleDone
  <2> QED BY <2>1, <2>2, <2>3 DEF ListScan
<1>8. i + 1 <= 1 + Len(b) \/ i = 1 + Len(b) \/ 1 + Len(b) < i
  BY <1>1
<1> QED BY <1>5, <1>6, <1>7, <1>8

LEMMA KeptToAll ==
  ASSUME NEW body \in Seq(Line)
  PROVE  KeptTo(body, Len(body)) = GlobsKept(body)
<1>1. \A i \in DOMAIN body : i <= Len(body)
  OBVIOUS
<1>2. GlobsKept(body) \subseteq DOMAIN body
  BY DEF GlobsKept, GlobLines
<1> QED BY <1>1, <1>2 DEF KeptTo

(* Any file: the paths are the globs listed in it.                         *)
LEMMA RuleParsed ==
  ASSUME NEW doc \in Seq(Line), NEW paths, paths = parse_rule(doc)
  PROVE  /\ {paths[k] : k \in DOMAIN paths} = GlobsListed(doc)
         /\ paths = <<>> <=> GlobsListed(doc) = {}
<1> DEFINE b == RuleBody(doc)
<1>1. CASE ~HasFrontmatter(doc)
  <2>1. paths = <<>> /\ b = <<>>
    BY <1>1 DEF parse_rule, RuleBody
  <2>2. DOMAIN paths = {} /\ DOMAIN b = {}
    BY <2>1
  <2> HIDE DEF b
  <2>3. GlobsKept(b) = {}
    BY <2>2 DEF GlobsKept, GlobLines
  <2>4. GlobsListed(doc) = {}
    BY <2>3 DEF GlobsListed, b
  <2> QED BY <2>1, <2>2, <2>4
<1>2. CASE HasFrontmatter(doc)
  <2>1. PICK f : RuleRun(doc, f, Len(doc)) /\ parse_rule(doc) = f[Len(doc)].paths
    BY <1>2, RuleRunIs
  <2>2. b \in Seq(Line) /\ Len(b) \in Nat /\ 1 + Len(b) <= Len(doc) /\ Len(doc) \in Nat
    BY <1>2, RuleBodyIs
  <2> DEFINE G == {m \in Nat : m + 1 <= Len(doc) => ListScan(b, m + 1, f[m + 1])}
  <2>4. 0 \in G
    <3>1. f[1] = RuleStart /\ ListOK(b, 0, f[1])
      BY <2>1, <2>2, ListStarts DEF RuleRun
    <3>2. 1 <= 1 + Len(b) /\ 1 - 1 = 0
      BY <2>2
    <3> HIDE DEF b
    <3>3. ListScan(b, 1, f[1])
      BY <3>1, <3>2 DEF ListScan
    <3> QED BY <3>3
  <2>5. ASSUME NEW m \in G PROVE m + 1 \in G
    <3> DEFINE i == m + 1
    <3> SUFFICES ASSUME i + 1 <= Len(doc) PROVE ListScan(b, i + 1, f[i + 1])
      OBVIOUS
    <3>1. i \in Nat /\ i >= 1 /\ i < Len(doc) /\ i + 1 \in 1..Len(doc) /\ i + 1 # 1 /\ (i + 1) - 1 = i
      BY <2>2
    <3>2. ListScan(b, i, f[i])
      BY <2>2, <3>1
    <3> HIDE DEF i, b
    <3>3. f[i + 1] = ReadRuleLine(f[i], doc[i + 1])
      BY <2>1, <3>1 DEF RuleRun
    <3> QED BY <1>2, <3>1, <3>2, <3>3, ScanNext DEF b
  <2>6. G = Nat
    <3>1. G \in SUBSET Nat
      OBVIOUS
    <3> HIDE DEF G
    <3> QED BY <2>4, <2>5, <3>1, SetInduction
  <2> DEFINE n == Len(doc)
  <2>7. ListScan(b, n, f[n])
    <3>1. n - 1 \in Nat /\ (n - 1) + 1 = n /\ n <= n
      BY <2>2
    <3>2. n - 1 \in G
      BY <2>6, <3>1
    <3> QED BY <3>1, <3>2
  <2> HIDE DEF b, n
  <2>8. PathsOK(b, Len(b), f[n].paths)
    <3>1. CASE n <= 1 + Len(b)
      <4>1. n - 1 = Len(b)
        BY <2>2, <3>1 DEF n
      <4> QED BY <2>7, <3>1, <4>1 DEF ListScan, ListOK
    <3>2. CASE ~(n <= 1 + Len(b))
      BY <2>7, <3>2 DEF ListScan
    <3> QED BY <3>1, <3>2
  <2>9. PathsOK(b, Len(b), paths)
    BY <2>1, <2>8 DEF n
  <2>10. KeptTo(b, Len(b)) = GlobsKept(b)
    BY <2>2, KeptToAll
  <2>11. GlobsListed(doc) = {b[i].val : i \in GlobsKept(b)}
    BY DEF GlobsListed, b
  <2>12. paths \in Seq(STRING) /\ {paths[k] : k \in DOMAIN paths} = GlobsListed(doc)
    BY <2>9, <2>10, <2>11 DEF PathsOK
  <2>13. paths = <<>> <=> DOMAIN paths = {}
    BY <2>12
  <2>14. {paths[k] : k \in DOMAIN paths} = {} <=> DOMAIN paths = {}
    OBVIOUS
  <2> QED BY <2>12, <2>13, <2>14
<1> QED BY <1>1, <1>2

-----------------------------------------------------------------------------
(* What is left out: a skill of a directory that has been read is in the   *)
(* table, or the table is full and the user has been told.                 *)

Settled(n, d) ==
  stage >= n /\ Readable(d) =>
    \/ \A e \in dirs[d] \ Left(n) : IsSkill(e) => Has(skills, d, e)
    \/ warned /\ Len(skills) >= MaxSkills

Built == stage = Done => prompt = [rules |-> applying, skills |-> skills]

(* The inductive invariant, beside LoadInv.                                *)
PromptInv ==
  /\ dirs \in Layouts
  /\ Settled(1, "./skills") /\ Settled(3, "~/skills")
  /\ Built

LEMMA InitPrompts == Init => PromptInv
<1> SUFFICES ASSUME Init PROVE PromptInv
  OBVIOUS
<1>1. stage = 1 /\ dirs \in Layouts /\ todo = dirs["./skills"]
  BY OrderIs DEF Init, Readable
<1>2. Settled(1, "./skills")
  BY <1>1 DEF Settled, Left
<1>3. ~(stage >= 3) /\ stage # Done
  BY <1>1 DEF Done
<1> QED BY <1>1, <1>2, <1>3 DEF PromptInv, Settled, Built

LEMMA SettledKept ==
  ASSUME LoadInv, [Next]_vars, NEW n \in {1, 3}, NEW d \in SkillDirs, d = Order[n], Settled(n, d)
  PROVE  Settled(n, d)'
<1>0. stage \in 1..Done /\ n \in Nat /\ n < Gather /\ n \notin {2, 4}
  BY DEF LoadInv, Gather
<1>1. CASE Scan
  <2>1. PICK e \in todo : SkillEntry(e) \/ SkillCap \/ RuleEntry(e) \/ RuleCap
    BY <1>1 DEF Scan
  <2>2. stage' = stage /\ dirs' = dirs /\ home' = home /\ UNCHANGED <<files, stage, prompt>>
    BY <1>1 DEF Scan, files
  <2>3. CASE SkillEntry(e)
    <3>1. stage \in {1, 3} /\ Order[stage] \in SkillDirs /\ stage < Gather
      BY <2>3, SkillStage DEF SkillEntry, In
    <3>2. e \in dirs[Order[stage]] /\ Found(e) = [entry |-> e, from |-> Order[stage]]
      BY <3>1, EntryIsThere DEF Found
    <3>3. Found(e) \in Rows(SkillDirs)
      BY <3>1, <3>2, RowOf
    <3>4. /\ todo' = todo \ {e} /\ Len(skills) < MaxSkills
          /\ skills' = IF IsSkill(e) THEN Append(skills, Found(e)) ELSE skills
      BY <2>3 DEF SkillEntry
    <3>5. skills \in Seq(Rows(SkillDirs))
      BY DEF LoadInv, TablesOK
    <3>6. /\ IsSkill(e) => Has(skills', Order[stage], e)
          /\ \A b, f : Has(skills, b, f) => Has(skills', b, f)
      BY <3>2, <3>3, <3>4, <3>5, HasGrows
    <3>7. ~(Len(skills) >= MaxSkills)
      BY <3>4, <3>5, CapsAssumption
    <3>8. ASSUME stage >= n, Readable(d), NEW f \in dirs[d] \ Left(n)', IsSkill(f)
          PROVE  Has(skills', d, f)
      <4>1. \A g \in dirs[d] \ Left(n) : IsSkill(g) => Has(skills, d, g)
        BY <3>7, <3>8 DEF Settled
      <4>2. CASE stage = n /\ f = e
        BY <3>6, <3>8, <4>2
      <4>3. CASE ~(stage = n /\ f = e)
        <5>1. f \notin Left(n)
          BY <2>2, <3>4, <3>8, <4>3 DEF Left
        <5> QED BY <3>6, <3>8, <4>1, <5>1
      <4> QED BY <4>2, <4>3
    <3> QED BY <2>2, <3>8 DEF Settled, Readable
  <2>4. CASE SkillCap
    <3>1. warned' = TRUE /\ skills' = skills /\ Len(skills) >= MaxSkills
      BY <2>4 DEF SkillCap
    <3> QED BY <3>1 DEF Settled
  <2>5. CASE RuleEntry(e) \/ RuleCap
    <3>1. stage \in {2, 4}
      BY <2>5, RuleStage DEF RuleEntry, RuleCap
    <3>2. skills' = skills /\ warned' = warned
      BY <2>5 DEF RuleEntry, RuleCap, tables
    <3>3. Left(n) = {} /\ Left(n)' = {}
      BY <1>0, <2>2, <3>1 DEF Left
    <3> QED BY <2>2, <3>2, <3>3 DEF Settled, Readable
  <2> QED BY <2>1, <2>3, <2>4, <2>5
<1>2. CASE NextDirectory
  <2>1. /\ stage < Gather /\ todo = {} /\ stage' = stage + 1
        /\ dirs' = dirs /\ home' = home /\ skills' = skills /\ warned' = warned
        /\ todo' = IF stage' < Gather /\ Readable(Order[stage']) THEN dirs[Order[stage']] ELSE {}
    BY <1>2 DEF NextDirectory, files, tables
  <2>2. CASE stage' = n
    <3>1. Readable(d) => Left(n)' = dirs[d]
      BY <1>0, <2>1, <2>2 DEF Left
    <3> QED BY <2>1, <3>1 DEF Settled, Readable
  <2>3. CASE stage' # n
    <3>1. stage' >= n => stage >= n
      BY <1>0, <2>1, <2>3
    <3>2. Left(n) = {} /\ Left(n)' = {}
      BY <2>1, <2>3 DEF Left
    <3> QED BY <2>1, <3>1, <3>2 DEF Settled, Readable
  <2> QED BY <2>2, <2>3
<1>3. CASE build_system_prompt
  <2>1. /\ stage = Gather /\ stage' = Done /\ dirs' = dirs /\ home' = home
        /\ skills' = skills /\ warned' = warned
    BY <1>3 DEF build_system_prompt, files, tables
  <2>2. stage >= n /\ Left(n) = {} /\ Left(n)' = {}
    BY <1>0, <2>1 DEF Left, Gather, Done
  <2> QED BY <2>1, <2>2 DEF Settled, Readable
<1>4. CASE UNCHANGED vars
  BY <1>4 DEF vars, files, tables, Settled, Readable, Left
<1> QED BY <1>1, <1>2, <1>3, <1>4 DEF Next

LEMMA BuiltKept == ASSUME LoadInv, [Next]_vars, Built PROVE Built'
<1>0. stage \in 1..Done
  BY DEF LoadInv
<1>1. CASE Scan
  <2>1. PICK e \in todo : SkillEntry(e) \/ SkillCap \/ RuleEntry(e) \/ RuleCap
    BY <1>1 DEF Scan
  <2>2. stage < Gather /\ stage' = stage
    BY <1>1, <2>1 DEF Scan, SkillEntry, SkillCap, RuleEntry, RuleCap, In
  <2>3. stage' # Done
    BY <1>0, <2>2 DEF Gather, Done
  <2> QED BY <2>3 DEF Built
<1>2. CASE NextDirectory
  <2>1. stage < Gather /\ stage' = stage + 1
    BY <1>2 DEF NextDirectory
  <2>2. stage' # Done
    BY <1>0, <2>1 DEF Gather, Done
  <2> QED BY <2>2 DEF Built
<1>3. CASE build_system_prompt
  <2>1. rules' = rules /\ matches' = matches /\ skills' = skills
        /\ prompt' = [rules |-> applying, skills |-> skills]
    BY <1>3 DEF build_system_prompt, files, tables
  <2>2. applying' = applying
    BY <2>1 DEF applying, rule_applies
  <2> QED BY <2>1, <2>2 DEF Built
<1>4. CASE UNCHANGED vars
  <2>1. rules' = rules /\ matches' = matches /\ skills' = skills /\ prompt' = prompt /\ stage' = stage
    BY <1>4 DEF vars, files, tables
  <2>2. applying' = applying
    BY <2>1 DEF applying, rule_applies
  <2> QED BY <2>1, <2>2 DEF Built
<1> QED BY <1>1, <1>2, <1>3, <1>4 DEF Next

LEMMA PromptStep == LoadInv /\ PromptInv /\ [Next]_vars => PromptInv'
<1> SUFFICES ASSUME LoadInv, PromptInv, [Next]_vars PROVE PromptInv'
  OBVIOUS
<1>1. dirs' = dirs
  BY DEF Next, Scan, NextDirectory, build_system_prompt, vars, files
<1>2. Settled(1, "./skills")' /\ Settled(3, "~/skills")'
  <2>1. "./skills" \in SkillDirs /\ "~/skills" \in SkillDirs
    BY DEF SkillDirs
  <2> QED BY <2>1, OrderIs, SettledKept DEF PromptInv
<1>3. Built'
  BY BuiltKept DEF PromptInv
<1> QED BY <1>1, <1>2, <1>3 DEF PromptInv

LEMMA PromptInvHolds == Spec => [](LoadInv /\ PromptInv)
BY InitLoads, LoadStep, InitPrompts, PromptStep, PTL DEF Spec

(* The files of a directory are lines.                                     *)
LEMMA DocIsLines ==
  ASSUME PromptInv, NEW d \in SkillDirs \cup RuleDirs, NEW e \in dirs[d]
  PROVE  e.doc \in Seq(Line)
<1>1. d \in {"./skills", "./rules", "~/skills", "~/rules"}
  BY DEF SkillDirs, RuleDirs
<1> QED BY <1>1, LayoutsAssumption DEF PromptInv

LEMMA RowsAre ==
  ASSUME LoadInv
  PROVE  /\ \A i \in DOMAIN skills : skills[i] \in Rows(SkillDirs)
         /\ \A i \in DOMAIN rules : rules[i] \in Rows(RuleDirs)
<1>1. skills \in Seq(Rows(SkillDirs)) /\ rules \in Seq(Rows(RuleDirs))
  BY DEF LoadInv, TablesOK
<1> QED BY <1>1

(* The name and the description of every skill of the table are those of   *)
(* its file, for every file the parser is made for (main.c:777-815).       *)
THEOREM SkillsReadAsWritten == Spec => []SkillsAsWritten
<1>1. LoadInv /\ PromptInv => SkillsAsWritten
  <2> SUFFICES ASSUME LoadInv, PromptInv, NEW i \in DOMAIN skills, Simple(skills[i].entry.doc)
               PROVE  /\ parse_frontmatter(skills[i].entry.doc).name = Written(skills[i].entry.doc, "name")
                      /\ parse_frontmatter(skills[i].entry.doc).description
                           = Written(skills[i].entry.doc, "description")
    BY DEF SkillsAsWritten
  <2>1. skills[i].from \in SkillDirs /\ skills[i].entry \in dirs[skills[i].from]
    BY RowsAre, RowIs
  <2>2. skills[i].entry.doc \in Seq(Line)
    BY <2>1, DocIsLines
  <2>3. "name" \in Names /\ "description" \in Names
    BY DEF Names
  <2> QED BY <2>2, <2>3, SkillParsed
<1> QED BY <1>1, PromptInvHolds, PTL

(* Every skill with a name is in the prompt, or the table is full and the  *)
(* user has been told so (main.c:825-829).                                 *)
THEOREM SkillsNotMissed == Spec => []NoSkillMissed
<1>1. LoadInv /\ PromptInv => NoSkillMissed
  <2> SUFFICES ASSUME LoadInv, PromptInv, stage = Done, NEW d \in SkillDirs, Readable(d),
                      NEW e \in dirs[d], e.form \in {"md", "dir"}, Simple(e.doc),
                      Written(e.doc, "name") # <<>>
               PROVE  Has(prompt.skills, d, e) \/ (warned /\ Len(skills) = MaxSkills)
    BY DEF NoSkillMissed
  <2>1. e.doc \in Seq(Line)
    BY DocIsLines
  <2>2. parse_frontmatter(e.doc).name # <<>>
    <3>1. "name" \in Names
      BY DEF Names
    <3> QED BY <2>1, <3>1, SkillParsed
  <2>3. IsSkill(e)
    BY <2>2 DEF IsSkill
  <2>4. stage = 6 /\ Left(1) = {} /\ Left(3) = {}
    BY DEF Done, Left
  <2>5. Has(skills, d, e) \/ (warned /\ Len(skills) >= MaxSkills)
    <3>1. CASE d = "./skills"
      <4>1. stage >= 1 /\ Settled(1, "./skills")
        BY <2>4 DEF PromptInv
      <4> QED BY <2>3, <2>4, <3>1, <4>1 DEF Settled
    <3>2. CASE d = "~/skills"
      <4>1. stage >= 3 /\ Settled(3, "~/skills")
        BY <2>4 DEF PromptInv
      <4> QED BY <2>3, <2>4, <3>2, <4>1 DEF Settled
    <3> QED BY <3>1, <3>2 DEF SkillDirs
  <2>6. prompt.skills = skills
    <3>1. prompt = [rules |-> applying, skills |-> skills]
      BY DEF PromptInv, Built
    <3> QED BY <3>1
  <2>7. Len(skills) <= MaxSkills /\ Len(skills) \in Nat /\ MaxSkills \in Nat
    <3>1. skills \in Seq(Rows(SkillDirs)) /\ Len(skills) <= MaxSkills
      BY DEF LoadInv, TablesOK
    <3> QED BY <3>1, CapsAssumption
  <2>8. Len(skills) >= MaxSkills => Len(skills) = MaxSkills
    BY ONLY <2>7
  <2> QED BY <2>5, <2>6, <2>8
<1> QED BY <1>1, PromptInvHolds, PTL

(* The rules of the prompt are those of the table that apply.              *)
LEMMA ApplyingIs ==
  ASSUME LoadInv, NEW d, NEW e
  PROVE  Has(applying, d, e)
           <=> \E i \in DOMAIN rules : rules[i] = [entry |-> e, from |-> d] /\ rule_applies(rules[i])
<1> DEFINE x == [entry |-> e, from |-> d]
           ss == [i \in DOMAIN rules |-> IF rule_applies(rules[i]) THEN <<rules[i]>> ELSE <<>>]
           T == {rules[i] : i \in {i \in DOMAIN rules : rule_applies(rules[i])}}
           n == Len(rules)
<1>1. rules \in Seq(Rows(RuleDirs))
  BY DEF LoadInv, TablesOK
<1>2. DOMAIN rules = 1..n /\ n \in Nat
  BY <1>1
<1>3. applying = FlattenSeq(ss)
  BY DEF applying
<1>4. \A i \in 1..n : ss[i] = IF rule_applies(rules[i]) THEN <<rules[i]>> ELSE <<>>
  BY <1>2
<1>5. ss \in [1..n -> Seq(T)]
  <2>1. ASSUME NEW i \in 1..n
        PROVE  (IF rule_applies(rules[i]) THEN <<rules[i]>> ELSE <<>>) \in Seq(T)
    <3>1. CASE rule_applies(rules[i])
      <4>1. rules[i] \in T
        BY <1>2, <3>1
      <4> HIDE DEF T
      <4>2. <<rules[i]>> \in Seq(T)
        BY <4>1
      <4> QED BY <3>1, <4>2
    <3>2. CASE ~rule_applies(rules[i])
      <4>1. <<>> \in Seq(T)
        OBVIOUS
      <4> QED BY <3>2, <4>1
    <3> QED BY <3>1, <3>2
  <2> QED BY <1>2, <2>1
<1>6. \A y \in T : \E i \in DOMAIN rules : rules[i] = y /\ rule_applies(y)
  OBVIOUS
<1> HIDE DEF ss, T, n, x
<1>7. ss \in Seq(Seq(T)) /\ Len(ss) = n
  BY <1>2, <1>5
<1>8. FlattenSeq(ss) \in Seq(T)
  BY <1>7, FlattenType
<1>9. ASSUME NEW k \in DOMAIN applying, applying[k] = x
      PROVE  \E i \in DOMAIN rules : rules[i] = x /\ rule_applies(rules[i])
  <2>1. applying[k] \in T
    BY <1>3, <1>8, <1>9
  <2> QED BY <1>6, <1>9, <2>1
<1>10. ASSUME NEW i \in DOMAIN rules, rules[i] = x, rule_applies(rules[i])
       PROVE  \E k \in DOMAIN applying : applying[k] = x
  <2>1. i \in 1..Len(ss) /\ ss[i] = <<x>>
    BY <1>2, <1>4, <1>7, <1>10
  <2>2. \E k \in 1..Len(ss[i]) : ss[i][k] = x
    <3>1. 1 \in 1..Len(<<x>>) /\ <<x>>[1] = x
      OBVIOUS
    <3> QED BY <2>1, <3>1
  <2>3. \E k \in 1..Len(FlattenSeq(ss)) : FlattenSeq(ss)[k] = x
    <3>1. ss \in Seq(Seq(T))
      BY <1>7
    <3> QED BY ONLY <3>1, <2>1, <2>2, FlattenHas
  <2>4. DOMAIN applying = 1..Len(applying)
    BY <1>3, <1>8
  <2> QED BY <1>3, <2>3, <2>4
<1> QED BY <1>9, <1>10 DEF Has, x

(* Whatever is in its file, a rule is in the prompt exactly if no glob is  *)
(* listed there or one of those listed has a match (main.c:901-952).       *)
THEOREM RulesAreScoped == Spec => []RuleScoped
<1>1. LoadInv /\ PromptInv => RuleScoped
  <2> SUFFICES ASSUME LoadInv, PromptInv, stage = Done, NEW i \in DOMAIN rules
               PROVE  Has(prompt.rules, rules[i].from, rules[i].entry)
                        <=> (\/ GlobsListed(rules[i].entry.doc) = {}
                             \/ GlobsListed(rules[i].entry.doc) \cap matches # {})
    BY DEF RuleScoped
  <2> DEFINE doc == rules[i].entry.doc
             row == [entry |-> rules[i].entry, from |-> rules[i].from]
             paths == parse_rule(doc)
  <2>1. rules[i].from \in RuleDirs /\ rules[i].entry \in dirs[rules[i].from] /\ rules[i] = row
    <3>1. rules[i] \in Rows(RuleDirs)
      BY RowsAre
    <3> QED BY <3>1 DEF Rows
  <2>2. doc \in Seq(Line)
    BY <2>1, DocIsLines
  <2>3. prompt.rules = applying
    <3>1. prompt = [rules |-> applying, skills |-> skills]
      BY DEF PromptInv, Built
    <3> QED BY <3>1
  <2>4. Has(applying, rules[i].from, rules[i].entry) <=> rule_applies(rules[i])
    BY <2>1, ApplyingIs
  <2>5. rule_applies(rules[i]) <=> paths = <<>> \/ \E k \in DOMAIN paths : paths[k] \in matches
    BY DEF rule_applies
  <2> HIDE DEF paths
  <2>6. /\ {paths[k] : k \in DOMAIN paths} = GlobsListed(doc)
        /\ paths = <<>> <=> GlobsListed(doc) = {}
    BY <2>2, RuleParsed DEF paths
  <2>7. (\E k \in DOMAIN paths : paths[k] \in matches) <=> {paths[k] : k \in DOMAIN paths} \cap matches # {}
    OBVIOUS
  <2> QED BY <2>3, <2>4, <2>5, <2>6, <2>7
<1> QED BY <1>1, PromptInvHolds, PTL
=============================================================================
