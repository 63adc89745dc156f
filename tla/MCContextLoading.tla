-------------------------- MODULE MCContextLoading --------------------------
(* Layouts of three kinds: one skill with any frontmatter of up to four    *)
(* lines, one rule with any of up to four, and directories of several      *)
(* entries of every form, more than the tables hold.                       *)
EXTENDS ContextLoading

MCGlobs == {"*.c", "*.h"}

TextLine(indent, key, val) == [indent |-> indent, key |-> key, val |-> val]

MarkLine == TextLine(FALSE, "---", "")

(* "---", empty, keys with a value or a block, text, and some of it indented. *)
SkillLines ==
  { MarkLine, TextLine(TRUE, "---", ""), TextLine(FALSE, "", ""), TextLine(TRUE, "", ""),
    TextLine(FALSE, "name", "a"), TextLine(FALSE, "name", ">"), TextLine(FALSE, "description", "|"),
    TextLine(FALSE, "description", ""), TextLine(FALSE, "other", "a"), TextLine(TRUE, "name", "b"),
    TextLine(TRUE, "none", "c") }

RuleLines ==
  { MarkLine, TextLine(TRUE, "---", ""), TextLine(FALSE, "", ""), TextLine(FALSE, "paths", ""),
    TextLine(FALSE, "paths", "[*.c]"), TextLine(TRUE, "-", ""),
    TextLine(FALSE, "other", "a"), TextLine(FALSE, "-", "*.c"),
    TextLine(TRUE, "-", "*.c"), TextLine(TRUE, "-", "*.h"), TextLine(TRUE, "other", "a") }

Docs(Lines, n) == {<<MarkLine>> \o d : d \in UNION {[1..k -> Lines] : k \in 0..n}}

Entry(form, doc) == [form |-> form, doc |-> doc]

NoFiles == [d \in {"./skills", "./rules", "~/skills", "~/rules"} |-> {}]

Named(name) == <<MarkLine, TextLine(FALSE, "name", name)>>

(* Entries no skill or rule comes from: hidden, gone or without a name,    *)
(* not a file, too large.                                                  *)
SkillEntries ==
  { Entry("md", Named("a")), Entry("dir", Named("b")), Entry("md", Named("")), Entry("hidden", Named("c")) }

RuleEntries ==
  { Entry("md", <<>>), Entry("md", Named("a")), Entry("big", <<>>), Entry("dir", <<>>) }

(* The layouts of one entry: its directory and the entry.                  *)
Alone ==
  ({"./skills"} \X {Entry("md", doc) : doc \in Docs(SkillLines, 4)}) \cup
  ({"~/skills"} \X {Entry("dir", <<TextLine(FALSE, "", ""), line>> \o Named("a")) : line \in SkillLines}) \cup
  ({"~/rules"} \X {Entry("md", doc) : doc \in Docs(RuleLines, 4)})

Several ==
  { [NoFiles EXCEPT !["./skills"] = s, !["~/skills"] = t] : s, t \in SUBSET SkillEntries } \cup
  { [NoFiles EXCEPT !["./rules"] = s, !["~/rules"] = t] : s, t \in SUBSET RuleEntries }

MCLayouts == { [NoFiles EXCEPT ![a[1]] = {a[2]}] : a \in Alone } \cup Several
=============================================================================
