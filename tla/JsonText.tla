------------------------------ MODULE JsonText ------------------------------
(***************************************************************************)
(* The parser and the printer of tinyjson.h.  A text is a sequence of      *)
(* bytes, a value is a tree of nodes with the fields of struct cJSON that  *)
(* count here.  What follows a value is not looked at.                     *)
(*                                                                         *)
(* The parser recurses along the text, the printer down the tree: both are *)
(* functions, of the places of the text and of how deep a node is.         *)
(*                                                                         *)
(* Numbers are integers: strtod and "%g" are left out, so that texts with  *)
(* a fraction or an exponent are outside the model.                        *)
(***************************************************************************)
EXTENDS Integers, Sequences, SequencesExt

Newline   == 10
Quote     == 34
Backslash == 92
Comma     == 44
Colon     == 58
LetterU   == 117

Byte == 1..255

Literals == [true |-> <<116, 114, 117, 101>>, false |-> <<102, 97, 108, 115, 101>>,
             null |-> <<110, 117, 108, 108>>]

Opening == [array |-> 91, object |-> 123]
Closing == [array |-> 93, object |-> 125]

(* deep: how many nodes lie below one another under this one.              *)
Node(type) == [type |-> type, key |-> <<>>, str |-> <<>>, num |-> 0, kids |-> <<>>, deep |-> 0]

(* A parse that succeeds has a node and the position behind it.            *)
Null == [node |-> Node("none"), pos |-> 0]

Parsed(node, pos) == [node |-> node, pos |-> pos]

Places(t) == 1..(Len(t) + 1)

At(t, p, b) == p <= Len(t) /\ t[p] = b

Has(t, p, s) == \A i \in 1..Len(s) : At(t, p + i - 1, s[i])

(* The first place from p on with another byte than these.                 *)
Behind(t, p, skipped) ==
  CHOOSE i \in p..(Len(t) + 1) :
    /\ \A j \in p..(i - 1) : t[j] \in skipped
    /\ i <= Len(t) => t[i] \notin skipped

(* A C string ends at its first NUL.                                       *)
CString(s) == SubSeq(s, 1, Behind(s, 1, Nat \ {0}) - 1)

(* cj_skip_ws.                                                             *)
SkipWs(t, p) == Behind(t, p, {9, 10, 13, 32})

-----------------------------------------------------------------------------
(* cj_parse_string_raw.                                                    *)

(* What follows a backslash, and what it stands for.                       *)
Letters == {34, 92, 98, 102, 110, 114, 116}

Meaning(letter) ==
  CASE letter = 98  -> 8
    [] letter = 102 -> 12
    [] letter = 110 -> 10
    [] letter = 114 -> 13
    [] letter = 116 -> 9
    [] OTHER        -> letter

HexDigit(b) ==
  CASE b \in 48..57  -> b - 48
    [] b \in 97..102 -> b - 87
    [] b \in 65..70  -> b - 55
    [] OTHER         -> -1

IsHex(t, p) == p + 3 <= Len(t) /\ \A i \in p..(p + 3) : HexDigit(t[i]) >= 0

HexAt(t, p) ==
  4096 * HexDigit(t[p]) + 256 * HexDigit(t[p + 1]) + 16 * HexDigit(t[p + 2]) + HexDigit(t[p + 3])

(* Each \u by itself, a surrogate as if it were a character.               *)
Utf8(cp) ==
  IF cp < 128 THEN <<cp>>
  ELSE IF cp < 2048 THEN <<192 + (cp \div 64), 128 + (cp % 64)>>
  ELSE <<224 + (cp \div 4096), 128 + ((cp \div 64) % 64), 128 + (cp % 64)>>

Put(s, rest) == IF rest = Null THEN Null ELSE [rest EXCEPT !.node.str = s \o @]

(* What is read from p on, given what is read further on.                  *)
CharAt(t, p, rest) ==
  IF p > Len(t) THEN Null
  ELSE IF t[p] = Quote THEN Parsed(Node("string"), p + 1)
  ELSE IF t[p] # Backslash \/ p = Len(t) THEN Put(<<t[p]>>, rest[p + 1])
  ELSE IF t[p + 1] \in Letters \cup {47} THEN Put(<<Meaning(t[p + 1])>>, rest[p + 2])
  ELSE IF t[p + 1] = LetterU /\ IsHex(t, p + 2) THEN Put(Utf8(HexAt(t, p + 2)), rest[p + 6])
  ELSE Null

Chars(t) == LET from[p \in Places(t)] == CharAt(t, p, from) IN from

ParseString(t, p) ==
  LET raw == Chars(t)[p + 1]
  IN  IF ~At(t, p, Quote) \/ raw = Null THEN Null ELSE [raw EXCEPT !.node.str = CString(@)]

-----------------------------------------------------------------------------
(* cj_parse_number: digits, signs, points and exponents in any order; what *)
(* strtod makes of an integer that is followed by more of them.            *)
DigitsValue(s) ==
  LET value[k \in 0..Len(s)] == IF k = 0 THEN 0 ELSE 10 * value[k - 1] + s[k] - 48
  IN  value[Len(s)]

ParseNumber(t, p) ==
  LET end   == Behind(t, p, (48..57) \cup {43, 45, 46, 69, 101})
      first == IF t[p] = 45 THEN p + 1 ELSE p
      value == DigitsValue(SubSeq(t, first, Behind(t, first, 48..57) - 1))
  IN  IF end - p >= 64 THEN Null
      ELSE Parsed([Node("number") EXCEPT !.num = IF t[p] = 45 THEN -value ELSE value], end)

ParseLiteral(t, p) ==
  IF \E w \in DOMAIN Literals : Has(t, p, Literals[w])
  THEN LET w == CHOOSE w \in DOMAIN Literals : Has(t, p, Literals[w])
       IN  Parsed(Node(w), p + Len(Literals[w]))
  ELSE Null

-----------------------------------------------------------------------------
(* cj_parse_value, cj_parse_array and cj_parse_object: what is read from p *)
(* on, given what is read further on.                                      *)

(* Mutant: anything but a comma closes what is open.                       *)
Closes_Unseen(t, p, closing) == p <= Len(t)

Closes(t, p, closing) == At(t, p, closing)

(* An item goes in front of those behind it.                               *)
With(item, node) ==
  [node EXCEPT !.kids = <<item>> \o @, !.deep = IF @ > item.deep THEN @ ELSE item.deep + 1]

Ahead(item, rest) == IF rest = Null THEN Null ELSE [rest EXCEPT !.node = With(item, @)]

Container(t, p, type, items) ==
  LET first == SkipWs(t, p + 1)
  IN  IF At(t, first, Closing[type]) THEN Parsed(Node(type), first + 1) ELSE items[first][type]

ValueAt(t, start, items) ==
  LET p == SkipWs(t, start)
  IN  IF p > Len(t) THEN Null
      ELSE IF t[p] = Quote THEN ParseString(t, p)
      ELSE IF t[p] = Opening["object"] THEN Container(t, p, "object", items)
      ELSE IF t[p] = Opening["array"] THEN Container(t, p, "array", items)
      ELSE IF t[p] \in (48..57) \cup {45} THEN ParseNumber(t, p)
      ELSE ParseLiteral(t, p)

ItemsAt(t, p, type, items) ==
  LET member == type = "object"
      name   == ParseString(t, SkipWs(t, p))
      colon  == SkipWs(t, name.pos)
      value  == ValueAt(t, IF member THEN colon + 1 ELSE p, items)
      next   == SkipWs(t, value.pos)
      item   == IF member THEN [value.node EXCEPT !.key = name.node.str] ELSE value.node
  IN  IF (member /\ (name = Null \/ ~At(t, colon, Colon))) \/ value = Null THEN Null
      ELSE IF At(t, next, Comma) THEN Ahead(item, items[next + 1][type])
      ELSE IF Closes(t, next, Closing[type]) THEN Parsed(With(item, Node(type)), next + 1)
      ELSE Null

Items(t) ==
  LET items[p \in Places(t)] == [type \in {"array", "object"} |-> ItemsAt(t, p, type, items)]
  IN  items

cJSON_Parse(t) == ValueAt(CString(t), 1, Items(CString(t)))

-----------------------------------------------------------------------------
(* cJSON_PrintUnformatted.                                                 *)

HexChar(d) == IF d < 10 THEN 48 + d ELSE 87 + d

(* Mutant: control characters other than those with a letter go out as     *)
(* they are, and so does the newline.                                      *)
Escape_Raw(b) ==
  IF b \in {Quote, Backslash} THEN <<Backslash, b>> ELSE <<b>>

Escape(b) ==
  IF \E e \in Letters : Meaning(e) = b
  THEN <<Backslash, CHOOSE e \in Letters : Meaning(e) = b>>
  ELSE IF b < 32 THEN <<Backslash, LetterU, 48, 48, HexChar(b \div 16), HexChar(b % 16)>>
  ELSE <<b>>

PrintString(s) == <<Quote>> \o FlattenSeq([i \in 1..Len(s) |-> Escape(s[i])]) \o <<Quote>>

Digits(n) ==
  LET digits[k \in 0..n] ==
        IF k < 10 THEN <<48 + k>> ELSE Append(digits[k \div 10], 48 + (k % 10))
  IN  digits[n]

Decimal(n) == IF n < 0 THEN <<45>> \o Digits(-n) ELSE Digits(n)

(* The last k of the texts, with commas between them.                      *)
Listed(texts) ==
  LET last[k \in 0..Len(texts)] ==
        IF k = 0 THEN <<>>
        ELSE texts[Len(texts) + 1 - k] \o (IF k = 1 THEN <<>> ELSE <<Comma>> \o last[k - 1])
  IN  last[Len(texts)]

(* A node, given the texts of its children.                                *)
Text(v, kids) ==
  LET Item(i) == IF v.type = "object" THEN PrintString(v.kids[i].key) \o <<Colon>> \o kids[i] ELSE kids[i]
  IN  CASE v.type = "string" -> PrintString(v.str)
        [] v.type = "number" -> Decimal(v.num)
        [] v.type \in {"array", "object"} ->
             <<Opening[v.type]>> \o Listed([i \in 1..Len(v.kids) |-> Item(i)]) \o <<Closing[v.type]>>
        [] OTHER             -> Literals[v.type]

(* The nodes that are at most k deep.                                      *)
Trees[k \in Nat] ==
  [type : {"string", "number", "array", "object", "true", "false", "null"},
   key : Seq(Byte), str : Seq(Byte), num : Int,
   kids : IF k = 0 THEN {<<>>} ELSE Seq(Trees[k - 1]), deep : 0..k]

Texts(n) ==
  LET text[k \in 0..n] ==
        [v \in Trees[k] |-> Text(v, [i \in 1..Len(v.kids) |-> text[k - 1][v.kids[i]]])]
  IN  text

cJSON_PrintUnformatted(v) == Texts(v.deep)[v.deep][v]
=============================================================================
