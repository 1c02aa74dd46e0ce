----------------------------- MODULE JsonCodec -----------------------------
(* playdate/json: a document is read in chunks, decoded under limits and   *)
(* encoded again (json.go, encode.go).  Bytes are strings: a printing      *)
(* character, or two hexadecimal digits.                                   *)
EXTENDS Integers, Sequences, FiniteSets, TLC, SequencesExt

CONSTANTS
  Documents,    \* [text, limits, chunked, pretty], what a game may decode
  Values,       \* [value, depth, pretty], what a game may make itself
  Chunk,        \* bytes of a chunk (512)
  EmptyReads    \* reads of nothing that are too many (100)

VARIABLES
  stage,        \* "idle", "read", "encode" or "done"
  input,        \* the document, or the value that the game made
  data, empty,  \* what Decode has read, reads of nothing since
  result,       \* what decoding ends with: [ok, value]
  options,      \* EncodeOptions: [pretty, depth]
  out           \* what encoding ends with: [ok, bytes]

codec == <<stage, input, data, empty, result, options, out>>

-----------------------------------------------------------------------------
(* utf8.AppendRune, and utf8.DecodeRune of what is not ASCII.              *)
Utf8 ==
  (0 :> <<"00">>) @@ (9 :> <<"09">>) @@ (31 :> <<"1F">>) @@ (34 :> <<"\"">>) @@ (97 :> <<"a">>)
    @@ (233 :> <<"C3", "A9">>) @@ (65533 :> <<"EF", "BF", "BD">>) @@ (128640 :> <<"F0", "9F", "9A", "80">>)
Wide == {r \in DOMAIN Utf8 : r > 127}
NotAscii == UNION {Range(Utf8[r]) : r \in Wide} \cup {"FF"}
Error == 65533
DecodeRune(d, i) ==
  IF \E r \in Wide : IsPrefix(Utf8[r], SubSeq(d, i, Len(d)))
  THEN LET r == CHOOSE r \in Wide : IsPrefix(Utf8[r], SubSeq(d, i, Len(d))) IN [rune |-> r, size |-> Len(Utf8[r])]
  ELSE [rune |-> Error, size |-> 1]

Control == ("00" :> <<"0", "0">>) @@ ("08" :> <<"0", "8">>) @@ ("09" :> <<"0", "9">>) @@ ("0A" :> <<"0", "a">>)
             @@ ("0C" :> <<"0", "c">>) @@ ("0D" :> <<"0", "d">>) @@ ("1F" :> <<"1", "f">>)
Blank == {" ", "09", "0A", "0D"}
Digits == {"0", "1", "2", "3", "4", "5", "6", "7", "8", "9"}
Hex == [c \in Digits \cup {"a", "b", "c", "d", "e", "f", "A", "B", "C", "D", "E", "F"} |->
          CHOOSE n \in 0 .. 15 :
            c \in {<<"0", "1", "2", "3", "4", "5", "6", "7", "8", "9", "a", "b", "c", "d", "e", "f">>[n + 1],
                   <<"0", "1", "2", "3", "4", "5", "6", "7", "8", "9", "A", "B", "C", "D", "E", "F">>[n + 1]}]
Escapes == [b |-> "08", f |-> "0C", n |-> "0A", r |-> "0D", t |-> "09"]
Literals == <<<<"n", "u", "l", "l">>, <<"t", "r", "u", "e">>, <<"f", "a", "l", "s", "e">>>>
Meaning == <<[type |-> "null"], [type |-> "bool", is |-> TRUE], [type |-> "bool", is |-> FALSE]>>

-----------------------------------------------------------------------------
(* The parser: it is at byte p.at of p.data, and has counted p.nodes; what *)
(* it has parsed is in p.got, unless it has failed.                        *)
Has(p, S) == p.at <= Len(p.data) /\ p.data[p.at] \in S
Step(p, n) == [p EXCEPT !.at = @ + n]
Got(p, v) == [p EXCEPT !.got = v]
Failed(p) == [p EXCEPT !.ok = FALSE]

RECURSIVE Skip(_, _)
Skip(p, S) == IF Has(p, S) THEN Skip(Step(p, 1), S) ELSE p

Literal(p, n) ==
  IF IsPrefix(Literals[n], SubSeq(p.data, p.at, Len(p.data)))
  THEN Got(Step(p, Len(Literals[n])), Meaning[n]) ELSE Failed(p)

(* number: the original spelling is kept. *)
AnyOrNone(p, S) == Skip(p, S)
Some(p, S) == IF Has(p, S) THEN Skip(p, S) ELSE Failed(p)
Whole(p) ==
  IF Has(p, {"0"}) THEN IF Has(Step(p, 1), Digits) THEN Failed(p) ELSE Step(p, 1)
  ELSE IF Has(p, Digits) THEN Skip(p, Digits) ELSE Failed(p)
Fraction(p) == IF p.ok /\ Has(p, {"."}) THEN Some(Step(p, 1), Digits) ELSE p
Exponent(p) ==
  IF p.ok /\ Has(p, {"e", "E"})
  THEN Some(IF Has(Step(p, 1), {"+", "-"}) THEN Step(p, 2) ELSE Step(p, 1), Digits) ELSE p
Signed(p) == IF Has(p, {"-"}) THEN Step(p, 1) ELSE p
Spelled(q, from) == Got(q, SubSeq(q.data, from, q.at - 1))
NumberAt(p) == Spelled(Exponent(Fraction(Whole(Signed(p)))), p.at)

(* hex4 and unicode: a rune of two escapes is a pair of surrogates. *)
Hex4(p) ==
  LET four == SubSeq(p.data, p.at, p.at + 3) IN
    IF p.at + 3 > Len(p.data) \/ ~(Range(four) \subseteq DOMAIN Hex) THEN Failed(p)
    ELSE Got(Step(p, 4), 4096 * Hex[four[1]] + 256 * Hex[four[2]] + 16 * Hex[four[3]] + Hex[four[4]])
High == 55296 .. 56319
Low == 56320 .. 57343
Pair(first, second) ==
  IF ~second.ok \/ second.got \notin Low THEN Failed(second)
  ELSE Got(second, 65536 + (first.got - 55296) * 1024 + second.got - 56320)
Unit(first) ==
  IF ~first.ok \/ first.got \notin High \cup Low THEN first
  ELSE IF first.got \in Low \/ ~Has(first, {"\\"}) \/ ~Has(Step(first, 1), {"u"}) THEN Failed(first)
  ELSE Pair(first, Hex4(Step(first, 2)))
Unicode(p) == Unit(Hex4(p))

(* One character of a string: the bytes that it stands for. *)
Appended(q) == IF q.ok THEN Got(q, Utf8[q.got]) ELSE q
Escaped(p) ==
  IF Has(p, {"\"", "\\", "/"}) THEN Got(Step(p, 1), <<p.data[p.at]>>)
  ELSE IF Has(p, DOMAIN Escapes) THEN Got(Step(p, 1), <<Escapes[p.data[p.at]]>>)
  ELSE IF ~Has(p, {"u"}) THEN Failed(p)
  ELSE Appended(Unicode(Step(p, 1)))
WideAt(p, r) ==
  IF r.rune = Error /\ r.size = 1 THEN Failed(p)
  ELSE Got(Step(p, r.size), SubSeq(p.data, p.at, p.at + r.size - 1))
Character(p) ==
  IF Has(p, DOMAIN Control) THEN Failed(p)
  ELSE IF Has(p, {"\\"}) THEN Escaped(Step(p, 1))
  ELSE IF ~Has(p, NotAscii) THEN Got(Step(p, 1), <<p.data[p.at]>>)
  ELSE WideAt(p, DecodeRune(p.data, p.at))

RECURSIVE Text(_, _)
Extended(q, text) ==
  IF ~q.ok \/ Len(text \o q.got) > q.limits.string THEN Failed(q) ELSE Text(q, text \o q.got)
Text(p, text) ==
  IF p.at > Len(p.data) THEN Failed(p)
  ELSE IF Has(p, {"\""}) THEN Got(Step(p, 1), text)
  ELSE Extended(Character(p), text)
StringAt(p) == Text(Step(p, 1), <<>>)

Spaced(p) == Skip(p, Blank)
Typed(p, type) == IF p.ok THEN Got(p, [type |-> type, text |-> p.got]) ELSE p

RECURSIVE ValueAt(_, _), Elements(_, _, _), Members(_, _, _)

(* array: after an element, and after the blanks that follow it. *)
NextElement(q, depth, elements) ==
  IF Has(q, {"]"}) THEN Got(Step(q, 1), [type |-> "array", elements |-> elements])
  ELSE IF Has(q, {","}) THEN Elements(Spaced(Step(q, 1)), depth, elements)
  ELSE Failed(q)
AfterElement(v, depth, elements) ==
  IF v.ok THEN NextElement(Spaced(v), depth, Append(elements, v.got)) ELSE v
Elements(p, depth, elements) == AfterElement(ValueAt(p, depth), depth, elements)

(* object: after a member, and after its name. *)
NextMember(q, depth, members) ==
  IF Has(q, {"}"}) THEN Got(Step(q, 1), [type |-> "object", members |-> members])
  ELSE IF Has(q, {","}) THEN Members(Spaced(Step(q, 1)), depth, members)
  ELSE Failed(q)
AfterMember(v, name, depth, members) ==
  IF v.ok THEN NextMember(Spaced(v), depth, Append(members, [name |-> name, value |-> v.got])) ELSE v
AfterName(q, name, depth, members) ==
  IF ~q.ok \/ ~Has(q, {":"}) THEN Failed(q)
  ELSE AfterMember(ValueAt(Spaced(Step(q, 1)), depth), name, depth, members)
Named(q, depth, members) == AfterName(Spaced(q), q.got, depth, members)
Members(p, depth, members) ==
  IF Has(p, {"\""}) THEN Named(StringAt(p), depth, members) ELSE Failed(p)

Within(inside, array, depth) ==
  IF array THEN IF Has(inside, {"]"}) THEN Got(Step(inside, 1), [type |-> "array", elements |-> <<>>])
                ELSE Elements(inside, depth, <<>>)
  ELSE IF Has(inside, {"}"}) THEN Got(Step(inside, 1), [type |-> "object", members |-> <<>>])
  ELSE Members(inside, depth, <<>>)

Counted(p, depth) ==
  IF \E n \in 1 .. 3 : Has(p, {Literals[n][1]})
  THEN Literal(p, CHOOSE n \in 1 .. 3 : Has(p, {Literals[n][1]}))
  ELSE IF Has(p, {"\""}) THEN Typed(StringAt(p), "string")
  ELSE IF Has(p, {"-"} \cup Digits) THEN Typed(NumberAt(p), "number")
  ELSE IF ~Has(p, {"[", "{"}) \/ depth + 1 > p.limits.depth THEN Failed(p)
  ELSE Within(Spaced(Step(p, 1)), Has(p, {"["}), depth + 1)
ValueAt(p, depth) ==
  IF p.nodes >= p.limits.nodes THEN Failed(p) ELSE Counted([p EXCEPT !.nodes = @ + 1], depth)

Unread == [ok |-> FALSE, value |-> "unread"]
Refused == [ok |-> FALSE, value |-> "refused"]
Normalised(limits) ==
  [l \in DOMAIN limits |-> IF limits[l] # 0 THEN limits[l]
                           ELSE [bytes |-> 65536, depth |-> 32, nodes |-> 4096, string |-> 16384][l]]
Parser(text, limits) == [data |-> text, limits |-> limits, at |-> 1, nodes |-> 0, ok |-> TRUE, got |-> <<>>]
Decoded(p) == IF p.ok /\ p.at = Len(p.data) + 1 THEN [ok |-> TRUE, value |-> p.got] ELSE Refused
DecodeBytes(text, limits) ==
  IF Len(text) > limits.bytes THEN Refused
  ELSE Decoded(Spaced(ValueAt(Spaced(Parser(text, limits)), 0)))

-----------------------------------------------------------------------------
(* The encoder: what it has written, and whether it goes on.               *)
Wrote(text) == [ok |-> TRUE, bytes |-> text]
Then(e, f) == IF e.ok THEN [f EXCEPT !.bytes = e.bytes \o f.bytes] ELSE e
NoValue == [ok |-> FALSE, bytes |-> <<>>]

EscapeOf(b) ==
  IF b \in {"\"", "\\"} THEN <<"\\", b>>
  ELSE IF \E e \in DOMAIN Escapes : Escapes[e] = b THEN <<"\\", CHOOSE e \in DOMAIN Escapes : Escapes[e] = b>>
  ELSE IF b \in DOMAIN Control THEN <<"\\", "u", "0", "0">> \o Control[b] ELSE <<b>>
RECURSIVE ValidFrom(_, _)
ValidFrom(text, i) ==
  i > Len(text) \/ IF text[i] \notin NotAscii THEN ValidFrom(text, i + 1)
                   ELSE DecodeRune(text, i) # [rune |-> Error, size |-> 1]
                          /\ ValidFrom(text, i + DecodeRune(text, i).size)
Quoted(text) ==
  IF ~ValidFrom(text, 1) THEN NoValue
  ELSE Wrote(<<"\"">> \o FlattenSeq([i \in DOMAIN text |-> EscapeOf(text[i])]) \o <<"\"">>)
ValidNumber(text) == Decoded(NumberAt(Parser(text, [string |-> 1]))).ok

Newline(o, depth) ==
  IF o.pretty THEN <<"0A">> \o FlattenSeq([i \in 1 .. depth |-> <<" ", " ">>]) ELSE <<>>
Comma(i) == IF i > 1 THEN <<",">> ELSE <<>>

RECURSIVE Encoded(_, _, _)
Encoded(v, o, depth) ==
  LET Block(opening, items, Item(_), closing) ==
        IF depth >= o.depth THEN NoValue
        ELSE Then(FoldLeft(LAMBDA e, i : Then(Then(e, Wrote(Comma(i) \o Newline(o, depth + 1))), Item(i)),
                           Wrote(<<opening>>), [i \in DOMAIN items |-> i]),
                  Wrote((IF items = <<>> THEN <<>> ELSE Newline(o, depth)) \o <<closing>>))
      Element(i) == Encoded(v.elements[i], o, depth + 1)
      Member(i) == Then(Then(Quoted(v.members[i].name), Wrote(IF o.pretty THEN <<":", " ">> ELSE <<":">>)),
                        Encoded(v.members[i].value, o, depth + 1))
  IN CASE v.type = "null" -> Wrote(Literals[1])
       [] v.type = "bool" -> Wrote(IF v.is THEN Literals[2] ELSE Literals[3])
       [] v.type = "number" -> IF ValidNumber(v.text) THEN Wrote(v.text) ELSE NoValue
       [] v.type = "string" -> Quoted(v.text)
       [] v.type = "array" -> Block("[", v.elements, Element, "]")
       [] v.type = "object" -> Block("{", v.members, Member, "}")
       [] OTHER -> NoValue

Encoding(v, o) ==
  IF o.depth < 0 THEN NoValue ELSE Encoded(v, [o EXCEPT !.depth = IF @ = 0 THEN 32 ELSE @], 0)

-----------------------------------------------------------------------------
Init ==
  /\ stage = "idle" /\ input = "none" /\ result = Unread
  /\ data = <<>> /\ empty = 0 /\ options = "none" /\ out = NoValue

(* The game calls Decode, or Encode with a value of its own. *)
Decode ==
  /\ stage = "idle" /\ input' \in Documents
  /\ options' = [pretty |-> input'.pretty, depth |-> input'.limits.depth]
  /\ stage' = IF \E l \in DOMAIN input'.limits : input'.limits[l] < 0 THEN "done" ELSE "read"
  /\ UNCHANGED <<data, empty, result, out>>
EncodeOwn ==
  /\ stage = "idle" /\ input' \in Values /\ stage' = "encode"
  /\ options' = [pretty |-> input'.pretty, depth |-> input'.depth]
  /\ result' = [ok |-> TRUE, value |-> input'.value]
  /\ UNCHANGED <<data, empty, out>>

(* One call of the reader: n bytes, then or with them the end or an error. *)
Rest == SubSeq(input.text, Len(data) + 1, Len(input.text))
ReadSome(n, error) ==
  /\ LET limits == Normalised(input.limits) more == data \o SubSeq(Rest, 1, n) IN
       IF n > 0 /\ Len(more) > limits.bytes
       THEN stage' = "done" /\ result' = Refused /\ UNCHANGED <<data, empty>>
       ELSE /\ data' = more
            /\ empty' = IF n > 0 THEN 0 ELSE IF error = "none" THEN empty + 1 ELSE empty
            /\ result' = IF error = "end" THEN DecodeBytes(more, limits) ELSE Unread
            /\ stage' = IF result'.ok THEN "encode"
                        ELSE IF error = "none" /\ empty' < EmptyReads THEN "read" ELSE "done"
  /\ UNCHANGED <<input, options, out>>

Read ==
  stage = "read" /\ \E n \in 0 .. Len(Rest) :
    \/ input.chunked /\ n <= Chunk /\ \E error \in {"none", "failed"} : ReadSome(n, error)
    \/ n = Len(Rest) /\ (n <= Chunk \/ ~input.chunked) /\ ReadSome(n, "end")

(* The writer takes everything, or fails or stops short of the end. *)
Encode ==
  /\ stage = "encode" /\ stage' = "done"
  /\ LET e == Encoding(result.value, options) IN
       \/ out' = e
       \/ \E n \in {0, Len(e.bytes) \div 2} :
            n < Len(e.bytes) /\ out' = [ok |-> FALSE, bytes |-> SubSeq(e.bytes, 1, n)]
  /\ UNCHANGED <<input, data, empty, result, options>>

Next == Decode \/ EncodeOwn \/ Read \/ Encode
Spec == Init /\ [][Next]_codec

-----------------------------------------------------------------------------
(* What a text denotes by the grammar of JSON: the values of all ways to   *)
(* read it, which are one or none.                                         *)
Part(s, i, j) == SubSeq(s, i, j)
IsDigits(s) == s # <<>> /\ Range(s) \subseteq Digits
IsNumber(s) ==
  \E a \in {0, 1}, b, c \in 0 .. Len(s) :
    LET sign == Part(s, 1, a) whole == Part(s, a + 1, b)
        fraction == Part(s, b + 1, c) exponent == Part(s, c + 1, Len(s)) IN
      /\ a <= b /\ b <= c /\ sign \in {<<>>, <<"-">>}
      /\ IsDigits(whole) /\ (whole[1] = "0" => Len(whole) = 1)
      /\ fraction = <<>> \/ (fraction[1] = "." /\ IsDigits(Tail(fraction)))
      /\ \/ exponent = <<>>
         \/ /\ exponent[1] \in {"e", "E"}
            /\ IsDigits(Tail(exponent))
                 \/ (Len(exponent) > 2 /\ exponent[2] \in {"+", "-"} /\ IsDigits(Part(exponent, 3, Len(exponent))))

Units(r) == IF r < 65536 THEN <<r>> ELSE <<55296 + (r - 65536) \div 1024, 56320 + ((r - 65536) % 1024)>>
Spells(s, u) ==
  Len(s) = 6 /\ Part(s, 1, 2) = <<"\\", "u">> /\ Range(Part(s, 3, 6)) \subseteq DOMAIN Hex
    /\ \A i \in 0 .. 3 : Hex[s[6 - i]] = (u \div 16 ^ i) % 16
Plain(s) == IF Len(s) = 1 THEN s[1] \notin {"\"", "\\"} \cup DOMAIN Control \cup NotAscii
            ELSE \E r \in Wide : s = Utf8[r]
Meanings(s) ==
  {t \in {s} : Plain(s)}
    \cup {<<e>> : e \in {x \in {"\"", "\\", "/"} : s = <<"\\", x>>}}
    \cup {<<Escapes[e]>> : e \in {x \in DOMAIN Escapes : s = <<"\\", x>>}}
    \cup {Utf8[r] : r \in {x \in DOMAIN Utf8 :
            Len(s) = 6 * Len(Units(x))
              /\ \A n \in DOMAIN Units(x) : Spells(Part(s, 6 * n - 5, 6 * n), Units(x)[n])}}
RECURSIVE Texts(_)
Texts(s) ==
  IF s = <<>> THEN {<<>>}
  ELSE UNION {{t \o u : t \in Meanings(Part(s, 1, k)), u \in Texts(Part(s, k + 1, Len(s)))} :
                k \in {n \in {1, 2, 3, 4, 6, 12} : n <= Len(s) /\ Meanings(Part(s, 1, n)) # {}}}

Trimmed(s) ==
  LET kept == {i \in DOMAIN s : s[i] \notin Blank} IN
    IF kept = {} THEN <<>>
    ELSE Part(s, CHOOSE i \in kept : \A j \in kept : i <= j, CHOOSE i \in kept : \A j \in kept : i >= j)
Encloses(s, opening, closing) == Len(s) > 1 /\ s[1] = opening /\ s[Len(s)] = closing
Inner(s) == Trimmed(Part(s, 2, Len(s) - 1))

(* The ways to cut a text at commas; in JSON at most one yields values. *)
RECURSIVE Cuts(_)
Cuts(s) ==
  {<<s>>} \cup UNION {{<<Part(s, 1, k - 1)>> \o c : c \in Cuts(Part(s, k + 1, Len(s)))} :
                        k \in {i \in DOMAIN s : s[i] = ","}}

RECURSIVE Denoted(_)
Denoted(text) ==
  LET s == Trimmed(text)
      Quotation(t) == IF Encloses(t, "\"", "\"") THEN Texts(Part(t, 2, Len(t) - 1)) ELSE {}
      Member(t) ==
        UNION {{[name |-> n, value |-> v] :
                  n \in Quotation(Trimmed(Part(t, 1, k - 1))), v \in Denoted(Part(t, k + 1, Len(t)))} :
                 k \in {i \in DOMAIN t : t[i] = ":"}}
      Lists(opening, closing, Item(_)) ==
        IF ~Encloses(s, opening, closing) THEN {}
        ELSE IF Inner(s) = <<>> THEN {<<>>}
        ELSE {[i \in DOMAIN c |-> CHOOSE v \in Item(c[i]) : TRUE] :
                c \in {d \in Cuts(Inner(s)) : \A i \in DOMAIN d : Item(d[i]) # {}}}
  IN {Meaning[n] : n \in {m \in 1 .. 3 : s = Literals[m]}}
       \cup {[type |-> "number", text |-> t] : t \in {u \in {s} : IsNumber(u)}}
       \cup {[type |-> "string", text |-> t] : t \in Quotation(s)}
       \cup {[type |-> "array", elements |-> l] : l \in Lists("[", "]", Denoted)}
       \cup {[type |-> "object", members |-> l] : l \in Lists("{", "}", Member)}

(* What a value has in it, and whether JSON can say it. *)
Contents(v) ==
  CASE v.type = "array" -> v.elements
    [] v.type = "object" -> [i \in DOMAIN v.members |-> v.members[i].value]
    [] OTHER -> <<>>
Most(S) == CHOOSE n \in S \cup {0} : \A m \in S : m <= n
RECURSIVE Depth(_), Nodes(_), Strings(_), Sayable(_)
Depth(v) ==
  IF v.type \in {"array", "object"} THEN 1 + Most({Depth(w) : w \in Range(Contents(v))}) ELSE 0
Nodes(v) == FoldLeft(LAMBDA n, w : n + Nodes(w), 1, Contents(v))
Strings(v) ==
  UNION {Strings(w) : w \in Range(Contents(v))}
    \cup IF v.type = "string" THEN {v.text}
         ELSE IF v.type = "object" THEN {m.name : m \in Range(v.members)} ELSE {}
RECURSIVE IsText(_)
IsText(t) ==
  \/ t = <<>>
  \/ t[1] \notin NotAscii /\ IsText(Tail(t))
  \/ \E r \in Wide : IsPrefix(Utf8[r], t) /\ IsText(Part(t, Len(Utf8[r]) + 1, Len(t)))
Sayable(v) ==
  /\ v.type \in {"null", "bool", "number", "string", "array", "object"}
  /\ v.type = "number" => IsNumber(v.text)
  /\ \A t \in Strings(v) : IsText(t)
  /\ \A w \in Range(Contents(v)) : Sayable(w)

(* What a document may decode to under its limits. *)
Accepted ==
  LET limits == Normalised(input.limits) IN
    {v \in Denoted(input.text) :
       /\ Len(input.text) <= limits.bytes /\ Depth(v) <= limits.depth /\ Nodes(v) <= limits.nodes
       /\ \A t \in Strings(v) : Len(t) <= limits.string}

Deepest == IF options.depth = 0 THEN 32 ELSE options.depth

TypeOK ==
  /\ stage \in {"idle", "read", "encode", "done"}
  /\ empty \in 0 .. EmptyReads
  /\ result.ok => "type" \in DOMAIN result.value /\ stage \in {"encode", "done"}

(* API.md, "Bounded JSON": however it is read, a document decodes to what   *)
(* it denotes, if that is within the limits, and to nothing else; what was  *)
(* decoded, or made by the game and can be said, is encoded within the      *)
(* depth, and the text denotes it and decodes to it again.                  *)
CodecAgrees ==
  /\ stage = "encode" /\ "text" \in DOMAIN input => result.value \in Accepted
  /\ stage = "done" /\ ~result.ok /\ result.value = "refused" => Accepted = {}
  /\ stage = "encode" =>
       (Encoding(result.value, options).ok <=> Sayable(result.value) /\ Depth(result.value) <= Deepest)
  /\ out.ok => /\ Denoted(out.bytes) = {result.value}
               /\ DecodeBytes(out.bytes, Normalised([bytes |-> 0, depth |-> 0, nodes |-> 0, string |-> 0])) = result
=============================================================================
