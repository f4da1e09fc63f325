------------------------------ MODULE JsonText -------------------------------
(***************************************************************************)
(* The JSON reader and writer of dynamic_variable.cpp.  A value is one of  *)
(*   <<"nil">>, <<"bool", b>>, <<"num", m, e>>, <<"str", text>>,           *)
(*   <<"arr", sequence of values>>, <<"obj", function from texts>>         *)
(* and a number is m * 10^e, where m does not end in the digit 0.  It has  *)
(* at most nine digits, so that a double holds it to the last.             *)
(***************************************************************************)
EXTENDS HttpText, TLC

Nil == <<"nil">>

BackSlash == 92
Slash == 47
Comma == 44
OpenArr == 91
CloseArr == 93
OpenObj == 123
CloseObj == 125
LetterE == 101
LetterU == 117
Dot == 46

True == <<116, 114, 117, LetterE>>
False == <<102, 97, 108, 115, LetterE>>
Null == <<110, LetterU, 108, 108>>

\* The letter of each short escape and the byte it stands for.
Short == (Quote :> Quote) @@ (BackSlash :> BackSlash) @@ (Slash :> Slash)
           @@ (98 :> 8) @@ (102 :> 12) @@ (110 :> Newline) @@ (114 :> Return) @@ (116 :> 9)

-----------------------------------------------------------------------------
(* Writing *)

WrittenShort == {Quote, BackSlash, 8, 9, Newline, 12, Return}

LowerHex(v) == IF v < 10 THEN Zero + v ELSE 87 + v

\* Mutation: the backslash itself is written as it is.
EscapedNotItself(c) ==
  IF c \in WrittenShort \ {BackSlash}
    THEN <<BackSlash, CHOOSE e \in DOMAIN Short : Short[e] = c>>
  ELSE IF c < Space
    THEN <<BackSlash, LetterU, Zero, Zero, LowerHex(c \div 16), LowerHex(c % 16)>>
  ELSE <<c>>

Escaped(c) ==
  IF c \in WrittenShort
    THEN <<BackSlash, CHOOSE e \in DOMAIN Short : Short[e] = c>>
  ELSE IF c < Space
    THEN <<BackSlash, LetterU, Zero, Zero, LowerHex(c \div 16), LowerHex(c % 16)>>
  ELSE <<c>>

json_escape(s) == <<Quote>> \o FlattenSeq([i \in DOMAIN s |-> Escaped(s[i])]) \o <<Quote>>

RECURSIVE Decimal(_)
Decimal(n) == IF n < 10 THEN <<Zero + n>> ELSE Append(Decimal(n \div 10), Zero + (n % 10))

RECURSIVE Num(_, _)
Num(m, e) == IF m = 0 THEN <<"num", 0, 0>>
             ELSE IF m % 10 = 0 THEN Num(m \div 10, e + 1)
             ELSE <<"num", m, e>>

Zeros(n) == [i \in 1 .. n |-> Zero]
Size(m) == IF m < 0 THEN -m ELSE m
Sign(m) == IF m < 0 THEN <<Dash>> ELSE <<>>

\* The digits and the point of digits * 10^e, none left out.
Plain(digits, e) ==
  LET all   == Zeros(Max({0, 1 - e - Len(digits)})) \o digits
      whole == Len(all) + e
  IN IF e >= 0 THEN digits \o Zeros(e)
     ELSE SubSeq(all, 1, whole) \o <<Dot>> \o SubSeq(all, whole + 1, Len(all))

Precision == 6

\* A stream prints a double to six digits, and with an exponent if the first
\* of them stands for a million or more, or for less than 1/10000.  What lies
\* in the middle of two numbers of six digits is left out.
Printed(m, e) ==
  LET drop   == Max({0, Len(Decimal(Size(m))) - Precision})
      near   == Num((Size(m) + 10 ^ drop \div 2) \div 10 ^ drop, e + drop)
      digits == Decimal(near[2])
      first  == near[3] + Len(digits) - 1
  IN Sign(m) \o
     IF first \in -4 .. Precision - 1 THEN Plain(digits, near[3])
     ELSE Plain(digits, 1 - Len(digits))
            \o <<LetterE, IF first < 0 THEN Dash ELSE Plus>>
            \o (IF first \in -9 .. 9 THEN <<Zero>> ELSE <<>>) \o Decimal(Size(first))

Separated(texts) ==
  FlattenSeq([i \in DOMAIN texts |-> IF i = 1 THEN texts[i] ELSE <<Comma>> \o texts[i]])

\* The members of an object come in the order of an unordered map: any.
RECURSIVE to_json(_)
to_json(v) ==
  CASE v[1] = "nil"  -> Null
    [] v[1] = "bool" -> IF v[2] THEN True ELSE False
    [] v[1] = "num"  -> Printed(v[2], v[3])
    [] v[1] = "str"  -> json_escape(v[2])
    [] v[1] = "arr"  ->
         <<OpenArr>> \o Separated([i \in DOMAIN v[2] |-> to_json(v[2][i])]) \o <<CloseArr>>
    [] v[1] = "obj"  ->
         LET keys == SetToSeq(DOMAIN v[2]) IN
         <<OpenObj>>
           \o Separated([i \in DOMAIN keys |->
                json_escape(keys[i]) \o <<Colon>> \o to_json(v[2][keys[i]])])
           \o <<CloseObj>>

-----------------------------------------------------------------------------
(***************************************************************************)
(* Reading.  A reader takes the text and a position and returns what it    *)
(* read and the position behind it, or Failed.                             *)
(***************************************************************************)
Failed == [ok |-> FALSE, val |-> Nil, next |-> 0]
Got(v, i) == [ok |-> TRUE, val |-> v, next |-> i]

skip_ws(s, i) == Min({j \in i .. Len(s) : s[j] \notin White} \cup {Len(s) + 1})

\* match: the byte comes next, after white space.
Comes(s, i, byte) == LET j == skip_ws(s, i) IN j <= Len(s) /\ s[j] = byte
Past(s, i) == skip_ws(s, i) + 1

Utf8(c) ==
  IF c < 128 THEN <<c>>
  ELSE IF c < 2048 THEN <<192 + c \div 64, 128 + (c % 64)>>
  ELSE <<224 + c \div 4096, 128 + ((c \div 64) % 64), 128 + (c % 64)>>

Code(s, i) ==
  FoldLeft(LAMBDA v, c : 16 * v + hexval(c), 0, SubSeq(s, i, i + 3))

IsCode(s, i) == i + 3 <= Len(s) /\ \A j \in i .. i + 3 : hexval(s[j]) >= 0

\* Inside a string; text is what has been read of it.
RECURSIVE StringFrom(_, _, _)
StringFrom(s, i, text) ==
  CASE i > Len(s)       -> Failed
    [] s[i] = Quote     -> Got(<<"str", text>>, i + 1)
    [] s[i] = BackSlash ->
         IF i = Len(s) THEN Failed
         ELSE IF s[i + 1] \in DOMAIN Short
           THEN StringFrom(s, i + 2, Append(text, Short[s[i + 1]]))
         ELSE IF s[i + 1] = LetterU /\ IsCode(s, i + 2)
           THEN StringFrom(s, i + 6, text \o Utf8(Code(s, i + 2)))
         ELSE Failed
    [] OTHER            -> StringFrom(s, i + 1, Append(text, s[i]))

parse_string(s, i) ==
  IF Comes(s, i, Quote) THEN StringFrom(s, Past(s, i), <<>>) ELSE Failed

\* A number is read up to the first byte that is neither a digit nor the first
\* point.
parse_number(s, i) ==
  LET start  == IF s[i] \in {Dash, Plus} THEN i + 1 ELSE i
      Points(j) == {k \in start .. j : s[k] = Dot}
      end    == Min({j \in start .. Len(s) : /\ s[j] \notin 48 .. 57
                                             /\ s[j] = Dot => Points(j) # {j}}
                      \cup {Len(s) + 1})
      digits == SelectSeq(SubSeq(s, start, end - 1), LAMBDA c : c # Dot)
      size   == FoldLeft(LAMBDA v, c : 10 * v + c - Zero, 0, digits)
      places == IF Points(end - 1) = {} THEN 0 ELSE end - 1 - Min(Points(end - 1))
  IN IF digits = <<>> THEN Failed
     ELSE Got(Num(IF s[i] = Dash THEN -size ELSE size, -places), end)

Literal(s, i, word) == i + Len(word) - 1 <= Len(s) /\ SubSeq(s, i, i + Len(word) - 1) = word

RECURSIVE parse_value(_, _), ElementsFrom(_, _, _), MembersFrom(_, _, _)

parse_array(s, i) ==
  IF Comes(s, i, CloseArr) THEN Got(<<"arr", <<>>>>, Past(s, i))
  ELSE ElementsFrom(s, i, <<>>)

ElementsFrom(s, i, done) ==
  LET elem == parse_value(s, i)
      all  == Append(done, elem.val) IN
  IF ~elem.ok THEN Failed
  ELSE IF Comes(s, elem.next, CloseArr) THEN Got(<<"arr", all>>, Past(s, elem.next))
  ELSE IF Comes(s, elem.next, Comma) THEN ElementsFrom(s, Past(s, elem.next), all)
  ELSE Failed

parse_object(s, i) ==
  IF Comes(s, i, CloseObj) THEN Got(<<"obj", Empty>>, Past(s, i))
  ELSE MembersFrom(s, i, Empty)

\* emplace: of two members with one key the first stays.
MembersFrom(s, i, done) ==
  LET key == parse_string(s, i)
      val == parse_value(s, Past(s, key.next))
      all == IF key.val[2] \in DOMAIN done THEN done ELSE Put(done, key.val[2], val.val) IN
  IF ~key.ok \/ ~Comes(s, key.next, Colon) \/ ~val.ok THEN Failed
  ELSE IF Comes(s, val.next, CloseObj) THEN Got(<<"obj", all>>, Past(s, val.next))
  ELSE IF Comes(s, val.next, Comma) THEN MembersFrom(s, Past(s, val.next), all)
  ELSE Failed

parse_value(s, i) ==
  LET j == skip_ws(s, i) IN
  CASE j > Len(s)           -> Failed
    [] Comes(s, j, Quote)   -> parse_string(s, j)
    [] Comes(s, j, OpenObj) -> parse_object(s, j + 1)
    [] Comes(s, j, OpenArr) -> parse_array(s, j + 1)
    [] Literal(s, j, True)  -> Got(<<"bool", TRUE>>, j + 4)
    [] Literal(s, j, False) -> Got(<<"bool", FALSE>>, j + 5)
    [] Literal(s, j, Null)  -> Got(Nil, j + 4)
    [] OTHER                -> parse_number(s, j)

\* The text is one value, and only white space follows it.
parse_json(s) ==
  LET read == parse_value(s, 1) IN
  IF read.ok /\ skip_ws(s, read.next) > Len(s) THEN read ELSE Failed
==============================================================================
