----------------------------- MODULE HttpClient ------------------------------
(***************************************************************************)
(* How a well-behaved client, and the web server before it, put a request  *)
(* into text: what the readers are given.                                  *)
(***************************************************************************)
EXTENDS JsonText

Joined(texts, by) ==
  FlattenSeq([i \in DOMAIN texts |-> IF i = 1 THEN texts[i] ELSE by \o texts[i]])

\* A browser writes a blank in a form as '+'.
FormWord(s) ==
  FlattenSeq([i \in DOMAIN s |-> IF s[i] = Space THEN <<Plus>> ELSE url_encode(<<s[i]>>)])

FormText(pairs) ==
  Joined([i \in DOMAIN pairs |-> FormWord(pairs[i][1]) \o <<Equals>> \o FormWord(pairs[i][2])],
         <<Amp>>)

\* A value with a blank in it is quoted.
CookieValue(s) == IF Contains(s, Space) THEN <<Quote>> \o s \o <<Quote>> ELSE s

CookieText(pairs) ==
  Joined([i \in DOMAIN pairs |-> pairs[i][1] \o <<Equals>> \o CookieValue(pairs[i][2])],
         <<Semicolon, Space>>)

Boundary == <<66>>

\* d; n="name"; f="filename", the last only for a file.
Header(part) ==
  <<100, Semicolon, Space>> \o NameAttr \o <<Equals, Quote>> \o part.name \o <<Quote>>
    \o IF part.filename = <<>> THEN <<>>
       ELSE <<Semicolon, Space>> \o FileAttr \o <<Equals, Quote>> \o part.filename \o <<Quote>>

MultipartText(parts) ==
  FlattenSeq([i \in DOMAIN parts |->
      Delim(Boundary) \o CRLF \o Header(parts[i]) \o CRLF \o CRLF
        \o parts[i].content \o CRLF])
    \o Delim(Boundary) \o <<Dash, Dash>>

\* The code of the UTF-8 character at i, of one, two or three bytes.
CodeAt(s, i) ==
  CASE s[i] < 128         -> s[i]
    [] s[i] \in 192 .. 223 -> 64 * (s[i] - 192) + s[i + 1] - 128
    [] s[i] >= 224         -> 4096 * (s[i] - 224) + 64 * (s[i + 1] - 128) + s[i + 2] - 128

\* A writer that escapes each character and puts a blank before each token.
JsonWord(s) ==
  <<Space, Quote>>
    \o FlattenSeq([i \in DOMAIN s |->
         IF s[i] \in 128 .. 191 THEN <<>>
         ELSE <<BackSlash, LetterU>>
                \o [d \in 1 .. 4 |-> HexDigit((CodeAt(s, i) \div 16 ^ (4 - d)) % 16)]])
    \o <<Quote>>

RECURSIVE ClientJson(_)
ClientJson(v) ==
  CASE v[1] = "str" -> JsonWord(v[2])
    [] v[1] = "num" -> <<Space>> \o Sign(v[2]) \o Plain(Decimal(Size(v[2])), v[3])
    [] v[1] = "arr" ->
         <<Space, OpenArr>>
           \o Joined([i \in DOMAIN v[2] |-> ClientJson(v[2][i])], <<Space, Comma>>)
           \o <<Space, CloseArr>>
    [] v[1] = "obj" ->
         LET keys == SetToSeq(DOMAIN v[2]) IN
         <<Space, OpenObj>>
           \o Joined([i \in DOMAIN keys |->
                JsonWord(keys[i]) \o <<Space, Colon>> \o ClientJson(v[2][keys[i]])],
                <<Space, Comma>>)
           \o <<Space, CloseObj>>
    [] OTHER -> <<Space>> \o to_json(v)

LinesText(lines) == Joined(lines, <<Newline>>)
==============================================================================
