--------------------------- MODULE HttpProperties ----------------------------
(***************************************************************************)
(* What the readers of http.cpp, config.cpp, session.cpp and               *)
(* dynamic_variable.cpp owe to the client, stated without their text.      *)
(***************************************************************************)
EXTENDS HttpRequest

\* The last value of each name; fields without a name do not count.
Meant(pairs) ==
  LET names == {pairs[i][1] : i \in DOMAIN pairs} \ {<<>>}
      LastOf(k) == Max({i \in DOMAIN pairs : pairs[i][1] = k})
  IN [k \in names |-> String(pairs[LastOf(k)][2])]

EndsInCRLF(s) == IsSuffix(CRLF, s)

Fields == SelectSeq(sent.parts, LAMBDA part : part.filename = <<>>)

\* The parameters of the body.  A form field may have an empty name only in a
\* multipart body, whose clients name every part.
MeantByBody ==
  CASE sent.body = "none"      -> Empty
    [] sent.body = "form"      -> Meant(sent.form)
    [] sent.body = "json"      ->
         IF sent.json[1] = "obj" THEN sent.json[2] ELSE JsonKey :> sent.json
    [] sent.body = "broken"    -> JsonErrorKey :> String(<<>>)
    [] sent.body = "multipart" ->
         Meant([i \in DOMAIN Fields |-> <<Fields[i].name, Fields[i].content>>])

MeantFiles ==
  IF sent.body = "multipart" THEN SelectSeq(sent.parts, LAMBDA part : part.filename # <<>>)
  ELSE <<>>

\* The callback sees the cookies, parameters and uploads the client sent: what
\* is escaped, quoted and delimited on the way comes out as it went in, the
\* later of two fields with one name counts, and a field of the body overrides
\* one of the query.  A part that ends in CRLF is left out: it loses it.
RequestIsAsSent ==
  at \in {"session", "callback", "saved"} =>
    /\ cookies = Meant(sent.cookies)
    /\ (\A i \in DOMAIN sent.parts : ~EndsInCRLF(sent.parts[i].content)) =>
         /\ params = Into(Meant(sent.query), MeantByBody)
         /\ files = MeantFiles

\* The lines of the endpoint file that say something, and the key of each: its
\* own, or that of the nearest line before it that has one.
Says(i) == LET line == Trim(sent.lines[i], White) IN line # <<>> /\ ~IsComment(line)
Keyed == {i \in DOMAIN sent.lines : Says(i) /\ HasEquals(sent.lines[i])}
KeyOf(i) ==
  LET before == {j \in Keyed : j <= i} IN
  IF before = {} THEN Undefined ELSE Trim(Name(sent.lines[Max(before)]), White)
ValueOf(i) ==
  Trim(IF i \in Keyed THEN Rest(sent.lines[i]) ELSE sent.lines[i], White)

\* The context holds, for each key of the endpoint file, all its values in the
\* order of the lines, those of continuation lines among them, whatever
\* comments and blank lines stand between.
EndpointIsGathered ==
  LET said == SelectSeq([i \in DOMAIN sent.lines |-> i], Says) IN
  at # "endpoint" =>
    /\ DOMAIN context = {KeyOf(i) : i \in ToSet(said)}
    /\ \A k \in DOMAIN context :
         LET own == SelectSeq(said, LAMBDA i : KeyOf(i) = k) IN
         context[k] = [n \in DOMAIN own |-> ValueOf(own[n])]

\* The first digit of a number, rounded to six, stands for a power of ten that
\* is neither too large nor too small to be printed without an exponent.
IsPlain(m, e) ==
  LET len     == Len(Decimal(Size(m)))
      roundsUp == len > 6 /\ Size(m) > 10 ^ len - 10 ^ (len - 6) \div 2
  IN m = 0 \/ e + len - (IF roundsUp THEN 0 ELSE 1) \in -4 .. 5

RECURSIVE Printable(_)
Printable(v) ==
  CASE v[1] = "num" -> IsPlain(v[2], v[3])
    [] v[1] = "arr" -> \A i \in DOMAIN v[2] : Printable(v[2][i])
    [] v[1] = "obj" -> \A k \in DOMAIN v[2] : Printable(v[2][k])
    [] OTHER        -> TRUE

\* got is num, or no more than half of its sixth digit away from it.
NearNumber(got, num) ==
  LET len == Len(Decimal(Size(num[2]))) IN
  IF len <= 6 THEN got = num
  ELSE LET off == got[2] * 10 ^ (got[3] - num[3]) - num[2] IN
       Size(got[2]) < 10 ^ 6 /\ 2 * Size(off) <= 10 ^ (len - 6)

RECURSIVE Near(_, _)
Near(got, v) ==
  /\ got[1] = v[1]
  /\ CASE v[1] = "num" -> NearNumber(got, v)
       [] v[1] = "arr" -> /\ Len(got[2]) = Len(v[2])
                          /\ \A i \in DOMAIN v[2] : Near(got[2][i], v[2][i])
       [] v[1] = "obj" -> /\ DOMAIN got[2] = DOMAIN v[2]
                          /\ \A k \in DOMAIN v[2] : Near(got[2][k], v[2][k])
       [] OTHER        -> got = v

\* What session_save writes is read by session_load as the session it was,
\* whatever texts, keys and nesting are in it, with every number kept to six
\* digits.  One number that is printed with an exponent makes the whole text
\* unreadable: then nothing is loaded, never a part.
SessionIsReadable ==
  at = "saved" /\ hasId =>
    IF Printable(sent.session) THEN Near(Loaded(stored), sent.session)
    ELSE Loaded(stored) = Nil
==============================================================================
