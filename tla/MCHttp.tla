------------------------------- MODULE MCHttp --------------------------------
(***************************************************************************)
(* Requests whose query, cookies, form, body, endpoint file or session is  *)
(* exhausted over a few telling texts, one at a time, and a few that have  *)
(* everything.                                                             *)
(***************************************************************************)
EXTENDS HttpProperties

a == 97
b == 98
x == 120

Texts(bytes, n) == BoundedSeq(bytes, n)

Bare == [query |-> <<>>, cookies |-> <<>>, body |-> "none", form |-> <<>>, json |-> Nil,
          parts |-> <<>>, lines |-> <<>>, session |-> Nil]

\* What looks like an escape, a blank or a delimiter, also at the end.
QueryPairs == {<<>>, <<a>>, <<Amp>>}
                \X (Texts({Percent, Plus, Equals}, 2) \cup {<<Space>>, <<Amp, a>>, <<255>>,
                                                           <<Percent, 52, 49>>})
Queries == {[Bare EXCEPT !.query = q] : q \in Texts(QueryPairs, 2)}
Forms == {[Bare EXCEPT !.body = "form", !.form = f, !.query = <<<<<<a>>, <<x>>>>>>] :
            f \in Texts(QueryPairs, 1)}

CookiePairs == {SessionCookie, <<a>>}
                 \X {<<>>, <<x>>, <<Equals>>, <<a, Space, b>>, <<x, Quote>>, <<Quote, x>>, <<Equals, Quote>>}
Cookies == {[Bare EXCEPT !.cookies = c] : c \in Texts(CookiePairs, 2)}

Contents == Texts({Return, Newline, Dash, a}, 3)
Part(name, filename, content) == [name |-> name, filename |-> filename, content |-> content]
MoreParts == {<<>>, <<Part(<<a>>, <<>>, <<x>>)>>, <<Part(<<b>>, <<x>>, <<Dash, Dash, 66>>)>>}
Multiparts ==
  {[Bare EXCEPT !.body = "multipart", !.query = <<<<<<a>>, <<b>>>>>>,
                 !.parts = <<Part(<<a>>, f, c)>> \o more] :
     f \in {<<>>, <<x, Equals>>}, c \in Contents, more \in MoreParts}

Chars == {<<Quote>>, <<BackSlash>>, <<Newline>>, <<1>>, <<LetterU>>,
          <<195, 169>>, <<226, 130, 172>>}
\* Both ends of what is printed without an exponent, and what is rounded to
\* them and past them.
Numbers ==
  {Num(n[1], n[2]) : n \in {<<0, 0>>, <<42, 0>>, <<-999999, 0>>, <<1, 6>>, <<-1, 6>>,
     <<12345678, 0>>, <<125, -2>>, <<-5, -1>>, <<1, -4>>, <<-99, -6>>, <<1234567, -1>>,
     <<9999994, -1>>, <<9999996, -1>>, <<123456789, -8>>, <<-3000004, -6>>,
     <<99999996, -12>>, <<9999994, -11>>, <<123456789, -20>>}}
Values ==
  {Nil, <<"bool", TRUE>>, <<"bool", FALSE>>, <<"arr", <<>>>>, <<"obj", Empty>>}
    \cup Numbers
    \cup {<<"str", FlattenSeq(t)>> : t \in Texts(Chars, 2)}
Nested ==
  {<<"arr", vs>> : vs \in Texts({Nil, Num(7, 0), Num(1, 6), <<"str", <<Quote>>>>}, 2)}
    \cup {<<"obj", (<<BackSlash>> :> v) @@ (<<a>> :> <<"arr", <<v, w>>>>)>> :
            v \in {Num(-15, -1), Num(-1, 6), <<"str", <<BackSlash, Quote>>>>},
            w \in {<<"obj", Empty>>, <<"obj", (<<x>> :> Nil)>>}}

\* A client prints all digits of its numbers, and no exponent.
Jsons == {[Bare EXCEPT !.body = "json", !.json = v, !.query = <<<<<<a>>, <<x>>>>>>] :
            v \in Values \cup Nested}
Brokens == {[Bare EXCEPT !.body = "broken", !.json = v] : v \in Nested}

Sessions == {[Bare EXCEPT !.cookies = <<<<SessionCookie, <<x>>>>>>, !.session = v] :
               v \in Values \cup Nested}

\* a=1   b=   x   #a=2   (blank)   a = 2   =x
Lines == {<<a, Equals, 49>>, <<b, Equals>>, <<x>>, <<Hash, a, Equals, 50>>, <<Space>>,
          <<a, Space, Equals, Space, 50, Return>>, <<Equals, x>>}
Endpoints == {[Bare EXCEPT !.lines = l] : l \in Texts(Lines, 4)}

Whole ==
  {[Bare EXCEPT !.query = <<<<<<a>>, q>>, <<<<b>>, <<x>>>>>>,
                 !.cookies = <<<<SessionCookie, <<x>>>>, <<<<a>>, <<Equals>>>>>>,
                 !.body = body,
                 !.form = <<<<<<a>>, <<Space, Percent>>>>>>,
                 !.json = <<"obj", (<<a>> :> <<"arr", <<Num(1, 0)>>>>)>>,
                 !.parts = <<Part(<<a>>, <<>>, <<Newline>>), Part(<<b>>, <<x>>, <<Return>>)>>,
                 !.lines = <<<<a, Equals>>, <<x>>>>,
                 !.session = <<"obj", (<<a>> :> <<"str", q>>)>>] :
     q \in Texts({Quote, Percent}, 2), body \in {"none", "form", "json", "broken", "multipart"}}

MCSent == Queries \cup Forms \cup Cookies \cup Multiparts \cup Jsons \cup Brokens
            \cup Sessions \cup Endpoints \cup Whole
==============================================================================
