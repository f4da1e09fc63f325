----------------------------- MODULE HttpRequest -----------------------------
(***************************************************************************)
(* What a worker does with one complete FastCGI request before the         *)
(* callback sees it: the closure of on_request_ready parses the endpoint   *)
(* file, the cookies, the query and the body, in this order, into the      *)
(* Request, and starts a session if the client sent the session cookie.    *)
(* Then the callback answers and its session is saved.                     *)
(***************************************************************************)
EXTENDS HttpClient

\* A member of Sent says what the client meant to send:
\*   query, cookies, form: sequences of pairs of texts
\*   body: "none", "form", "json", "broken", "multipart"; json, parts
\*   lines: the lines of the endpoint file
\*   session: the value that the callback leaves in the session
CONSTANT Sent

VARIABLES
  sent,       \* the member that is being served
  at,         \* the next step of the closure
  params, cookies, files, context,
  hasId,      \* session_id is not empty
  session,
  stored      \* the text of the session file, <<>> if there is none
vars == <<sent, at, params, cookies, files, context, hasId, session, stored>>

SessionCookie == <<115>>
JsonKey == <<95, 106>>           \* _json
JsonErrorKey == <<95, 101>>      \* _json_error

String(text) == <<"str", text>>
Strings(map) == [k \in DOMAIN map |-> String(map[k])]
Into(map, more) == [k \in DOMAIN map \cup DOMAIN more |->
                      IF k \in DOMAIN more THEN more[k] ELSE map[k]]

HttpInit ==
  /\ sent \in Sent
  /\ at = "endpoint"
  /\ params = Empty /\ cookies = Empty /\ files = <<>> /\ context = Empty
  /\ hasId = FALSE /\ session = Nil /\ stored = <<>>

ParseEndpoint ==
  /\ at = "endpoint" /\ at' = "cookies"
  /\ context' = load_kv_file(LinesText(sent.lines))
  /\ UNCHANGED <<sent, params, cookies, files, hasId, session, stored>>

ParseCookies ==
  /\ at = "cookies" /\ at' = "query"
  /\ cookies' = Strings(parse_cookie_header(CookieText(sent.cookies)))
  /\ UNCHANGED <<sent, params, files, context, hasId, session, stored>>

ParseQuery ==
  /\ at = "query" /\ at' = "body"
  /\ params' = Into(params, Strings(parse_query_string(build_query(sent.query))))
  /\ UNCHANGED <<sent, cookies, files, context, hasId, session, stored>>

-----------------------------------------------------------------------------
(* parse_form_data, by the content type *)

ParseNothing == sent.body = "none" /\ UNCHANGED <<params, files>>

ParseUrlencoded ==
  /\ sent.body = "form"
  /\ params' = Into(params, Strings(parse_query_string(FormText(sent.form))))
  /\ UNCHANGED files

\* What is no object becomes the parameter _json.
ParseJson ==
  /\ sent.body = "json"
  /\ LET read == parse_json(ClientJson(sent.json)) IN
     /\ read.ok
     /\ params' = IF read.val[1] = "obj" THEN Into(params, read.val[2])
                  ELSE Put(params, JsonKey, read.val)
  /\ UNCHANGED files

\* A body cut short.  The text of the message with the position is left out.
ParseBrokenJson ==
  /\ sent.body = "broken"
  /\ ~parse_json(Front(ClientJson(sent.json))).ok
  /\ params' = Put(params, JsonErrorKey, String(<<>>))
  /\ UNCHANGED files

FormField(map, part) ==
  IF part.filename = <<>> THEN Put(map, part.name, String(part.content)) ELSE map

ParseMultipart ==
  /\ sent.body = "multipart"
  /\ LET parts == extract_files_from_formdata(MultipartText(sent.parts), Boundary) IN
     /\ params' = Into(params, FoldLeft(FormField, Empty, parts))
     /\ files' = SelectSeq(parts, LAMBDA part : part.filename # <<>>)

ParseForm ==
  /\ at = "body" /\ at' = "session"
  /\ ParseNothing \/ ParseUrlencoded \/ ParseJson \/ ParseBrokenJson \/ ParseMultipart
  /\ UNCHANGED <<sent, cookies, context, hasId, session, stored>>

-----------------------------------------------------------------------------
(* Sessions *)

\* session_load from the text of a file: what clear() leaves if it fails.
Loaded(text) == LET read == parse_json(text) IN
                IF text # <<>> /\ read.ok THEN read.val ELSE Nil

\* session_start always draws an id anew, which is the name of no file.
StartSession == hasId' = TRUE /\ session' = Loaded(<<>>)

\* session_save, of the session the callback leaves.
Save == stored' = IF hasId THEN to_json(session') ELSE stored

\* A cookie of that name starts a session, whatever its value.
AutoLoad ==
  /\ at = "session" /\ at' = "callback"
  /\ IF SessionCookie \in DOMAIN cookies THEN StartSession
     ELSE UNCHANGED <<hasId, session>>
  /\ UNCHANGED <<sent, params, cookies, files, context, stored>>

Callback ==
  /\ at = "callback" /\ at' = "saved"
  /\ session' = sent.session
  /\ Save
  /\ UNCHANGED <<sent, params, cookies, files, context, hasId>>

HttpNext == ParseEndpoint \/ ParseCookies \/ ParseQuery \/ ParseForm
              \/ AutoLoad \/ Callback

HttpSpec == HttpInit /\ [][HttpNext]_vars
==============================================================================
