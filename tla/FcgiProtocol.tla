---------------------------- MODULE FcgiProtocol ----------------------------
(***************************************************************************)
(* What one FastCGI record does to one request (fastcgi.cpp, the switch of *)
(* process_buffer).  A record keeps what the switch looks at: its type,    *)
(* the request id, the length of its content and the KEEP_CONN bit.  A     *)
(* request keeps its flags and the two byte counters the limits bound.     *)
(***************************************************************************)
EXTENDS Integers, Sequences

CONSTANTS
  MaxParams,              \* global_config.max_params_bytes
  MaxStdin                \* global_config.max_stdin_bytes

ASSUME LimitsAssumption == MaxParams \in Nat /\ MaxStdin \in Nat

\* "BAD" is a record whose version is not 1; "OTHER" is any type the switch
\* ignores; "PARTIAL" is the first bytes of a record whose rest is still to come.
RecordType == {"BEGIN", "PARAMS", "STDIN", "ABORT", "OTHER", "BAD", "PARTIAL"}

Flag == {"INITIALIZED", "KEEP_CONNECTION", "PARAMS_COMPLETE", "INPUT_COMPLETE",
         "RESPONDED", "ABORTED", "FAILED"}

\* Records that make process_buffer look the request up or construct it.
NamesRequest(rec) == rec.type \in {"BEGIN", "PARAMS", "STDIN", "ABORT"}

Responded(r) == "RESPONDED" \in r.flags

Complete(r) == {"PARAMS_COMPLETE", "INPUT_COMPLETE"} \subseteq r.flags

(***************************************************************************)
(* fail_request: END_REQUEST is owed once, and only to a request that was  *)
(* not answered yet.                                                       *)
(***************************************************************************)
FailRequest(r) ==
  IF Responded(r) THEN r
  ELSE [r EXCEPT !.flags = @ \cup {"RESPONDED", "FAILED"}]

ApplyBegin(r, rec) ==
  [r EXCEPT !.flags = @ \cup {"INITIALIZED"}
                        \cup (IF rec.keep THEN {"KEEP_CONNECTION"} ELSE {})]

\* An empty record ends the stream; a failed request swallows its content.
\* The name-value pairs of a record are taken together as its length.
ApplyParams(r, rec) ==
  IF rec.len = 0 THEN [r EXCEPT !.flags = @ \cup {"PARAMS_COMPLETE"}]
  ELSE IF "FAILED" \in r.flags THEN r
  ELSE IF r.params_bytes + rec.len > MaxParams THEN FailRequest(r)
  ELSE [r EXCEPT !.params_bytes = @ + rec.len]

ApplyStdin(r, rec) ==
  IF rec.len = 0 THEN [r EXCEPT !.flags = @ \cup {"INPUT_COMPLETE"}]
  ELSE IF "FAILED" \in r.flags THEN r
  ELSE IF r.body_bytes + rec.len > MaxStdin THEN FailRequest(r)
  ELSE [r EXCEPT !.body_bytes = @ + rec.len]

ApplyAbort(r) == FailRequest([r EXCEPT !.flags = @ \cup {"ABORTED"}])

\* The request after a record that names it.
ApplyRecord(r, rec) ==
  CASE rec.type = "BEGIN"  -> ApplyBegin(r, rec)
    [] rec.type = "PARAMS" -> ApplyParams(r, rec)
    [] rec.type = "STDIN"  -> ApplyStdin(r, rec)
    [] OTHER               -> ApplyAbort(r)

\* What the record appended to the connection's output: the END_REQUEST of
\* fail_request, if this record was the one that failed the request.
EndsRequest(before, after) == ~Responded(before) /\ Responded(after)

\* Mutation: the body is not waited for.
ReadyOnParams(r) == "PARAMS_COMPLETE" \in r.flags /\ ~Responded(r)

\* The condition under which process_buffer calls on_request_ready.
Ready(r) == Complete(r) /\ ~Responded(r) /\ "FAILED" \notin r.flags
============================================================================
