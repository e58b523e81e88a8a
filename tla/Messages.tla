------------------------------ MODULE Messages ------------------------------
(***************************************************************************)
(* What a server answers to a document (crates/reddb-io-toon-rpc/src):     *)
(* from_wire and decode_call (serialization.rs), Dispatcher (dispatcher.rs)*)
(* over any handlers, error codes (error.rs), responses read back          *)
(* (protocol.rs), and MultiRpc, which takes JSON-RPC too (multi.rs).       *)
(* A number is an integer or a fraction, an object is a function from its  *)
(* names; an absent member, result or error is an empty sequence.          *)
(***************************************************************************)
EXTENDS Integers, Sequences

CONSTANTS Entries,             \* the entries that documents are made of
          Registered,          \* the methods with a handler
          Handler(_, _, _),    \* what it returns for parameters and an identifier
          max_batch_length,    \* 1024 in the code
          DEFAULT_MAX_DEPTH,   \* 1000 in the code
          MaxNesting,          \* levels of a value that are looked at: all that it has
          MAX_INT,             \* the largest i32
          MAX_SAFE_INTEGER,    \* 2^53 - 1 in the code
          MaxEntries           \* entries of a document

VARIABLES array,     \* whether the document is an array
          entries    \* its entries, one when it is not

messageVars == <<array, entries>>

Null == [t |-> "null"]
Bool(b) == [t |-> "bool", b |-> b]
Num(n) == [t |-> "number", whole |-> TRUE, n |-> n]
Fraction == [t |-> "number", whole |-> FALSE]
String(s) == [t |-> "string", s |-> s]
Arr(items) == [t |-> "array", items |-> items]
Obj(members) == [t |-> "object", members |-> members]
is_primitive(v) == v.t \notin {"array", "object"}
Member(v, name) == IF v.t = "object" /\ name \in DOMAIN v.members THEN <<v.members[name]>> ELSE <<>>
Parts(v) == IF v.t = "array" THEN {v.items[i] : i \in DOMAIN v.items}
            ELSE IF v.t = "object" THEN {v.members[name] : name \in DOMAIN v.members} ELSE {}

\* The sequences joined, as a loop that pushes.
Flat(seqs) == LET upto[i \in 0..Len(seqs)] == IF i = 0 THEN <<>> ELSE upto[i - 1] \o seqs[i] IN upto[Len(seqs)]

-----------------------------------------------------------------------------
(* Error codes *)

I16 == -32768..32767
I32 == -MAX_INT - 1..MAX_INT
ErrorCode(name) == [is |-> name]
ServerError(offset) == [is |-> "ServerError", n |-> offset]
Other(n) == [is |-> "Other", n |-> n]
code(c) == CASE c.is = "ParseError"     -> -32700
             [] c.is = "InvalidRequest" -> -32600
             [] c.is = "MethodNotFound" -> -32601
             [] c.is = "InvalidParams"  -> -32602
             [] c.is = "InternalError"  -> -32603
             [] c.is = "ServerError"    -> -32000 - c.n
             [] c.is = "Other"          -> c.n
from_code(n) == CASE n = -32700 -> ErrorCode("ParseError")
                  [] n = -32600 -> ErrorCode("InvalidRequest")
                  [] n = -32601 -> ErrorCode("MethodNotFound")
                  [] n = -32602 -> ErrorCode("InvalidParams")
                  [] n = -32603 -> ErrorCode("InternalError")
                  [] n \in -32099..-32000 -> ServerError(-32000 - n)
                  [] OTHER -> Other(n)
is_valid_server_offset(offset) == offset \in 0..99
is_reserved_code(n) == n \in -32768..-32000
Serializes(c) == /\ c.is = "ServerError" => is_valid_server_offset(c.n)
                 /\ c.is = "Other" => from_code(c.n) = c

Error(c, data) == [code |-> c, data |-> data]
Response(result, error, id) == [result |-> result, error |-> error, id |-> id]
Failure(c, id) == Response(<<>>, <<Error(c, <<>>)>>, id)
protocol_error(name) == Failure(ErrorCode(name), Null)

-----------------------------------------------------------------------------
(* Reading a document *)

IsInteger(v) == v.t = "number" /\ v.whole
validate_number(v) == v.whole => v.n \in -MAX_SAFE_INTEGER..MAX_SAFE_INTEGER
\* The loop over `pending`, one level of the value a round.
Pending(v) ==
  LET pending[level \in 0..MaxNesting] ==
        IF level = 0 THEN {v} ELSE UNION {Parts(w) : w \in pending[level - 1]}
  IN  pending
validate_core_value(v) ==
  \A level \in 0..MaxNesting : \A w \in Pending(v)[level] : w.t = "number" => validate_number(w)

TOONRPC_VERSION == String("1.0")
Invalid == [is |-> "Invalid"]
decode_id(v) == v.t \in {"null", "string"} \/ (IsInteger(v) /\ validate_number(v))
decode_call(v) ==
  LET method == Member(v, "method")
      params == Member(v, "params")
      id     == Member(v, "id")
  IN  IF \/ v.t # "object"
         \/ Member(v, "toonrpc") # <<TOONRPC_VERSION>>
         \/ method = <<>> \/ method[1].t # "string" \/ method[1].s = ""
         \/ params # <<>> /\ is_primitive(params[1])
         \/ id # <<>> /\ ~decode_id(id[1])
        THEN Invalid
      ELSE [is |-> IF id = <<>> THEN "Notification" ELSE "Request",
            method |-> method[1].s, params |-> params, id |-> IF id = <<>> THEN Null ELSE id[1]]

\* Response::deserialize, with Error::deserialize.
ReadError(v) ==
  LET c       == Member(v, "code")
      message == Member(v, "message")
  IN  IF \/ c = <<>> \/ ~IsInteger(c[1]) \/ c[1].n \notin I32
         \/ message = <<>> \/ message[1].t # "string"
        THEN <<>>
      ELSE <<Error(from_code(c[1].n), Member(v, "data"))>>
deserialize(v) ==
  LET result == Member(v, "result")
      error  == Member(v, "error")
      read   == IF error = <<>> THEN <<>> ELSE ReadError(error[1])
      id     == Member(v, "id")
  IN  IF \/ Member(v, "toonrpc") # <<TOONRPC_VERSION>>
         \/ id = <<>> \/ ~decode_id(id[1])
         \/ (result = <<>>) = (error = <<>>)
         \/ error # <<>> /\ read = <<>>
        THEN <<>> ELSE <<Response(result, read, id[1])>>

Message(is, content) == [is |-> is, content |-> content]
LooksAnswered(v) == Member(v, "result") # <<>> \/ Member(v, "error") # <<>>
Calls(values) == Message("Batch", [i \in DOMAIN values |-> decode_call(values[i])])
\* As if one entry that looks like a response made the batch one.
decode_batch_anyAnswer(values) ==
  LET read == [i \in DOMAIN values |-> deserialize(values[i])]
  IN  IF \E i \in DOMAIN values : LooksAnswered(values[i])
        THEN Message("BatchResponse", [i \in DOMAIN values |->
               IF read[i] = <<>> THEN protocol_error("InvalidRequest") ELSE read[i][1]])
        ELSE Calls(values)
decode_batch(values) ==
  LET read == [i \in DOMAIN values |-> deserialize(values[i])]
  IN  IF /\ \E i \in DOMAIN values : LooksAnswered(values[i])
         /\ \A i \in DOMAIN values : Member(values[i], "method") = <<>>
         /\ \A i \in DOMAIN values : read[i] # <<>>
        THEN Message("BatchResponse", [i \in DOMAIN values |-> read[i][1]])
        ELSE Calls(values)
message_from_toon_batch(values) ==
  LET valid(v) == validate_core_value(v)
  IN  IF values = <<>> THEN Message("Invalid", <<>>)
      ELSE IF \E i \in DOMAIN values : ~valid(values[i])
        THEN Message("Batch", [i \in DOMAIN values |-> IF valid(values[i]) THEN decode_call(values[i]) ELSE Invalid])
      ELSE decode_batch(values)
decode_single(v) ==
  IF Member(v, "method") # <<>> THEN Message("Single", decode_call(v))
  ELSE IF LooksAnswered(v) /\ deserialize(v) # <<>> THEN Message("SingleResponse", deserialize(v)[1])
  ELSE Message("Invalid", <<>>)
from_wire(v) ==
  IF v.t = "array" THEN message_from_toon_batch(v.items)
  ELSE IF ~validate_core_value(v) \/ v.t # "object" THEN Message("Invalid", <<>>)
  ELSE decode_single(v)

-----------------------------------------------------------------------------
(* Dispatching.  A handler returns Ok, or one of the errors it may fail    *)
(* with ("Failed": any that says nothing of a code); `ran` is the calls.   *)

IsErrorCode(c) ==
  \/ c \in {ErrorCode(name) : name \in {"ParseError", "InvalidRequest", "MethodNotFound", "InvalidParams", "InternalError"}}
  \/ c.is = "ServerError" /\ c = ServerError(c.n) /\ c.n \in I16
  \/ c.is = "Other" /\ c = Other(c.n) /\ c.n \in I32
IsOutcome(o) ==
  \/ o.is \in {"Ok", "InvalidParams", "Failed"}
  \/ o.is = "ServerError" /\ o.offset \in I16
  \/ o.is = "ApplicationError" /\ o.code \in I32
  \/ o.is = "ResponseError" /\ IsErrorCode(o.code) /\ (o.data = <<>> \/ o.data = <<o.data[1]>>)
IdOf(e) == IF Member(e, "id") = <<>> THEN Null ELSE Member(e, "id")[1]
ASSUME MessagesAssumption ==
  /\ MAX_INT \in Int /\ MAX_INT >= 32768 /\ MAX_SAFE_INTEGER \in Int /\ MAX_SAFE_INTEGER > MAX_INT
  /\ MaxNesting \in Nat /\ MaxEntries \in Nat
  /\ max_batch_length \in Nat /\ DEFAULT_MAX_DEPTH \in Nat /\ DEFAULT_MAX_DEPTH >= 2
  /\ \A method \in Registered, e \in Entries : IsOutcome(Handler(method, Member(e, "params"), IdOf(e)))

handler_response_error_is_valid(e) ==
  /\ \/ e.code.is \in {"InvalidParams", "InternalError"}
     \/ e.code.is = "ServerError" /\ is_valid_server_offset(e.code.n)
     \/ e.code.is = "Other" /\ ~is_reserved_code(e.code.n)
  /\ e.data # <<>> => validate_core_value(e.data[1])
error_from_handler(o) ==
  CASE o.is = "InvalidParams" -> Error(ErrorCode("InvalidParams"), <<>>)
    [] o.is = "ServerError" /\ is_valid_server_offset(o.offset) -> Error(ServerError(o.offset), <<>>)
    [] o.is = "ApplicationError" /\ ~is_reserved_code(o.code) -> Error(Other(o.code), <<>>)
    [] o.is = "ResponseError" /\ handler_response_error_is_valid(o) -> Error(o.code, o.data)
    [] OTHER -> Error(ErrorCode("InternalError"), <<>>)
handle_request(call) ==
  LET outcome == Handler(call.method, call.params, call.id)
  IN  IF call.method \notin Registered THEN Failure(ErrorCode("MethodNotFound"), call.id)
      ELSE IF outcome.is # "Ok" THEN Response(<<>>, <<error_from_handler(outcome)>>, call.id)
      ELSE IF ~validate_core_value(outcome.result) THEN Failure(ErrorCode("InternalError"), call.id)
      ELSE Response(<<outcome.result>>, <<>>, call.id)
Handled(call) ==
  [responses |-> CASE call.is = "Request" -> <<handle_request(call)>>
                   [] call.is = "Notification" -> <<>>
                   [] call.is = "Invalid" -> <<protocol_error("InvalidRequest")>>,
   ran |-> IF call.is # "Invalid" /\ call.method \in Registered
             THEN <<[method |-> call.method, params |-> call.params, id |-> call.id]>> ELSE <<>>]
Refused(name) == [responses |-> <<protocol_error(name)>>, is_batch |-> FALSE, ran |-> <<>>]
Refusal == Refused("InvalidRequest")
\* What comes of calls that are handled one after the other.
AllHandled(calls, is_batch) ==
  [responses |-> Flat([i \in DOMAIN calls |-> Handled(calls[i]).responses]), is_batch |-> is_batch,
   ran |-> Flat([i \in DOMAIN calls |-> Handled(calls[i]).ran])]
handle_message(message) ==
  IF message.is \in {"Invalid", "SingleResponse"} THEN Refusal
  ELSE IF message.is = "Single" THEN AllHandled(<<message.content>>, FALSE)
  ELSE IF Len(message.content) > max_batch_length THEN Refusal
  ELSE IF message.is = "BatchResponse"
    THEN [responses |-> [i \in DOMAIN message.content |-> protocol_error("InvalidRequest")], is_batch |-> TRUE,
          ran |-> <<>>]
  ELSE AllHandled(message.content, TRUE)

\* The loop over `pending`, with how deep each value is.
validate_value_depth(v, depth) ==
  LET inside(w, d) == {<<x, IF w.t = "object" /\ x.t = "array" THEN d ELSE d + 1>> : x \in {y \in Parts(w) : ~is_primitive(y)}}
      pending[level \in 0..MaxNesting] ==
        IF level = 0 THEN {<<v, depth>>} ELSE UNION {inside(p[1], p[2]) : p \in pending[level - 1]}
  IN  \A level \in 0..MaxNesting : \A p \in pending[level] : p[2] <= DEFAULT_MAX_DEPTH
validate_value_from_object(v, parent_depth) ==
  is_primitive(v) \/ validate_value_depth(v, IF v.t = "object" THEN parent_depth + 1 ELSE parent_depth)
validate_response_depth(response, in_batch) ==
  LET depth == IF in_batch THEN 1 ELSE 0
      error == response.error
  IN  /\ depth <= DEFAULT_MAX_DEPTH
      /\ response.result # <<>> => validate_value_from_object(response.result[1], depth)
      /\ error # <<>> => /\ depth + 1 <= DEFAULT_MAX_DEPTH
                         /\ error[1].data # <<>> => validate_value_from_object(error[1].data[1], depth + 1)

\* The object that a response is written as, with the dialect's member.
ErrorObject(e) ==
  Obj([name \in {"code", "message"} \cup (IF e.data = <<>> THEN {} ELSE {"data"}) |->
         CASE name = "code" -> Num(code(e.code))
           [] name = "message" -> String("m")
           [] name = "data" -> e.data[1]])
Written(dialect, version, response) ==
  Obj([name \in {dialect, "id"} \cup (IF response.result = <<>> THEN {} ELSE {"result"})
                                \cup (IF response.error = <<>> THEN {} ELSE {"error"}) |->
         CASE name = dialect -> version
           [] name = "id" -> response.id
           [] name = "result" -> response.result[1]
           [] name = "error" -> ErrorObject(response.error[1])])
\* to_wire of a response: what is sent; nothing when it cannot be.
Sent(response) ==
  LET object == Written("toonrpc", TOONRPC_VERSION, response)
  IN  IF \/ response.error # <<>> /\ ~Serializes(response.error[1].code)
         \/ ~validate_core_value(object)
        THEN <<>> ELSE <<object>>
ensure_toon_response_encodable(response, in_batch) ==
  IF validate_response_depth(response, in_batch) /\ Sent(response) # <<>> THEN response
  ELSE Failure(ErrorCode("InternalError"), response.id)
\* A text that is no document of the dialect is the empty sequence.
dispatch(read) ==
  LET handled == handle_message(from_wire(read[1]))
  IN  IF read = <<>> THEN Refused("ParseError")
      ELSE [handled EXCEPT !.responses = [i \in DOMAIN @ |-> ensure_toon_response_encodable(@[i], handled.is_batch)]]

-----------------------------------------------------------------------------
(* The JSON-RPC dialect *)

JSONRPC_VERSION == String("2.0")
to_toon_entry(v) ==
  LET kept == {name \in DOMAIN v.members : name \notin {"jsonrpc", "toonrpc"}}
  IN  IF v.t # "object" THEN v
      ELSE Obj([name \in kept \cup (IF Member(v, "jsonrpc") = <<JSONRPC_VERSION>> THEN {"toonrpc"} ELSE {}) |->
                  IF name = "toonrpc" THEN TOONRPC_VERSION ELSE v.members[name]])
EntryCall(v) == IF validate_core_value(v) THEN decode_call(to_toon_entry(v)) ELSE Invalid
dispatch_jsonrpc_entry(v) == handle_message(Message("Single", EntryCall(v)))
json_response_from(response) == Written("jsonrpc", JSONRPC_VERSION, response)
handle_jsonrpc(read) ==
  LET v       == read[1]
      values  == IF v.t = "array" THEN v.items ELSE <<v>>
      handled == [i \in DOMAIN values |-> dispatch_jsonrpc_entry(values[i])]
  IN  IF read = <<>> THEN Refused("ParseError")
      ELSE IF values = <<>> \/ Len(values) > max_batch_length THEN Refusal
      ELSE [responses |-> Flat([i \in DOMAIN handled |-> handled[i].responses]), is_batch |-> v.t = "array",
            ran |-> Flat([i \in DOMAIN handled |-> handled[i].ran])]
has_jsonrpc_member(v) ==
  IF v.t = "array" THEN \E i \in DOMAIN v.items : Member(v.items[i], "jsonrpc") # <<>>
  ELSE Member(v, "jsonrpc") # <<>>
\* A body is the character it opens with and what it is as JSON and as TOON.
detect_protocol(body, content_type) ==
  IF content_type \in {"JsonRpc", "ToonRpc"} THEN content_type
  ELSE IF body.opens \notin {"{", "["} THEN "ToonRpc"
  ELSE IF body.json # <<>> THEN IF has_jsonrpc_member(body.json[1]) THEN "JsonRpc" ELSE "ToonRpc"
  ELSE IF body.opens = "{" THEN "JsonRpc" ELSE "ToonRpc"
\* What goes out: no document, or one in the dialect of the request.
Output(out, wire(_)) ==
  IF out.responses = <<>> THEN <<>>
  ELSE <<IF out.is_batch THEN Arr([i \in DOMAIN out.responses |-> wire(out.responses[i])]) ELSE wire(out.responses[1])>>
handle(body, content_type) ==
  IF detect_protocol(body, content_type) = "JsonRpc"
    THEN Output(handle_jsonrpc(body.json), json_response_from)
    ELSE Output(dispatch(body.toon), LAMBDA response : Written("toonrpc", TOONRPC_VERSION, response))

-----------------------------------------------------------------------------
(* The documents *)

MessagesInit ==
  \/ array = TRUE /\ entries = <<>>
  \/ array = FALSE /\ \E e \in Entries : e.t # "array" /\ entries = <<e>>
MessagesNext ==
  /\ array /\ Len(entries) < MaxEntries
  /\ \E e \in Entries : entries' = Append(entries, e)
  /\ UNCHANGED array
MessagesSpec == MessagesInit /\ [][MessagesNext]_messageVars

-----------------------------------------------------------------------------
(* Properties *)

Document == IF array THEN Arr(entries) ELSE entries[1]
\* The same entry as a JSON-RPC client writes it.
Renamed(v) ==
  LET own     == DOMAIN v.members \ {"toonrpc"}
      version == v.members["toonrpc"]
  IN  IF v.t # "object" THEN v
      ELSE Obj([name \in own \cup (IF "toonrpc" \in DOMAIN v.members THEN {"jsonrpc"} ELSE {}) |->
                  IF name \in own THEN v.members[name]
                  ELSE IF version = TOONRPC_VERSION THEN JSONRPC_VERSION ELSE version])
JsonDocument == IF array THEN Arr([i \in DOMAIN entries |-> Renamed(entries[i])]) ELSE Renamed(entries[1])
\* JSON has no version that is both wrong and the other dialect's right one.
Translatable ==
  \A i \in DOMAIN entries : /\ Member(entries[i], "jsonrpc") = <<>>
                            /\ Member(entries[i], "toonrpc") # <<JSONRPC_VERSION>>
\* The JSON dialect holds a request that is no batch to the limit of batches too.
Comparable == Translatable /\ (array \/ max_batch_length > 0)

\* docs/toon-rpc-spec.md: what a call is, and what it is owed.
IsCall(e) ==
  LET method == Member(e, "method")
      params == Member(e, "params")
      id     == Member(e, "id")
  IN  /\ e.t = "object" /\ validate_core_value(e)
      /\ Member(e, "toonrpc") = <<TOONRPC_VERSION>>
      /\ method # <<>> /\ method[1].t = "string" /\ method[1].s # ""
      /\ params # <<>> => params[1].t \in {"array", "object"}
      /\ id # <<>> => \/ id[1].t \in {"null", "string"}
                      \/ /\ id[1].t = "number" /\ id[1].whole
                         /\ id[1].n \in -MAX_SAFE_INTEGER..MAX_SAFE_INTEGER
IsOwed(e) == ~IsCall(e) \/ Member(e, "id") # <<>>
MethodOf(e) == Member(e, "method")[1].s
IsServed(e) == IsCall(e) /\ MethodOf(e) \in Registered
CodeOf(r) == code(r.error[1].code)
Fails(r, n) == r.error # <<>> /\ CodeOf(r) = n
\* The code that a handler gives its error.
Claimed(o) == CASE o.is = "InvalidParams"    -> -32602
                [] o.is = "ServerError"      -> -32000 - o.offset
                [] o.is = "ApplicationError" -> o.code
                [] o.is = "ResponseError"    -> code(o.code)
                [] OTHER                     -> -32603

\* error.rs, docs/toon-rpc-spec.md:190-194: what a handler returned is answered, or
\* an internal error; no handler answers in the protocol's name, and an
\* application's code stays.
SpeaksFor(o, r) ==
  IF o.is = "Ok" THEN r.result = <<o.result>> \/ Fails(r, -32603)
  ELSE /\ Fails(r, Claimed(o)) \/ Fails(r, -32603)
       /\ CodeOf(r) \notin {-32700, -32600, -32601}
       /\ (o.is = "ApplicationError" /\ ~is_reserved_code(o.code)) => Fails(r, o.code)
Answers(r, e) ==
  /\ r.id = IF IsCall(e) THEN Member(e, "id")[1] ELSE Null
  /\ (r.result = <<>>) # (r.error = <<>>)
  /\ ~IsCall(e) => Fails(r, -32600)
  /\ IsCall(e) /\ ~IsServed(e) => Fails(r, -32601)
  /\ IsServed(e) => SpeaksFor(Handler(MethodOf(e), Member(e, "params"), IdOf(e)), r)

\* docs/toon-rpc-spec.md:219-231: a document that is refused runs nothing; in
\* any other, every entry is answered by itself and in its place: under its
\* identifier, with null when it is no request, and not at all when it is a
\* notification, which runs like the others, once and in order.
EveryEntryAnswered(out) ==
  LET owed == Flat([i \in DOMAIN entries |-> IF IsOwed(entries[i]) THEN <<entries[i]>> ELSE <<>>])
      ran  == Flat([i \in DOMAIN entries |-> LET e == entries[i] IN
                IF IsServed(e) THEN <<[method |-> MethodOf(e), params |-> Member(e, "params"), id |-> IdOf(e)]>>
                ELSE <<>>])
  IN  IF array /\ Len(entries) \notin 1..max_batch_length THEN out = Refusal
      ELSE /\ out.ran = ran
           /\ out.is_batch = array
           /\ Len(out.responses) = Len(owed)
           /\ \A i \in 1..Len(owed) : Answers(out.responses[i], owed[i])

\* multi.rs:222: both dialects run the same calls and answer the same, but for
\* what only JSON can carry.
DialectsAgree(toon, json) ==
  /\ json.ran = toon.ran
  /\ Len(json.responses) = Len(toon.responses)
  /\ \A i \in DOMAIN json.responses :
       \/ json.responses[i] = toon.responses[i]
       \/ /\ ~validate_response_depth(json.responses[i], array)
          /\ toon.responses[i] = Failure(ErrorCode("InternalError"), json.responses[i].id)

\* multi.rs:69: a client is answered in its dialect, whether or not it names it,
\* and one whose JSON is broken in JSON.
AnsweredInKind(toon, json) ==
  LET wire(response) == Written("toonrpc", TOONRPC_VERSION, response)
      asToon   == [opens |-> IF array THEN "[" ELSE "t", json |-> <<>>, toon |-> <<Document>>]
      asJson   == [opens |-> IF array THEN "[" ELSE "{", json |-> <<JsonDocument>>, toon |-> <<>>]
      broken   == [opens |-> "{", json |-> <<>>, toon |-> <<>>]
  IN  /\ \A named \in {"none", "ToonRpc"} : handle(asToon, named) = Output(toon, wire)
      /\ \A named \in {"none", "JsonRpc"} :
           (named = "JsonRpc" \/ has_jsonrpc_member(JsonDocument)) => handle(asJson, named) = Output(json, json_response_from)
      /\ handle(broken, "none") = <<json_response_from(protocol_error("ParseError"))>>

\* What is sent is read as those responses and as nothing else.
AnswersReadBack(out) ==
  LET sent == Output(out, LAMBDA response : Written("toonrpc", TOONRPC_VERSION, response))
  IN  /\ \A i \in DOMAIN out.responses : Sent(out.responses[i]) # <<>>
      /\ out.responses # <<>> =>
           from_wire(sent[1]) = IF out.is_batch THEN Message("BatchResponse", out.responses)
                                ELSE Message("SingleResponse", out.responses[1])

MessagesAnswered ==
  LET toon == dispatch(<<Document>>)
      json == handle_jsonrpc(<<JsonDocument>>)
  IN  /\ EveryEntryAnswered(toon)
      /\ AnswersReadBack(toon)
      /\ Comparable => DialectsAgree(toon, json)
      /\ Comparable => AnsweredInKind(toon, json)
=============================================================================
