------------------------------- MODULE Schema -------------------------------
(***************************************************************************)
(* What build.js declares, once for both languages: the message types and  *)
(* the calls.  The generators make of it the codecs that Wire has and the  *)
(* channels that Hrpc has; LaidOut is their rule.                          *)
(***************************************************************************)
EXTENDS Wire

Required(name, kind) == [name |-> name, kind |-> kind, required |-> TRUE]
Optional(name, kind) == [name |-> name, kind |-> kind, required |-> FALSE]

Types ==
  [empty        |-> <<>>,
   chatRequest  |-> <<Required("sessionId", "text"), Required("message", "text"),
                      Optional("model", "text")>>,
   chatChunk    |-> <<Required("type", "chunkType"), Optional("content", "text")>>,
   sessionScope |-> <<Optional("agentId", "text"), Optional("channel", "text"),
                      Optional("account", "text"), Optional("peer", "text")>>,
   sessionKey   |-> <<Required("key", "text")>>,
   sessionList  |-> <<Required("keys", "texts")>>,
   sessionBlob  |-> <<Required("key", "text"), Required("data", "data")>>,
   stateBlob    |-> <<Required("sessions", "blobs")>>,
   toolDef      |-> <<Required("name", "text"), Required("description", "text"),
                      Optional("inputSchema", "data")>>,
   toolCall     |-> <<Required("callId", "text"), Required("name", "text"),
                      Required("input", "data")>>,
   toolResult   |-> <<Required("callId", "text"), Optional("output", "data"),
                      Optional("errMsg", "text")>>,
   stateChunk   |-> <<Required("sessionKey", "text"), Required("field", "stateField"),
                      Required("data", "data")>>]

Enums == [chunkType  |-> <<"content", "thinking", "done", "error">>,
          stateField |-> <<"history", "summary">>]

\* A call's name, request and response; an event, which is sent only, has no response.
Rpc(name, request, response) == [name |-> name, request |-> request, response |-> response]
Calls ==
  <<Rpc("chat", "chatRequest", "chatChunk"),
    Rpc("sessionCreate", "sessionScope", "sessionKey"),
    Rpc("sessionList", "empty", "sessionList"),
    Rpc("sessionExport", "sessionKey", "sessionBlob"),
    Rpc("sessionImport", "sessionBlob", "empty"),
    Rpc("stateExport", "empty", "stateBlob"),
    Rpc("stateImport", "stateBlob", "empty"),
    Rpc("toolRegister", "toolDef", "empty"),
    Rpc("toolExec", "toolCall", "toolResult"),
    Rpc("stateChanged", "stateChunk", "none")>>

-----------------------------------------------------------------------------
\* The generators' rule: the fields in the order declared, one number of flags before the first
\* that is optional, and for each optional one the next bit of it.
LaidOut(fs, fields) ==
  \E k \in 0..Len(fields) :  \* how many come before the flags, which are there for an optional
    LET in(i) == fs[IF i <= k THEN i ELSE i + 1] IN
    /\ Len(fs) = IF k = Len(fields) THEN k ELSE Len(fields) + 1
    /\ \A i \in 1..Len(fields) :
         /\ in(i).name = fields[i].name /\ in(i).kind = fields[i].kind
         /\ fields[i].required <=> in(i).bit = 0
    /\ \A i \in 1..k : fields[i].required
    /\ k < Len(fields) => fs[k + 1] = Flags /\ in(k + 1).bit = 1
    /\ \A i, j \in (k + 1)..Len(fields) :
         /\ i < j /\ ~ fields[i].required /\ ~ fields[j].required
         /\ \A n \in (i + 1)..(j - 1) : fields[n].required
         => in(j).bit = 2 * in(i).bit

\* The fields of a type, or the values of an enumeration, are in both languages as declared.
TypeAsDeclared(type) ==
  \A s \in {"js", "go"} :
    /\ LaidOut(Fields(s, type), Types[type])
    /\ \A f \in ToSet(Types[type]) :
         f.kind \in DOMAIN Enums => Enum(s, f.kind) = Enums[f.kind]

=============================================================================
