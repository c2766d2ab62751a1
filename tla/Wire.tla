-------------------------------- MODULE Wire --------------------------------
(***************************************************************************)
(* The messages on the pipe, as the two generated codecs read and write    *)
(* them: spec/hrpc/messages.js in JavaScript, go/schema/schema.go in Go.   *)
(* Each message is declared once per language, from that language's code:  *)
(* its fields in the order in which they are written, where its flags are  *)
(* and which bit each optional field has.                                  *)
(*                                                                         *)
(* A message is a function from its field names, text and binary data are  *)
(* sequences of bytes, and a missing value is None (null, or a nil slice). *)
(***************************************************************************)
EXTENDS Naturals, Sequences, SequencesExt, Functions

CONSTANTS
  None,
  MaxArrayLength  \* compact-encoding's: the longest array that either reader takes

Byte  == 0..255
\* What a text or a buffer can be: just under two gigabytes, where TLC's numbers end.
Width == 127 * 256 * 256 * 256
Bytes == {s \in Seq(Byte) : Len(s) < Width}

ASSUME NoneAssumption == None \notin Seq(Byte)
ASSUME MaxArrayAssumption == MaxArrayLength \in Nat

Req(name, kind)      == [name |-> name, kind |-> kind, bit |-> 0]
Opt(name, kind, bit) == [name |-> name, kind |-> kind, bit |-> bit]
Flags                == [name |-> "flags", kind |-> "flags", bit |-> 0]

-----------------------------------------------------------------------------
(* JavaScript. *)

JsEmpty        == <<>>
JsChatRequest  == <<Req("sessionId", "text"), Req("message", "text"), Flags,
                    Opt("model", "text", 1)>>
JsChunkTypes   == <<"content", "thinking", "done", "error">>
JsChatChunk    == <<Req("type", "chunkType"), Flags, Opt("content", "text", 1)>>
JsSessionScope == <<Flags, Opt("agentId", "text", 1), Opt("channel", "text", 2),
                    Opt("account", "text", 4), Opt("peer", "text", 8)>>
JsSessionKey   == <<Req("key", "text")>>
JsSessionList  == <<Req("keys", "texts")>>
JsSessionBlob  == <<Req("key", "text"), Req("data", "data")>>
JsStateBlob    == <<Req("sessions", "blobs")>>
JsToolDef      == <<Req("name", "text"), Req("description", "text"), Flags,
                    Opt("inputSchema", "data", 1)>>
JsToolCall     == <<Req("callId", "text"), Req("name", "text"), Req("input", "data")>>
JsToolResult   == <<Req("callId", "text"), Flags, Opt("output", "data", 1),
                    Opt("errMsg", "text", 2)>>
JsStateFields  == <<"history", "summary">>
JsStateChunk   == <<Req("sessionKey", "text"), Req("field", "stateField"),
                    Req("data", "data")>>

\* An optional field is on the wire when it is truthy: "" is not, an empty buffer is.
JsPresent(f, v) == v # None /\ (f.kind = "text" => v # <<>>)

JsEncoding ==
  [empty |-> JsEmpty, chatRequest |-> JsChatRequest, chatChunk |-> JsChatChunk,
   sessionScope |-> JsSessionScope, sessionKey |-> JsSessionKey,
   sessionList |-> JsSessionList, sessionBlob |-> JsSessionBlob, stateBlob |-> JsStateBlob,
   toolDef |-> JsToolDef, toolCall |-> JsToolCall, toolResult |-> JsToolResult,
   stateChunk |-> JsStateChunk]

-----------------------------------------------------------------------------
(* Go. *)

GoEmpty        == <<>>
GoChatRequest  == <<Req("sessionId", "text"), Req("message", "text"), Flags,
                    Opt("model", "text", 1)>>
GoChunkTypes   == <<"content", "thinking", "done", "error">>
GoChatChunk    == <<Req("type", "chunkType"), Flags, Opt("content", "text", 1)>>
GoSessionScope == <<Flags, Opt("agentId", "text", 1), Opt("channel", "text", 2),
                    Opt("account", "text", 4), Opt("peer", "text", 8)>>
GoSessionKey   == <<Req("key", "text")>>
GoSessionList  == <<Req("keys", "texts")>>
GoSessionBlob  == <<Req("key", "text"), Req("data", "data")>>
GoStateBlob    == <<Req("sessions", "blobs")>>
GoToolDef      == <<Req("name", "text"), Req("description", "text"), Flags,
                    Opt("inputSchema", "data", 1)>>
GoToolCall     == <<Req("callId", "text"), Req("name", "text"), Req("input", "data")>>

\* Mutant: the two optional fields of a tool result are written the other way around.
GoToolResult_Swapped == <<Req("callId", "text"), Flags, Opt("errMsg", "text", 2),
                          Opt("output", "data", 1)>>

GoToolResult   == <<Req("callId", "text"), Flags, Opt("output", "data", 1),
                    Opt("errMsg", "text", 2)>>
GoStateFields  == <<"history", "summary">>
GoStateChunk   == <<Req("sessionKey", "text"), Req("field", "stateField"),
                    Req("data", "data")>>

\* An optional string is on the wire unless it is "", an optional slice unless it is nil.
GoPresent(f, v) == IF f.kind = "text" THEN v # <<>> ELSE v # None

GoEncoding ==
  [empty |-> GoEmpty, chatRequest |-> GoChatRequest, chatChunk |-> GoChatChunk,
   sessionScope |-> GoSessionScope, sessionKey |-> GoSessionKey,
   sessionList |-> GoSessionList, sessionBlob |-> GoSessionBlob, stateBlob |-> GoStateBlob,
   toolDef |-> GoToolDef, toolCall |-> GoToolCall, toolResult |-> GoToolResult,
   stateChunk |-> GoStateChunk]

-----------------------------------------------------------------------------
(* What the two sides differ in. *)

Fields(side, type)  == IF side = "js" THEN JsEncoding[type] ELSE GoEncoding[type]
Present(side, f, v) == IF side = "js" THEN JsPresent(f, v) ELSE GoPresent(f, v)
Enum(side, kind)    == IF kind = "chunkType"
                         THEN IF side = "js" THEN JsChunkTypes ELSE GoChunkTypes
                         ELSE IF side = "js" THEN JsStateFields ELSE GoStateFields
\* What a field that is not on the wire decodes to.
Missing(side, kind) == IF side = "go" /\ kind = "text" THEN <<>> ELSE None

-----------------------------------------------------------------------------
(* Writing.  Uint and the length prefix are compact-encoding's. *)

Uint(n)  == IF n < 253 THEN <<n>>
            ELSE IF n < 256 * 256 THEN <<253, n % 256, n \div 256>>
            ELSE LET q == n \div 256
                     p == q \div 256
                 IN <<254, n % 256, q % 256, p % 256, p \div 256>>
Block(b) == IF b = None THEN <<0>> ELSE Uint(Len(b)) \o b
\* No message has more than four optional fields.
FlagsOf(side, fs, m) ==
  LET Has(bit) == \E i \in DOMAIN fs : fs[i].bit = bit /\ Present(side, fs[i], m[fs[i].name])
      On(bit)  == IF Has(bit) THEN bit ELSE 0
  IN  On(1) + On(2) + On(4) + On(8)
IndexOf(s, v) == CHOOSE i \in DOMAIN s : s[i] = v

\* An array of texts, or of frames.
PutMany(bs) == Uint(Len(bs)) \o FlattenSeq([j \in DOMAIN bs |-> Block(bs[j])])
PutField(side, fs, m, f) ==
  IF f.kind = "flags" THEN Uint(FlagsOf(side, fs, m))
  ELSE IF f.bit # 0 /\ ~ Present(side, f, m[f.name]) THEN <<>>
  ELSE IF f.kind \in {"text", "data"} THEN Block(m[f.name])
  ELSE IF f.kind = "texts" THEN PutMany(m[f.name])
  ELSE Uint(IndexOf(Enum(side, f.kind), m[f.name]))
PutFlat(side, fs, m) == FlattenSeq([i \in DOMAIN fs |-> PutField(side, fs, m, fs[i])])

\* An array of structs holds a frame for each: its length, then the struct.
Frames(side, m) == [j \in DOMAIN m.sessions |->
                      PutFlat(side, Fields(side, "sessionBlob"), m.sessions[j])]
Encode(side, type, m) == IF type # "stateBlob" THEN PutFlat(side, Fields(side, type), m)
                         ELSE PutMany(Frames(side, m))

\* What a side's code can have in a field: a JavaScript optional may be null, a Go slice nil.
Writable(side, f) ==
  IF f.kind = "text" THEN IF side = "js" /\ f.bit # 0 THEN Bytes \cup {None} ELSE Bytes
  ELSE IF f.kind = "data" THEN Bytes \cup {None}
  ELSE IF f.kind = "texts" THEN {v \in Seq(Bytes) : Len(v) < Width}
  ELSE ToSet(Enum(side, f.kind))

\* m is a message that a side's code can give its codec.
IsFlat(side, fs, m) ==
  LET own == {i \in DOMAIN fs : fs[i].kind # "flags"} IN
  /\ m = [n \in {fs[i].name : i \in own} |-> m[n]]
  /\ \A i \in own : m[fs[i].name] \in Writable(side, fs[i])
IsMessage(side, type, m) ==
  IF type # "stateBlob" THEN IsFlat(side, Fields(side, type), m)
  ELSE /\ DOMAIN m = {"sessions"} /\ m.sessions \in Seq(ToSet(m.sessions))
       /\ \A b \in ToSet(m.sessions) : IsFlat(side, Fields(side, "sessionBlob"), b)
       /\ Frames(side, m) \in Seq(Bytes) /\ Len(m.sessions) < Width

\* A writer writes an array of any length, a reader takes it up to MaxArrayLength.
Fits(type, m) ==
  /\ type = "sessionList" => Len(m.keys) <= MaxArrayLength
  /\ type = "stateBlob" => Len(m.sessions) <= MaxArrayLength

-----------------------------------------------------------------------------
(* Reading.  A reader has the bytes left, the flags read and the fields so far. *)

Reader(bytes) == [ok |-> TRUE, rest |-> bytes, flags |-> 0, m |-> <<>>, val |-> None]
Fails(r) == [r EXCEPT !.ok = FALSE]
Rest(b, n) == SubSeq(b, n + 1, Len(b))

\* No number that a side writes has eight bytes.
TakeUint(r) ==
  IF ~ r.ok \/ r.rest = <<>> THEN Fails(r)
  ELSE IF r.rest[1] < 253 THEN [r EXCEPT !.val = r.rest[1], !.rest = Rest(@, 1)]
  ELSE IF r.rest[1] = 253 /\ Len(r.rest) >= 3
    THEN [r EXCEPT !.val = r.rest[2] + 256 * r.rest[3], !.rest = Rest(@, 3)]
  ELSE IF r.rest[1] = 254 /\ Len(r.rest) >= 5
    THEN [r EXCEPT !.val = r.rest[2] + 256 * (r.rest[3] + 256 * (r.rest[4] + 256 * r.rest[5])),
                   !.rest = Rest(@, 5)]
  ELSE Fails(r)

TakeBlock(r) ==
  LET u == TakeUint(r) IN
  IF ~ u.ok \/ Len(u.rest) < u.val THEN Fails(r)
  ELSE [u EXCEPT !.val = SubSeq(u.rest, 1, u.val), !.rest = Rest(@, u.val)]

\* The one element of S.  Bound in a set, a reader is evaluated once.
The(S) == CHOOSE x \in S : TRUE

\* Mutant: the longest array that is allowed is refused.
TakeMany_Short(r) ==
  LET n == TakeUint(r)
      A[i \in 0..n.val] ==
        IF i = 0 THEN [n EXCEPT !.val = <<>>]
        ELSE The({[TakeBlock(a) EXCEPT !.val = Append(a.val, @)] : a \in {A[i - 1]}})
  IN IF ~ n.ok \/ n.val >= MaxArrayLength THEN Fails(r) ELSE A[n.val]

TakeMany(r) ==
  LET n == TakeUint(r)
      A[i \in 0..n.val] ==
        IF i = 0 THEN [n EXCEPT !.val = <<>>]
        ELSE The({[TakeBlock(a) EXCEPT !.val = Append(a.val, @)] : a \in {A[i - 1]}})
  IN IF ~ n.ok \/ n.val > MaxArrayLength THEN Fails(r) ELSE A[n.val]

TakeValue(side, f, r) ==
  IF f.bit # 0 /\ (r.flags \div f.bit) % 2 = 0 THEN [r EXCEPT !.val = Missing(side, f.kind)]
  ELSE IF f.kind = "text" THEN TakeBlock(r)
  ELSE IF f.kind = "data" THEN
    \* JavaScript's buffer decoder has no empty buffer, it has null.
    LET b == TakeBlock(r)
    IN [b EXCEPT !.val = IF b.ok /\ side = "js" /\ @ = <<>> THEN None ELSE @]
  ELSE IF f.kind = "texts" THEN TakeMany(r)
  ELSE LET u == TakeUint(r)
           enum == Enum(side, f.kind)
       IN [u EXCEPT !.val = IF u.ok /\ @ \in DOMAIN enum THEN enum[@] ELSE None]

TakeField(side, f, r) ==
  IF f.kind = "flags" THEN LET u == TakeUint(r) IN [u EXCEPT !.flags = IF u.ok THEN u.val ELSE 0]
  ELSE LET t == TakeValue(side, f, r)
       IN [t EXCEPT !.m = [n \in DOMAIN r.m \cup {f.name} |-> IF n = f.name THEN t.val ELSE r.m[n]]]

TakeFields(side, fs, r) ==
  LET D[i \in 0..Len(fs)] ==
        IF i = 0 THEN r ELSE The({TakeField(side, fs[i], d) : d \in {D[i - 1]}})
  IN D[Len(fs)]

\* A frame is read as the struct that it holds, by a reader that has no other bytes.
TakeFrame(side, bytes) == TakeFields(side, Fields(side, "sessionBlob"), Reader(bytes))

Decode(side, type, bytes) ==
  IF type # "stateBlob" THEN TakeFields(side, Fields(side, type), Reader(bytes))
  ELSE LET t == TakeMany(Reader(bytes))
           frames == [j \in DOMAIN t.val |-> TakeFrame(side, t.val[j])]
       IN IF t.ok /\ \A j \in DOMAIN frames : frames[j].ok
            THEN [t EXCEPT !.m = [sessions |-> [j \in DOMAIN frames |-> frames[j].m]]]
            ELSE Fails(t)

=============================================================================
