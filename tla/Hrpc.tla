-------------------------------- MODULE Hrpc --------------------------------
(***************************************************************************)
(* A call over the channel, from either side to the other: the dispatcher  *)
(* and the client of spec/hrpc/index.js, onRequest, the handlers and the   *)
(* client of go/hrpc/hrpc.go.  The two sides agree on nothing but command  *)
(* numbers and bytes; the channel (bare-rpc) carries the bytes and matches *)
(* an answer to its request.  Calls share nothing else, so the module has  *)
(* one call at a time and leaves their number open.                        *)
(***************************************************************************)
EXTENDS Schema

CONSTANT Values(_, _)  \* the messages of a type that a side's code makes

Method == {"chat", "sessionCreate", "sessionList", "sessionExport", "sessionImport",
           "stateExport", "stateImport", "toolRegister", "toolExec", "stateChanged"}
Side == {"js", "go"}

ASSUME ValuesAssumption ==
  \A s \in Side : \A type \in DOMAIN JsEncoding : \A m \in Values(s, type) : IsMessage(s, type, m)

Peer(s) == IF s = "js" THEN "go" ELSE "js"

VARIABLES
  caller, method, args, \* the call
  st,      \* of the call: idle, sent, handling, replied, ok, rejected
  frame,   \* the request or the answer in flight
  handled, \* what the handler was called for and with
  answer,  \* what the handler returned
  got,     \* what the caller was given
  dead     \* the channel has ended

call == <<caller, method, args>>
vars == <<caller, method, args, st, frame, handled, answer, got, dead>>

-----------------------------------------------------------------------------
(* JavaScript: the methods map, and what each is read and written as. *)

JsCommands == <<"chat", "sessionCreate", "sessionList", "sessionExport", "sessionImport",
                "stateExport", "stateImport", "toolRegister", "toolExec", "stateChanged">>
JsRequest == [chat |-> "chatRequest", sessionCreate |-> "sessionScope", sessionList |-> "empty",
              sessionExport |-> "sessionKey", sessionImport |-> "sessionBlob",
              stateExport |-> "empty", stateImport |-> "stateBlob", toolRegister |-> "toolDef",
              toolExec |-> "toolCall", stateChanged |-> "stateChunk"]
JsResponse == [chat |-> "chatChunk", sessionCreate |-> "sessionKey",
               sessionList |-> "sessionList", sessionExport |-> "sessionBlob",
               sessionImport |-> "empty", stateExport |-> "stateBlob", stateImport |-> "empty",
               toolRegister |-> "empty", toolExec |-> "toolResult"]
JsIsSend(m) == m = "stateChanged"
\* index.js registers these two; any other command finds no function to call.
JsServed == {"toolExec", "stateChanged"}

(* Go: the number each client method sends, and the type onRequest gives each number. *)

\* Mutant: two commands have each other's number.
GoCommands_Swapped == <<"chat", "sessionCreate", "sessionList", "sessionImport", "sessionExport",
                        "stateExport", "stateImport", "toolRegister", "toolExec", "stateChanged">>
GoCommands == <<"chat", "sessionCreate", "sessionList", "sessionExport", "sessionImport",
                "stateExport", "stateImport", "toolRegister", "toolExec", "stateChanged">>
\* Mutant: the client counts its commands from one.
GoSends_One == [toolExec |-> 9, stateChanged |-> 10]
GoSends == [toolExec |-> 8, stateChanged |-> 9]
GoRequest == [chat |-> "chatRequest", sessionCreate |-> "sessionScope", sessionList |-> "empty",
              sessionExport |-> "sessionKey", sessionImport |-> "sessionBlob",
              stateExport |-> "empty", stateImport |-> "stateBlob", toolRegister |-> "toolDef",
              toolExec |-> "toolCall", stateChanged |-> "stateChunk"]
GoResponse == [chat |-> "chatChunk", sessionCreate |-> "sessionKey",
               sessionList |-> "sessionList", sessionExport |-> "sessionBlob",
               sessionImport |-> "empty", stateExport |-> "stateBlob", stateImport |-> "empty",
               toolRegister |-> "empty", toolExec |-> "toolResult"]
\* Server leaves ToolExec and StateChanged to UnimplementedServer.
GoServed == Method \ {"toolExec", "stateChanged"}

Request(s, m)  == IF s = "js" THEN JsRequest[m] ELSE GoRequest[m]
Response(s, m) == IF s = "js" THEN JsResponse[m] ELSE GoResponse[m]
Served(s)      == IF s = "js" THEN JsServed ELSE GoServed
Number(s, m)   == IF s = "js" THEN IndexOf(JsCommands, m) - 1 ELSE GoSends[m]
Command(s, n)  == IF s = "js" THEN JsCommands[n + 1] ELSE GoCommands[n + 1]

-----------------------------------------------------------------------------
Nothing == [method |-> "none", request |-> None]

Init ==
  /\ caller \in Side /\ method \in Served(Peer(caller)) /\ args = None
  /\ st = "idle" /\ frame = None /\ handled = Nothing /\ answer = None /\ got = None
  /\ dead = FALSE

\* A client method encodes its arguments and sends them under its number: a request, or
\* the one event, whose send is its end.
Invoke ==
  /\ st = "idle" /\ ~ dead
  /\ \E a \in Values(caller, Request(caller, method)) :
       /\ args' = a
       /\ frame' = [command |-> Number(caller, method), event |-> method = "stateChanged",
                    data |-> Encode(caller, Request(caller, method), a)]
  /\ st' = "sent"
  /\ UNCHANGED <<caller, method, handled, answer, got, dead>>

\* The dispatcher reads the payload as its command's own type; an empty payload is no
\* arguments at all, null in JavaScript and the zero value in Go.
Dispatch ==
  /\ st = "sent" /\ ~ dead
  /\ LET s == Peer(caller)
         m == Command(s, frame.command)
     IN \E d \in {Decode(s, Request(s, m), frame.data)} :
          IF m \in Served(s) /\ (d.ok \/ frame.data = <<>>)
            THEN /\ handled' = [method |-> m,
                                request |-> IF frame.data = <<>> THEN None ELSE d.m]
                 /\ st' = "handling"
            ELSE st' = "refused" /\ UNCHANGED handled
  /\ UNCHANGED <<call, frame, answer, got, dead>>

Unanswered == IF caller = "go" THEN JsIsSend(handled.method) ELSE frame.event

\* The handler returns a response, which is encoded as the command's, or fails, which is
\* answered with the error.  An event has no answer.
Answer ==
  /\ st = "handling" /\ ~ dead
  /\ \/ /\ ~ Unanswered
        /\ LET s == Peer(caller) IN
           \E r \in Values(s, Response(s, handled.method)) :
             /\ answer' = r
             /\ frame' = [frame EXCEPT !.data = Encode(s, Response(s, handled.method), r)]
        /\ st' = "replied"
     \/ ~ Unanswered /\ st' = "refused" /\ UNCHANGED <<answer, frame>>
     \/ Unanswered /\ st' = "ok" /\ UNCHANGED <<answer, frame>>
  /\ UNCHANGED <<call, handled, got, dead>>

Settle ==
  /\ st = "replied" /\ ~ dead
  /\ \E d \in {Decode(caller, Response(caller, method), frame.data)} :
     IF d.ok THEN got' = d.m /\ st' = "ok" ELSE st' = "rejected" /\ UNCHANGED got
  /\ UNCHANGED <<call, frame, handled, answer, dead>>

\* Mutant: an error answer settles nothing.
Reject_Never == FALSE

Reject ==
  /\ st = "refused" /\ ~ dead
  /\ st' = IF frame.event THEN "ok" ELSE "rejected"
  /\ UNCHANGED <<call, frame, handled, answer, got, dead>>

\* What waits for an answer on a channel that ended is rejected; an event is lost.
Fail ==
  /\ dead /\ st \in {"sent", "handling", "replied", "refused"}
  /\ st' = IF frame.event THEN "ok" ELSE "rejected"
  /\ UNCHANGED <<call, frame, handled, answer, got, dead>>

ChannelEnds ==
  /\ ~ dead /\ dead' = TRUE
  /\ UNCHANGED <<call, st, frame, handled, answer, got>>

\* The call is over.
Settled == st \in {"idle", "ok", "rejected"} /\ UNCHANGED vars

Step == Invoke \/ Dispatch \/ Answer \/ Settle \/ Reject \/ Fail
Next == Step \/ ChannelEnds \/ Settled

\* The channel delivers or ends, and handlers settle; nobody has to call.
Fairness == WF_vars(Dispatch \/ Answer \/ Settle \/ Reject \/ Fail)

Spec == Init /\ [][Next]_vars /\ Fairness

-----------------------------------------------------------------------------
TypeOK ==
  /\ caller \in Side /\ method \in Served(Peer(caller)) /\ dead \in BOOLEAN
  /\ st \in {"idle", "sent", "handling", "replied", "refused", "ok", "rejected"}
  /\ handled.method \in Method \cup {"none"}
  /\ st # "idle" => frame.command \in 0..9

\* One value in the other language: there, absent and empty are one, and only null
\* tells JavaScript that a payload had no bytes.
Norm(v) == IF v = None THEN <<>> ELSE v
SameFlat(a, b) == DOMAIN a = DOMAIN b /\ \A f \in DOMAIN a : Norm(a[f]) = Norm(b[f])
Same(type, a, b) ==
  IF type = "empty" THEN Norm(a) = Norm(b)
  ELSE IF type # "stateBlob" THEN SameFlat(a, b)
  ELSE /\ Len(a.sessions) = Len(b.sessions)
       /\ \A i \in DOMAIN a.sessions : SameFlat(a.sessions[i], b.sessions[i])

\* A handler is called for the command that its caller named, and with the arguments its
\* caller gave: no field is swapped, cut, shifted or mistaken by the other language.
HandledAsCalled ==
  st \in {"handling", "replied"} =>
    handled.method = method /\ Same(Request(caller, method), handled.request, args)

\* A call that resolves gives its caller what the handler returned.
AnsweredAsReturned == st = "ok" /\ answer # None => Same(Response(caller, method), got, answer)

\* Between the two sides' codecs nothing is unreadable but an array that is too long: a
\* handler is called just when its arguments fit, and a call that was answered with what
\* fits is rejected only because the channel ended (schema.go:360, 433).
NothingUnreadable ==
  /\ st \in {"handling", "replied", "refused"} =>
       (handled # Nothing <=> Fits(Request(caller, method), args))
  /\ st = "replied" =>
       (Decode(caller, Response(caller, method), frame.data).ok
          <=> Fits(Response(caller, method), answer))

\* Every call settles.
CallSettles == st = "sent" ~> st \in {"ok", "rejected"}

\* A call goes out under the number that build.js gives it, as the types that it gives it,
\* and both sides have these types as it declares them: no generated file is older than
\* another.
GeneratedAsDeclared ==
  st = "sent" =>
    LET rpc == Calls[frame.command + 1] IN
    /\ rpc.name = method /\ frame.event = (rpc.response = "none")
    /\ \A s \in Side :
         /\ Command(s, frame.command) = method
         /\ Request(s, method) = rpc.request /\ TypeAsDeclared(rpc.request)
         /\ ~ frame.event => /\ Response(s, method) = rpc.response
                              /\ TypeAsDeclared(rpc.response)

=============================================================================
