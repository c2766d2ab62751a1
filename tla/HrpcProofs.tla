----------------------------- MODULE HrpcProofs -----------------------------
(* What a call over the channel keeps, for every message that either side can write. *)
EXTENDS Hrpc, WireProofs

MessageType == Flat \cup {"stateBlob"}

(* The values that are sent are messages of their type, in either language. *)
LEMMA ValuesAreMessages ==
  ASSUME NEW s \in Side, NEW type \in MessageType, NEW m \in Values(s, type)
  PROVE  IsMessage(s, type, m)
<1>1. type \in DOMAIN JsEncoding
  BY DEF MessageType, Flat, JsEncoding
<1> QED
  BY <1>1, ValuesAssumption

\* What a command number means is the same to both sides: the client's number is the
\* dispatcher's command.
LEMMA Numbers ==
  ASSUME NEW c \in Side, NEW m \in Served(Peer(c))
  PROVE  /\ m \in Method /\ Number(c, m) \in 0..9 /\ Command(Peer(c), Number(c, m)) = m
         /\ c = "js" => m # "stateChanged"
<1>1. CASE c = "js"
  <2>1. m \in Method /\ m \notin {"toolExec", "stateChanged"}
    BY <1>1 DEF Served, Peer, GoServed
  <2>2. \E i \in 1..10 : JsCommands[i] = m
    BY <2>1 DEF Method, JsCommands
  <2>3. DOMAIN JsCommands = 1..10
    BY DEF JsCommands
  <2>4. IndexOf(JsCommands, m) \in 1..10 /\ JsCommands[IndexOf(JsCommands, m)] = m
    BY <2>2, <2>3 DEF IndexOf
  <2>5. GoCommands = JsCommands
    BY DEF GoCommands, JsCommands
  <2>6. Number(c, m) = IndexOf(JsCommands, m) - 1
    BY <1>1 DEF Number
  <2>7. \A n : Command("go", n) = GoCommands[n + 1]
    BY DEF Command
  <2> QED
    BY <1>1, <2>1, <2>4, <2>5, <2>6, <2>7 DEF Peer
<1>2. CASE c = "go"
  <2>1. m \in {"toolExec", "stateChanged"}
    BY <1>2 DEF Served, Peer, JsServed
  <2>2. JsCommands[9] = "toolExec" /\ JsCommands[10] = "stateChanged"
    BY DEF JsCommands
  <2> QED
    BY <1>2, <2>1, <2>2 DEF Method, Number, GoSends, Command, Peer
<1> QED
  BY <1>1, <1>2 DEF Side

\* A command's arguments and its answer have one type on both sides.
LEMMA TypesAgree ==
  ASSUME NEW c \in Side, NEW s \in Side, NEW m \in Method
  PROVE  /\ Request(c, m) = Request(s, m) /\ Request(c, m) \in MessageType
         /\ m # "stateChanged" => /\ Response(c, m) = Response(s, m)
                                  /\ Response(c, m) \in MessageType
<1>1. JsRequest = GoRequest /\ JsResponse = GoResponse
  BY Zenon DEF JsRequest, GoRequest, JsResponse, GoResponse
<1>2. JsRequest[m] \in MessageType
  BY DEF JsRequest, Method, MessageType, Flat
<1>3. m # "stateChanged" => JsResponse[m] \in MessageType
  BY DEF JsResponse, Method, MessageType, Flat
<1> QED
  BY <1>1, <1>2, <1>3 DEF Request, Response

(* The two sides of the channel are each other's peer. *)
LEMMA Peers == \A c \in Side : Peer(c) \in Side /\ Peer(Peer(c)) = c
BY DEF Side, Peer

\* A message of no fields is nothing.
LEMMA NoFields == \A s, m : IsFlat(s, Fields(s, "empty"), m) => m = <<>>
<1> SUFFICES ASSUME NEW s, NEW m, IsFlat(s, Fields(s, "empty"), m) PROVE m = <<>>
  OBVIOUS
<1> DEFINE fs == Fields(s, "empty")
           own == {i \in DOMAIN fs : fs[i].kind # "flags"}
           names == {fs[i].name : i \in own}
<1>1. m = [n \in names |-> m[n]]
  BY Zenon DEF IsFlat
<1>2. names = {}
  <2>1. fs = <<>>
    BY DEF Fields, JsEncoding, GoEncoding, JsEmpty, GoEmpty
  <2>2. DOMAIN fs = {}
    BY <2>1
  <2> HIDE DEF fs
  <2> QED
    BY <2>2
<1>3. \A z : z = {} => [n \in z |-> m[n]] = <<>>
  OBVIOUS
<1> HIDE DEF names
<1> QED
  BY <1>1, <1>2, <1>3, Zenon

\* A message in the other language is the same to whoever does not tell absent from empty.
LEMMA AlikeIsSame ==
  ASSUME NEW s \in Side, NEW type \in MessageType, NEW a, NEW b, IsMessage(s, type, b),
         AlikeMessage(type, a, b)
  PROVE  Same(type, a, b)
<1>1. \A x, y : Alike(x, y) => Norm(x) = Norm(y)
  BY DEF Alike, Norm
<1>2. \A x, y : AlikeFlat(x, y) => SameFlat(x, y)
  <2>1. ASSUME NEW x, NEW y, AlikeFlat(x, y) PROVE SameFlat(x, y)
    <3>1. DOMAIN x = DOMAIN y
      BY <2>1, Zenon DEF AlikeFlat
    <3> QED
      BY <1>1, <2>1, <3>1, Zenon DEF AlikeFlat, SameFlat
  <2> QED
    BY <2>1
<1>3. CASE type = "empty"
  <2>1. \A z : DOMAIN z = {} /\ z = [n \in DOMAIN z |-> z[n]] => z = <<>>
    OBVIOUS
  <2>2. b = <<>>
    <3>1. IsFlat(s, Fields(s, "empty"), b)
      BY <1>3 DEF IsMessage
    <3> QED
      BY <3>1, NoFields
  <2>3. DOMAIN a = {} /\ a = [n \in DOMAIN a |-> a[n]]
    <3>1. AlikeFlat(a, b)
      BY <1>3 DEF AlikeMessage
    <3>2. DOMAIN b = {}
      BY <2>2
    <3> QED
      BY <3>1, <3>2, Zenon DEF AlikeFlat
  <2>4. a = <<>>
    BY <2>1, <2>3, Zenon
  <2> QED
    BY <1>3, <2>2, <2>4 DEF Same
<1>4. CASE type = "stateBlob"
  <2>1. \A x : x = b.sessions => Len(x) \in Nat /\ DOMAIN x = 1..Len(x)
    BY <1>4 DEF IsMessage
  <2> QED
    BY <1>2, <1>4, <2>1 DEF Same, AlikeMessage
<1>5. CASE type \notin {"empty", "stateBlob"}
  BY <1>2, <1>5 DEF Same, AlikeMessage
<1> QED
  BY <1>3, <1>4, <1>5

\* What one side wrote, the other reads as what it was if it fits, and else not at all.
LEMMA SameRead ==
  ASSUME NEW w \in Side, NEW s \in Side, NEW type \in MessageType, NEW m \in Values(w, type)
  PROVE  LET d == Decode(s, type, Encode(w, type, m))
         IN  /\ Fits(type, m) => d.ok = TRUE /\ Same(type, d.m, m)
             /\ ~ Fits(type, m) => d.ok = FALSE
             /\ Encode(w, type, m) = <<>> => Same(type, None, m) /\ Fits(type, m)
<1> DEFINE d == Decode(s, type, Encode(w, type, m))
<1>1. IsMessage(w, type, m)
  BY ValuesAreMessages
<1>2. w \in Language /\ s \in Language /\ type \in Flat \cup {"stateBlob"}
  BY DEF Side, Language, MessageType
<1>3. ASSUME Fits(type, m) PROVE d.ok = TRUE /\ AlikeMessage(type, d.m, m)
  BY <1>1, <1>2, <1>3, MessageRead
<1>4. ASSUME ~ Fits(type, m) PROVE d.ok = FALSE
  BY <1>1, <1>2, <1>4, LongArraysRefused
<1> HIDE DEF d
<1>5. Fits(type, m) => Same(type, d.m, m)
  BY <1>1, <1>3, AlikeIsSame
<1>6. ASSUME Encode(w, type, m) = <<>> PROVE Same(type, None, m) /\ Fits(type, m)
  <2>1. type = "empty"
    BY <1>1, <1>2, <1>6, MessageSize
  <2>2. IsFlat(w, Fields(w, "empty"), m)
    BY <1>1, <2>1 DEF IsMessage
  <2>3. m = <<>>
    BY <2>2, NoFields
  <2> QED
    BY <2>1, <2>3 DEF Same, Norm, Fits
<1> QED
  BY <1>3, <1>4, <1>5, <1>6 DEF d

-----------------------------------------------------------------------------
(* The invariant: what is in flight is what a side wrote, under its caller's command. *)
Framed ==
  st # "idle" =>
    frame = [command |-> Number(caller, method), event |-> method = "stateChanged",
             data |-> frame.data]
Asked ==
  /\ st # "idle" => args \in Values(caller, Request(caller, method))
  /\ st = "sent" => frame.data = Encode(caller, Request(caller, method), args)
\* A handler that was called was called as its caller meant it; a call is refused without one
\* only when its arguments do not fit.
Handled ==
  /\ handled # Nothing =>
       /\ handled.method = method /\ Same(Request(caller, method), handled.request, args)
       /\ Fits(Request(caller, method), args)
  /\ st \in {"idle", "sent"} => handled = Nothing
  /\ st \in {"handling", "replied"} => handled # Nothing
  /\ st = "refused" /\ handled = Nothing => ~ Fits(Request(caller, method), args)
\* An answer is there while it is on its way and after it was read, never before.
Answered ==
  /\ st = "replied" =>
       /\ method # "stateChanged"
       /\ answer \in Values(Peer(caller), Response(caller, method))
       /\ frame.data = Encode(Peer(caller), Response(caller, method), answer)
  /\ st \in {"idle", "sent", "handling", "refused"} => answer = None
  /\ st = "ok" /\ answer # None => Same(Response(caller, method), got, answer)

CallInv ==
  /\ caller \in Side /\ method \in Served(Peer(caller)) /\ dead \in BOOLEAN
  /\ st \in {"idle", "sent", "handling", "replied", "refused", "ok", "rejected"}
  /\ Framed /\ Asked /\ Handled /\ Answered

(* No call is under way at the start. *)
LEMMA InitCall == Init => CallInv
BY DEF Init, CallInv, Framed, Asked, Handled, Answered

\* The facts about a call that every step uses.
LEMMA CallFacts ==
  ASSUME caller \in Side, method \in Served(Peer(caller))
  PROVE  /\ Peer(caller) \in Side /\ method \in Method /\ method # "none"
         /\ Number(caller, method) \in 0..9
         /\ Command(Peer(caller), Number(caller, method)) = method
         /\ Request(Peer(caller), method) = Request(caller, method)
         /\ Request(caller, method) \in MessageType
         /\ method # "stateChanged" => /\ Response(Peer(caller), method) = Response(caller, method)
                                       /\ Response(caller, method) \in MessageType
         /\ caller = "js" => method # "stateChanged"
<1>1. Peer(caller) \in Side
  BY Peers
<1>2. /\ method \in Method /\ Number(caller, method) \in 0..9
      /\ Command(Peer(caller), Number(caller, method)) = method
      /\ caller = "js" => method # "stateChanged"
  BY Numbers
<1>3. /\ Request(Peer(caller), method) = Request(caller, method)
      /\ Request(caller, method) \in MessageType
      /\ method # "stateChanged" => /\ Response(Peer(caller), method) = Response(caller, method)
                                    /\ Response(caller, method) \in MessageType
  BY <1>1, <1>2, TypesAgree, Zenon
<1>4. method # "none"
  BY <1>2 DEF Method
<1> QED
  BY <1>1, <1>2, <1>3, <1>4

(* A request is encoded with its own command's encoding, and nothing else is on the wire. *)
LEMMA InvokeCall == CallInv /\ Invoke => CallInv'
<1> SUFFICES ASSUME CallInv, Invoke PROVE CallInv'
  OBVIOUS
<1> USE DEF CallInv, Framed, Asked, Handled, Answered
<1>1. PICK a \in Values(caller, Request(caller, method)) :
        /\ args' = a
        /\ frame' = [command |-> Number(caller, method), event |-> method = "stateChanged",
                     data |-> Encode(caller, Request(caller, method), a)]
  BY DEF Invoke
<1>2. /\ st = "idle" /\ st' = "sent" /\ caller' = caller /\ method' = method
      /\ handled' = handled /\ answer' = answer /\ got' = got /\ dead' = dead
  BY DEF Invoke
<1>3. handled = Nothing /\ answer = None
  BY <1>2
<1> DEFINE e == Encode(caller, Request(caller, method), a)
<1>4. frame'.data = e /\ args' = a /\ a \in Values(caller', Request(caller', method'))
  BY <1>1, <1>2
<1>5. Framed'
  BY <1>1, <1>2, <1>4, Zenon
<1>6. Asked'
  BY <1>2, <1>4, Zenon
<1>7. Handled'
  BY <1>2, <1>3
<1>8. Answered'
  BY <1>2, <1>3
<1> QED
  BY <1>2, <1>5, <1>6, <1>7, <1>8

\* The dispatcher reads what was sent, and as the command that was meant.
LEMMA DispatchCall == CallInv /\ Dispatch => CallInv'
<1> SUFFICES ASSUME CallInv, Dispatch PROVE CallInv'
  OBVIOUS
<1> DEFINE p == Peer(caller)
           type == Request(caller, method)
           d == Decode(p, type, frame.data)
<1>1. /\ caller \in Side /\ p \in Side /\ method \in Served(p) /\ type \in MessageType
      /\ Request(p, method) = type /\ Command(p, Number(caller, method)) = method
  BY CallFacts DEF CallInv
<1>2. /\ st = "sent" /\ caller' = caller /\ method' = method /\ args' = args
      /\ frame' = frame /\ answer' = answer /\ got' = got /\ dead' = dead
  BY DEF Dispatch, call
<1>3. /\ frame.command = Number(caller, method)
      /\ frame.data = Encode(caller, type, args) /\ args \in Values(caller, type)
  BY <1>2 DEF CallInv, Framed, Asked
<1>4. /\ Fits(type, args) => d.ok = TRUE /\ Same(type, d.m, args)
      /\ ~ Fits(type, args) => d.ok = FALSE
      /\ frame.data = <<>> => Same(type, None, args) /\ Fits(type, args)
  <2> HIDE DEF p, type
  <2>1. LET x == Decode(p, type, Encode(caller, type, args))
        IN  /\ Fits(type, args) => x.ok = TRUE /\ Same(type, x.m, args)
            /\ ~ Fits(type, args) => x.ok = FALSE
            /\ Encode(caller, type, args) = <<>> => Same(type, None, args) /\ Fits(type, args)
    BY <1>1, <1>3, SameRead
  <2> QED
    BY <1>3, <2>1
<1> DEFINE request == IF frame.data = <<>> THEN None ELSE d.m
<1>5. IF d.ok \/ frame.data = <<>>
        THEN handled' = [method |-> method, request |-> request] /\ st' = "handling"
        ELSE st' = "refused" /\ handled' = handled
  <2>1. Command(p, frame.command) = method
    BY <1>1, <1>3
  <2> DEFINE Then(m, x) ==
        IF m \in Served(p) /\ (x.ok \/ frame.data = <<>>)
          THEN /\ handled' = [method |-> m, request |-> IF frame.data = <<>> THEN None ELSE x.m]
               /\ st' = "handling"
          ELSE st' = "refused" /\ UNCHANGED handled
             F(m) == \E x \in {Decode(p, Request(p, m), frame.data)} : Then(m, x)
  <2>2. F(Command(p, frame.command))
    BY Zenon DEF Dispatch
  <2>3. F(method)
    BY <2>1, <2>2, Zenon
  <2>4. Then(method, Decode(p, Request(p, method), frame.data))
    BY <2>3, Zenon
  <2>5. Then(method, d)
    BY <1>1, <2>4, Zenon
  <2> HIDE DEF d, p
  <2> QED
    BY <1>1, <2>5
<1>6. handled = Nothing /\ method # "none"
  BY <1>2, CallFacts DEF CallInv, Handled
<1> HIDE DEF d, type, p
<1>7. CASE Fits(type, args)
  <2>1. handled' = [method |-> method, request |-> request] /\ st' = "handling"
    BY <1>4, <1>5, <1>7
  <2>2. handled'.method = method /\ Same(type, handled'.request, args)
    BY <1>4, <1>7, <2>1
  <2>3. handled' # Nothing
    BY <1>6, <2>2 DEF Nothing
  <2>4. Framed' /\ Asked'
    BY <1>2, <2>1, Zenon DEF CallInv, Framed, Asked
  <2>5. Handled'
    BY <1>2, <1>7, <2>1, <2>2, <2>3 DEF Handled, type
  <2>6. Answered'
    BY <1>2, <2>1 DEF CallInv, Answered
  <2> QED
    BY <1>1, <1>2, <2>1, <2>4, <2>5, <2>6 DEF CallInv, p
<1>8. CASE ~ Fits(type, args)
  <2>1. st' = "refused" /\ handled' = Nothing
    BY <1>4, <1>5, <1>6, <1>8
  <2>2. Framed' /\ Asked'
    BY <1>2, <2>1, Zenon DEF CallInv, Framed, Asked
  <2>3. Handled'
    BY <1>2, <1>8, <2>1 DEF Handled, type
  <2>4. Answered'
    BY <1>2, <2>1 DEF CallInv, Answered
  <2> QED
    BY <1>1, <1>2, <2>1, <2>2, <2>3, <2>4 DEF CallInv, p
<1> QED
  BY <1>7, <1>8

\* The frame of the one event, and no other, says that it is one.
LEMMA EventFrame == CallInv /\ st # "idle" => frame.event = (method = "stateChanged")
<1> DEFINE b == method = "stateChanged"
           k == Number(caller, method)
<1>1. ASSUME CallInv, st # "idle" PROVE frame = [command |-> k, event |-> b, data |-> frame.data]
  BY <1>1, Zenon DEF CallInv, Framed
<1> HIDE DEF b, k
<1>2. \A x, y, c, e : x = [command |-> c, event |-> e, data |-> y] => x.event = e
  OBVIOUS
<1>3. ASSUME CallInv, st # "idle" PROVE frame.event = b
  BY <1>1, <1>2, <1>3, Zenon
<1> QED
  BY <1>3, Zenon DEF b

\* Whether a call has an answer is the same to both sides.
LEMMA AnswerCall == CallInv /\ Answer => CallInv'
<1> SUFFICES ASSUME CallInv, Answer PROVE CallInv'
  OBVIOUS
<1> DEFINE p == Peer(caller)
<1>1. /\ st = "handling" /\ caller' = caller /\ method' = method /\ args' = args
      /\ handled' = handled /\ got' = got /\ dead' = dead
  BY DEF Answer, call
<1>2. handled # Nothing /\ handled.method = method /\ answer = None
  BY <1>1 DEF CallInv, Handled, Answered
<1>3. frame = [command |-> Number(caller, method), event |-> method = "stateChanged",
               data |-> frame.data]
  BY <1>1 DEF CallInv, Framed
<1>4. Unanswered <=> method = "stateChanged"
  <2>1. frame.event <=> method = "stateChanged"
    BY <1>1, EventFrame, Zenon
  <2> QED
    BY <1>2, <2>1 DEF Unanswered, JsIsSend
<1>5. CASE /\ ~ Unanswered /\ st' = "replied"
           /\ \E r \in Values(p, Response(p, handled.method)) :
                /\ answer' = r
                /\ frame' = [frame EXCEPT !.data = Encode(p, Response(p, handled.method), r)]
  <2>1. method # "stateChanged" /\ Response(p, method) = Response(caller, method)
    BY <1>4, <1>5, CallFacts DEF CallInv
  <2> DEFINE type == Response(caller, method)
             data(r) == Encode(p, type, r)
  <2>2. PICK r \in Values(p, type) : answer' = r /\ frame' = [frame EXCEPT !.data = data(r)]
    BY <1>2, <1>5, <2>1, Zenon
  <2>3. frame' = [command |-> Number(caller, method), event |-> method = "stateChanged",
                  data |-> data(r)]
    <3> DEFINE e == data(r)
               b == method = "stateChanged"
               k == Number(caller, method)
    <3> HIDE DEF e, b, k
    <3>1. \A x, y : x = [command |-> k, event |-> b, data |-> y]
            => [x EXCEPT !.data = e] = [command |-> k, event |-> b, data |-> e]
      OBVIOUS
    <3> QED
      BY <1>3, <2>2, <3>1, Zenon DEF e, b, k
  <2>4. frame'.data = data(r)
    BY <2>3, Zenon
  <2>5. Framed'
    BY <1>1, <1>5, <2>3, <2>4, Zenon DEF Framed
  <2>6. Asked'
    BY <1>1, <1>5, Zenon DEF CallInv, Asked
  <2>7. Handled'
    BY <1>1, <1>2, <1>5 DEF CallInv, Handled
  <2>8. Answered'
    <3> HIDE DEF data
    <3> QED
      BY <1>1, <1>5, <2>1, <2>2, <2>4 DEF Answered, data
  <2> QED
    BY <1>1, <1>5, <2>5, <2>6, <2>7, <2>8 DEF CallInv
<1>6. CASE /\ answer' = answer /\ frame' = frame
           /\ (~ Unanswered /\ st' = "refused") \/ (Unanswered /\ st' = "ok")
  <2>1. Framed' /\ Asked'
    BY <1>1, <1>6, Zenon DEF CallInv, Framed, Asked
  <2>2. Handled'
    BY <1>1, <1>2, <1>6 DEF CallInv, Handled
  <2>3. Answered'
    BY <1>1, <1>2, <1>6 DEF CallInv, Answered
  <2> QED
    BY <1>1, <1>6, <2>1, <2>2, <2>3 DEF CallInv
<1> QED
  BY <1>5, <1>6, Zenon DEF Answer

\* The answer is read as what it was written as, if it fits.
LEMMA SettleRead ==
  ASSUME CallInv, st = "replied"
  PROVE  LET d == Decode(caller, Response(caller, method), frame.data)
         IN  /\ Fits(Response(caller, method), answer) =>
                  d.ok = TRUE /\ Same(Response(caller, method), d.m, answer)
             /\ ~ Fits(Response(caller, method), answer) => d.ok = FALSE
<1> DEFINE p == Peer(caller)
           type == Response(caller, method)
<1>1. /\ method # "stateChanged" /\ answer \in Values(p, type)
      /\ frame.data = Encode(p, type, answer)
  BY DEF CallInv, Answered
<1>2. caller \in Side /\ p \in Side /\ type \in MessageType
  BY <1>1, CallFacts DEF CallInv
<1> HIDE DEF p, type
<1>3. LET d == Decode(caller, type, Encode(p, type, answer))
      IN  /\ Fits(type, answer) => d.ok = TRUE /\ Same(type, d.m, answer)
          /\ ~ Fits(type, answer) => d.ok = FALSE
          /\ Encode(p, type, answer) = <<>> => Same(type, None, answer) /\ Fits(type, answer)
  BY <1>1, <1>2, SameRead
<1> QED
  BY <1>1, <1>3 DEF type

(* The caller reads what the handler answered, or is rejected for an answer it cannot read. *)
LEMMA SettleCall == CallInv /\ Settle => CallInv'
<1> SUFFICES ASSUME CallInv, Settle PROVE CallInv'
  OBVIOUS
<1> DEFINE type == Response(caller, method)
           d == Decode(caller, type, frame.data)
<1>1. /\ st = "replied" /\ caller' = caller /\ method' = method /\ args' = args
      /\ handled' = handled /\ answer' = answer /\ frame' = frame /\ dead' = dead
  BY DEF Settle, call
<1>2. /\ Fits(type, answer) => d.ok = TRUE /\ Same(type, d.m, answer)
      /\ ~ Fits(type, answer) => d.ok = FALSE
  BY <1>1, SettleRead
<1>3. IF d.ok THEN got' = d.m /\ st' = "ok" ELSE st' = "rejected" /\ UNCHANGED got
  BY Zenon DEF Settle
<1> HIDE DEF d, type
<1>4. \/ got' = d.m /\ st' = "ok" /\ Same(type, d.m, answer)
      \/ got' = got /\ st' = "rejected"
  BY <1>2, <1>3
<1>5. Framed' /\ Asked'
  BY <1>1, <1>4, Zenon DEF CallInv, Framed, Asked
<1>6. Handled'
  BY <1>1, <1>4 DEF CallInv, Handled
<1>7. Answered'
  BY <1>1, <1>4 DEF Answered, type
<1> QED
  BY <1>1, <1>4, <1>5, <1>6, <1>7 DEF CallInv

\* A call that ends without an answer, for which only an event is not rejected.
LEMMA EndCall == CallInv /\ (Reject \/ Fail) => CallInv'
<1> SUFFICES ASSUME CallInv, Reject \/ Fail PROVE CallInv'
  OBVIOUS
<1>1. /\ caller' = caller /\ method' = method /\ args' = args /\ handled' = handled
      /\ answer' = answer /\ frame' = frame /\ got' = got /\ dead' = dead
      /\ st \in {"sent", "handling", "replied", "refused"}
      /\ st' = IF frame.event THEN "ok" ELSE "rejected"
  BY DEF Reject, Fail, call
<1>2. st = "replied" => st' = "rejected"
  <2>1. frame.event <=> method = "stateChanged"
    BY <1>1, EventFrame
  <2> QED
    BY <1>1, <2>1 DEF CallInv, Answered
<1>3. st' \in {"ok", "rejected"}
  BY <1>1
<1>4. Framed' /\ Asked'
  <2>1. st # "idle" /\ st' # "idle" /\ st' # "sent"
    BY <1>1, <1>3
  <2> QED
    BY <1>1, <2>1, Zenon DEF CallInv, Framed, Asked
<1>5. Handled'
  BY <1>1, <1>3 DEF CallInv, Handled
<1>6. Answered'
  BY <1>1, <1>2, <1>3 DEF CallInv, Answered
<1> QED
  BY <1>1, <1>3, <1>4, <1>5, <1>6 DEF CallInv

(* A channel that ends takes nothing back. *)
LEMMA ChannelEndsCall == CallInv /\ (ChannelEnds \/ UNCHANGED vars) => CallInv'
<1> SUFFICES ASSUME CallInv, ChannelEnds \/ UNCHANGED vars PROVE CallInv'
  OBVIOUS
<1>1. /\ caller' = caller /\ method' = method /\ args' = args /\ handled' = handled
      /\ answer' = answer /\ frame' = frame /\ got' = got /\ st' = st /\ dead' \in BOOLEAN
  BY DEF CallInv, ChannelEnds, call, vars
<1> QED
  BY <1>1, Zenon DEF CallInv, Framed, Asked, Handled, Answered

(* Every step of the channel keeps CallInv. *)
LEMMA StepCall == CallInv /\ [Next]_vars => CallInv'
BY InvokeCall, DispatchCall, AnswerCall, SettleCall, EndCall, ChannelEndsCall, Zenon
   DEF Next, Step, Settled

(* CallInv: a call under way is the one that was asked, by its number, its request and its
   answer, from either side; the invariants below are parts or consequences of it. *)
THEOREM CallInvariant == Spec => []CallInv
<1>1. Init => CallInv
  BY InitCall
<1>2. CallInv /\ [Next]_vars => CallInv'
  BY StepCall
<1> QED
  BY <1>1, <1>2, PTL DEF Spec

-----------------------------------------------------------------------------
\* Every call has a caller whose peer serves it, a stage, and a command that exists.
THEOREM TypeCorrect == Spec => []TypeOK
<1>1. CallInv => TypeOK
  <2> SUFFICES ASSUME CallInv PROVE TypeOK
    OBVIOUS
  <2>1. method \in Method /\ Number(caller, method) \in 0..9
    BY CallFacts DEF CallInv
  <2>2. handled.method \in Method \cup {"none"}
    BY <2>1 DEF CallInv, Handled, Nothing
  <2>3. st # "idle" => frame.command \in 0..9
    BY <2>1 DEF CallInv, Framed
  <2> QED
    BY <2>2, <2>3 DEF CallInv, TypeOK
<1> QED
  BY <1>1, CallInvariant, PTL

\* A handler is called for the command that its caller named and with the arguments that its
\* caller gave, whatever these are (the methods maps and onRequest of index.js and hrpc.go).
THEOREM HandlersAreCalledRight == Spec => []HandledAsCalled
<1>1. CallInv => HandledAsCalled
  BY DEF CallInv, Handled, HandledAsCalled
<1> QED
  BY <1>1, CallInvariant, PTL

\* What a call resolves to is what its handler returned (the clients of index.js and hrpc.go).
THEOREM AnswersAreReturnedRight == Spec => []AnsweredAsReturned
<1>1. CallInv => AnsweredAsReturned
  BY DEF CallInv, Answered, AnsweredAsReturned
<1> QED
  BY <1>1, CallInvariant, PTL

\* Only an array over the limit is unreadable to the other side: a call that is not cut off and
\* whose arguments fit reaches its handler, any other never does, and an answer can be read
\* just when it fits (onRequest of index.js and hrpc.go, schema.go:360, 433).
THEOREM AllIsReadable == Spec => []NothingUnreadable
<1>1. CallInv => NothingUnreadable
  <2> SUFFICES ASSUME CallInv PROVE NothingUnreadable
    OBVIOUS
  <2>1. st \in {"handling", "replied", "refused"} =>
          (handled # Nothing <=> Fits(Request(caller, method), args))
    BY DEF CallInv, Handled
  <2>2. ASSUME st = "replied"
        PROVE  Decode(caller, Response(caller, method), frame.data).ok
                 <=> Fits(Response(caller, method), answer)
    BY <2>2, SettleRead
  <2> QED
    BY <2>1, <2>2 DEF NothingUnreadable
<1> QED
  BY <1>1, CallInvariant, PTL

-----------------------------------------------------------------------------
(* Every type is laid out as it is declared, in both languages. *)
LEMMA TypesLaidOut ==
  /\ LaidOut(JsEmpty, Types["empty"])
  /\ LaidOut(JsChatRequest, Types["chatRequest"])
  /\ LaidOut(JsChatChunk, Types["chatChunk"])
  /\ LaidOut(JsSessionScope, Types["sessionScope"])
  /\ LaidOut(JsSessionKey, Types["sessionKey"])
  /\ LaidOut(JsSessionList, Types["sessionList"])
  /\ LaidOut(JsSessionBlob, Types["sessionBlob"])
  /\ LaidOut(JsStateBlob, Types["stateBlob"])
  /\ LaidOut(JsToolDef, Types["toolDef"])
  /\ LaidOut(JsToolCall, Types["toolCall"])
  /\ LaidOut(JsToolResult, Types["toolResult"])
  /\ LaidOut(JsStateChunk, Types["stateChunk"])
<1> USE DEF LaidOut, Types, Required, Optional, Req, Opt, Flags
<1>1. LaidOut(JsEmpty, Types["empty"]) BY DEF JsEmpty
<1>2. LaidOut(JsChatRequest, Types["chatRequest"]) BY DEF JsChatRequest
<1>3. LaidOut(JsChatChunk, Types["chatChunk"]) BY DEF JsChatChunk
<1>4. LaidOut(JsSessionScope, Types["sessionScope"]) BY DEF JsSessionScope
<1>5. LaidOut(JsSessionKey, Types["sessionKey"]) BY DEF JsSessionKey
<1>6. LaidOut(JsSessionList, Types["sessionList"]) BY DEF JsSessionList
<1>7. LaidOut(JsSessionBlob, Types["sessionBlob"]) BY DEF JsSessionBlob
<1>8. LaidOut(JsStateBlob, Types["stateBlob"]) BY DEF JsStateBlob
<1>9. LaidOut(JsToolDef, Types["toolDef"]) BY DEF JsToolDef
<1>10. LaidOut(JsToolCall, Types["toolCall"]) BY DEF JsToolCall
<1>11. LaidOut(JsToolResult, Types["toolResult"]) BY DEF JsToolResult
<1>12. LaidOut(JsStateChunk, Types["stateChunk"]) BY DEF JsStateChunk
<1> QED
  BY <1>1, <1>2, <1>3, <1>4, <1>5, <1>6, <1>7, <1>8, <1>9, <1>10, <1>11, <1>12, Zenon

LEMMA TypesAsDeclared == \A type \in MessageType : TypeAsDeclared(type)
<1> SUFFICES ASSUME NEW type \in MessageType, NEW s \in {"js", "go"}
             PROVE  /\ LaidOut(Fields(s, type), Types[type])
                    /\ \A f \in ToSet(Types[type]) :
                         f.kind \in DOMAIN Enums => Enum(s, f.kind) = Enums[f.kind]
  BY DEF TypeAsDeclared
<1>1. Fields(s, type) = JsEncoding[type]
  <2>1. CASE type \in Flat
    BY <2>1, EncodingsAgree DEF Fields
  <2>2. CASE type = "stateBlob"
    BY <2>2 DEF Fields, JsEncoding, GoEncoding, JsStateBlob, GoStateBlob
  <2> QED
    BY <2>1, <2>2 DEF MessageType
<1>2. LaidOut(JsEncoding[type], Types[type])
  BY TypesLaidOut DEF MessageType, Flat, JsEncoding
<1>3. \A kind \in DOMAIN Enums : Enum(s, kind) = Enums[kind]
  BY DEF Enums, Enum, JsChunkTypes, GoChunkTypes, JsStateFields, GoStateFields
<1> QED
  BY <1>1, <1>2, <1>3

(* The number that a command has is its place in the declaration. *)
LEMMA CallsAsDeclared ==
  ASSUME NEW n \in 0..9, NEW s \in Side
  PROVE  LET rpc == Calls[n + 1]
             m   == Command(s, n)
         IN  /\ rpc.name = m /\ Request(s, m) = rpc.request /\ rpc.request \in MessageType
             /\ m # "stateChanged" => Response(s, m) = rpc.response /\ rpc.response \in MessageType
             /\ rpc.response = "none" <=> m = "stateChanged"
<1> DEFINE rpc == Calls[n + 1]
           m   == JsCommands[n + 1]
<1>1. Command(s, n) = m
  <2>1. GoCommands = JsCommands
    BY DEF GoCommands, JsCommands
  <2> QED
    BY <2>1, Zenon DEF Command
<1>2. rpc.name = m /\ rpc.request = JsRequest[m]
      /\ (m # "stateChanged" => rpc.response = JsResponse[m])
      /\ (rpc.response = "none" <=> m = "stateChanged")
  BY DEF Calls, Rpc, JsCommands, JsRequest, JsResponse
<1>3. m \in Method
  BY DEF JsCommands, Method
<1> HIDE DEF rpc, m
<1>4. /\ Request(s, m) = JsRequest[m] /\ Request(s, m) \in MessageType
      /\ m # "stateChanged" => Response(s, m) = JsResponse[m] /\ Response(s, m) \in MessageType
  <2>1. "js" \in Side
    BY DEF Side
  <2> QED
    BY <1>3, <2>1, TypesAgree, Zenon DEF Request, Response
<1> QED
  BY <1>1, <1>2, <1>4 DEF rpc, m

\* What goes over the channel is what build.js declares: a call under the number and with the
\* types that it gives the call, and these types in both languages as it lays them out.
THEOREM AllIsAsDeclared == Spec => []GeneratedAsDeclared
<1>1. CallInv => GeneratedAsDeclared
  <2> SUFFICES ASSUME CallInv, st = "sent" PROVE GeneratedAsDeclared
    BY DEF GeneratedAsDeclared
  <2> DEFINE n   == frame.command
             rpc == Calls[n + 1]
  <2>1. n = Number(caller, method) /\ frame.event = (method = "stateChanged")
    BY EventFrame DEF CallInv, Framed
  <2>2. n \in 0..9 /\ Command(Peer(caller), n) = method /\ Peer(caller) \in Side
    BY <2>1, CallFacts DEF CallInv
  <2>3. \A s \in Side : Command(s, n) = method
    BY <2>2, CallsAsDeclared, Zenon
  <2>4. ASSUME NEW s \in Side
        PROVE  /\ rpc.name = method /\ Request(s, method) = rpc.request
               /\ TypeAsDeclared(rpc.request) /\ (rpc.response = "none" <=> method = "stateChanged")
               /\ method # "stateChanged" => /\ Response(s, method) = rpc.response
                                             /\ TypeAsDeclared(rpc.response)
    BY <2>2, <2>3, CallsAsDeclared, TypesAsDeclared, Zenon
  <2>5. frame.event = (rpc.response = "none")
    <3>1. (rpc.response = "none") = (method = "stateChanged")
      BY <2>2, <2>4
    <3> QED
      BY <2>1, <3>1, Zenon
  <2> HIDE DEF n, rpc
  <2> QED
    BY <2>1, <2>2, <2>3, <2>4, <2>5 DEF GeneratedAsDeclared, n, rpc
<1> QED
  BY <1>1, CallInvariant, PTL

=============================================================================
