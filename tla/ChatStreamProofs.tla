-------------------------- MODULE ChatStreamProofs --------------------------
(* Theorems about ChatStream, for any number of chats, pieces and any window. *)
EXTENDS ChatStream, SequenceTheorems, WellFoundedInduction, TLAPS

\* What the handlers put on a stream, and what the consumer takes off it, are frames.
LEMMA FrameTyped ==
  /\ \A c \in Chat, i \in 1..Pieces : Content(c, <<i>>) \in Frame
  /\ \A c \in Chat : Content(c, Text) \in Frame
  /\ \A c \in Chat, t \in {"done", "error"} : Terminal(c, t) \in Frame
  /\ \A c \in Chat, t \in {"close", "destroy"} : [type |-> t, of |-> c, text |-> <<>>] \in Frame
BY StreamAssumption DEF Frame, Content, Terminal, Text

(* A frame put in one chat's stream leaves the streams well formed. *)
LEMMA PutTyped ==
  ASSUME buf \in [Chat -> Seq(Frame)], NEW c \in Chat, NEW f \in Frame, Put(c, f)
  PROVE  buf' \in [Chat -> Seq(Frame)]
BY DEF Put

\* Every variable of the stream keeps its type: every turn, panics included, leaves its
\* handler in a state that the handler's next step expects.
THEOREM StreamTyped == Spec => []TypeOK
<1> USE StreamAssumption DEF TypeOK
<1>1. Init => TypeOK
  <2> SUFFICES ASSUME Init PROVE TypeOK
    OBVIOUS
  <2>1. providerErr \in BOOLEAN /\ dead \in BOOLEAN
    BY DEF Init
  <2> QED BY <2>1 DEF Init
<1>2. ASSUME TypeOK, [Next]_vars PROVE TypeOK'
  <2> USE <1>2
  <2>1. CASE UNCHANGED vars
    BY <2>1 DEF vars
  <2>2. CASE ChannelEnds \/ AllQuiet
    BY <2>2 DEF ChannelEnds, AllQuiet, vars, go, js
  <2>3. ASSUME NEW c \in Chat, Handler(c) PROVE TypeOK'
    <3> USE DEF Goto, link, js
    <3>1. CASE Start(c)
      <4>1. providerErr' \in BOOLEAN
        BY <3>1 DEF Start
      <4>2. streamers' \subseteq (Nat \ {0}) \X Chat /\ callIDs' \in Nat /\ id' \in [Chat -> Nat]
        <5>1. CASE providerErr BY <3>1, <5>1 DEF Start
        <5>2. CASE ~ providerErr
          <6>1. streamers' = Without(callIDs + 1) \cup {<<callIDs + 1, c>>}
            BY <3>1, <5>2 DEF Start
          <6>2. <<callIDs + 1, c>> \in (Nat \ {0}) \X Chat
            OBVIOUS
          <6> QED BY <3>1, <5>2, <6>1, <6>2 DEF Start, Without
        <5> QED BY <5>1, <5>2
      <4> QED BY <3>1, <4>1, <4>2 DEF Start
    <3>2. CASE Streams(c) BY <3>2 DEF Streams
    <3>3. CASE Update(c)
      <4> PICK s \in streamers : s[1] = id[c] /\
             \/ /\ CanSend(s[2]) /\ Put(s[2], Content(c, <<next[c]>>))
                /\ published' = [published EXCEPT ![s[2]] = TRUE]
                /\ next' = [next EXCEPT ![c] = @ + 1] /\ Goto(c, "turn")
             \/ SendFails(s[2]) /\ Goto(c, "error") /\ UNCHANGED <<buf, published, next>>
        BY <3>3 DEF Update
      <4>1. s[2] \in Chat /\ next[c] \in 1..Pieces
        BY <3>3 DEF Update
      <4>2. CASE Put(s[2], Content(c, <<next[c]>>)) /\ next' = [next EXCEPT ![c] = @ + 1]
                 /\ published' = [published EXCEPT ![s[2]] = TRUE] /\ Goto(c, "turn")
        <5>1. buf' \in [Chat -> Seq(Frame)]
          BY <4>1, <4>2, FrameTyped, PutTyped
        <5>2. next' \in [Chat -> 1..(Pieces + 1)]
          BY <4>1, <4>2
        <5>3. published' \in [Chat -> BOOLEAN]
          BY <4>1, <4>2
        <5> QED BY <3>3, <4>2, <5>1, <5>2, <5>3 DEF Update
      <4>3. CASE Goto(c, "error") /\ UNCHANGED <<buf, published, next>>
        BY <3>3, <4>3 DEF Update
      <4> QED BY <4>2, <4>3
    <3>4. CASE TurnReturns(c) BY <3>4 DEF TurnReturns
    <3>5. CASE TurnFails(c) BY <3>5 DEF TurnFails
    <3>6. CASE SendReply(c)
      <4>1. buf' \in [Chat -> Seq(Frame)]
        BY <3>6, FrameTyped, PutTyped DEF SendReply
      <4> QED BY <3>6, <4>1 DEF SendReply
    <3>7. CASE SendTerminal(c)
      <4>1. buf' \in [Chat -> Seq(Frame)]
        BY <3>7, FrameTyped, PutTyped DEF SendTerminal
      <4> QED BY <3>7, <4>1 DEF SendTerminal
    <3>8. CASE Return(c)
      <4>1. buf' \in [Chat -> Seq(Frame)]
        BY <3>8, FrameTyped, PutTyped DEF Return
      <4> QED BY <3>8, <4>1 DEF Return, Without
    <3> QED BY <2>3, <3>1, <3>2, <3>3, <3>4, <3>5, <3>6, <3>7, <3>8 DEF Handler
  <2>4. ASSUME NEW c \in Chat, Read(c) PROVE TypeOK'
    <3>1. Head(buf[c]) \in Frame /\ Tail(buf[c]) \in Seq(Frame)
      BY <2>4 DEF Read
    <3> QED BY <2>4, <3>1 DEF Read, go
  <2>5. ASSUME NEW c \in Chat, Ask(c) \/ Break(c) \/ Pause(c) \/ Resume(c) \/ Throw(c) PROVE TypeOK'
    BY <2>5 DEF Ask, Break, Pause, Resume, Throw, Goto, go, link, js
  <2> QED BY <2>1, <2>2, <2>3, <2>4, <2>5 DEF Next, Consumer
<1> QED BY <1>1, <1>2, PTL DEF Spec


-----------------------------------------------------------------------------
(* The delegate is exact and its ids are distinct, so the one stream an id reaches is the
   chat's own. *)
IdsDistinct ==
  /\ \A c \in Chat : Handling(c) /\ ~ providerErr => id[c] \in 1..callIDs
  /\ \A c, d \in Chat : Handling(c) /\ Handling(d) /\ ~ providerErr /\ id[c] = id[d] => c = d
  /\ \A c \in Chat : providerErr => h[c] \notin {"turn", "update"}

\* Only a chat's own frames are ever on its stream.
FramesOwn == \A c \in Chat : \A i \in 1..Len(buf[c]) : buf[c][i].of = c

\* A handler begins with its reader.
Asked == \A c \in Chat : reader[c] = "idle" => h[c] = "idle"

Separate == DelegateExact /\ IdsDistinct /\ FramesOwn /\ NoCrosstalk /\ Asked

\* A step that neither begins nor ends the handling of a chat keeps the delegate's part.
LEMMA SameHandlers ==
  ASSUME DelegateExact, IdsDistinct, UNCHANGED <<providerErr, callIDs, id, streamers>>,
         \A d \in Chat : Handling(d)' <=> Handling(d),
         \A d \in Chat : h'[d] \in {"turn", "update"} => h[d] \in {"turn", "update"}
  PROVE  DelegateExact' /\ IdsDistinct'
<1>1. {d \in Chat : Handling(d) /\ ~ providerErr}' = {d \in Chat : Handling(d) /\ ~ providerErr}
  OBVIOUS
<1>2. DelegateExact'
  BY <1>1 DEF DelegateExact
<1>3. IdsDistinct'
  BY DEF IdsDistinct
<1> QED BY <1>2, <1>3

\* A frame of a chat's own put on its stream keeps the frames' part.
LEMMA OwnFrame ==
  ASSUME TypeOK, FramesOwn, NEW c \in Chat, NEW f \in Frame, f.of = c, Put(c, f)
  PROVE  FramesOwn'
<1>1. ASSUME NEW d \in Chat, NEW i \in 1..Len(buf'[d]) PROVE buf'[d][i].of = d
  <2>1. CASE d = c /\ i = Len(buf[c]) + 1
    BY <2>1 DEF TypeOK, Put
  <2>2. CASE d = c /\ i # Len(buf[c]) + 1
    <3>1. buf[c] \in Seq(Frame) /\ buf'[c] = Append(buf[c], f)
      BY DEF TypeOK, Put
    <3>2. i \in 1..Len(buf[c]) /\ buf'[d][i] = buf[c][i]
      BY <1>1, <2>2, <3>1
    <3> QED BY <2>2, <3>2 DEF FramesOwn
  <2>3. CASE d # c
    BY <1>1, <2>3 DEF TypeOK, Put, FramesOwn
  <2> QED BY <2>1, <2>2, <2>3
<1> QED BY <1>1 DEF FramesOwn

\* Through a streamer found under its id, a turn reaches its own chat's stream.
LEMMA IdReachesOwn ==
  ASSUME DelegateExact, IdsDistinct, NEW c \in Chat, Handling(c),
         NEW s \in streamers, s[1] = id[c]
  PROVE  s[2] = c
BY DEF DelegateExact, IdsDistinct

(* A chat that nobody asked for stays unhandled. *)
LEMMA AskedInductive ==
  ASSUME TypeOK, Asked, [Next]_vars
  PROVE  Asked'
<1> USE DEF TypeOK, Asked, Goto, go, link, js
<1>1. CASE UNCHANGED vars \/ ChannelEnds \/ AllQuiet
  BY <1>1 DEF ChannelEnds, AllQuiet, vars
<1>2. ASSUME NEW c \in Chat, Handler(c) PROVE Asked'
  BY <1>2 DEF Handler, Start, Streams, Update, TurnReturns, TurnFails, SendReply,
              SendTerminal, Return
<1>3. ASSUME NEW c \in Chat,
             Consumer(c) \/ Ask(c) \/ Break(c) \/ Pause(c) \/ Resume(c)
      PROVE  Asked'
  BY <1>3 DEF Consumer, Read, Throw, Ask, Break, Pause, Resume
<1> QED BY <1>1, <1>2, <1>3 DEF Next

(* The chats' calls and results stay apart. *)
LEMMA SeparateInductive ==
  ASSUME TypeOK, Separate, [Next]_vars
  PROVE  Separate'
<1> USE DEF TypeOK
<1>0. Asked'
  BY AskedInductive DEF Separate
<1> USE <1>0
<1>1. CASE UNCHANGED vars \/ ChannelEnds \/ AllQuiet
  BY <1>1 DEF Separate, DelegateExact, IdsDistinct, FramesOwn, NoCrosstalk, Handling,
              ChannelEnds, AllQuiet, vars, go, js
<1>2. ASSUME NEW c \in Chat, Start(c) PROVE Separate'
  <2> USE <1>2 DEF Start, Goto, js
  <2>1. FramesOwn' /\ NoCrosstalk'
    BY DEF Separate, FramesOwn, NoCrosstalk
  <2>2. CASE providerErr
    <3>1. streamers = {}
      BY <2>2 DEF Separate, DelegateExact
    <3>2. DelegateExact' /\ IdsDistinct'
      BY <2>2, <3>1 DEF Separate, DelegateExact, IdsDistinct, Handling
    <3> QED BY <2>1, <3>2 DEF Separate
  <2>3. CASE ~ providerErr
    <3>1. \A s \in streamers : s[1] # callIDs + 1
      BY <2>3 DEF Separate, DelegateExact, IdsDistinct
    <3>2. streamers' = streamers \cup {<<callIDs + 1, c>>}
      BY <2>3, <3>1 DEF Without
    <3>3. \A d \in Chat : Handling(d)' <=> Handling(d) \/ d = c
      BY <2>3 DEF Handling
    <3>4. ~ Handling(c)
      BY DEF Handling
    <3>5. DelegateExact'
      <4>1. \A d \in Chat : d # c => id'[d] = id[d]
        BY <2>3
      <4>2. id'[c] = callIDs + 1 /\ ~ providerErr'
        BY <2>3
      <4>3. streamers = {<<id[d], d>> : d \in {d \in Chat : Handling(d)}}
        BY <2>3 DEF Separate, DelegateExact
      <4>4. streamers' = {<<id'[d], d>> : d \in {d \in Chat : Handling(d)'}}
        BY <3>2, <3>3, <3>4, <4>1, <4>2, <4>3
      <4> QED BY <4>2, <4>4 DEF DelegateExact
    <3>6. IdsDistinct'
      <4>1. \A d \in Chat : Handling(d) => id'[d] = id[d] /\ id[d] \in 1..callIDs
        BY <2>3, <3>4 DEF Separate, IdsDistinct
      <4>2. id'[c] = callIDs + 1 /\ callIDs' = callIDs + 1 /\ callIDs \in Nat /\ ~ providerErr'
        BY <2>3
      <4>3. ASSUME NEW d \in Chat, Handling(d)' PROVE id'[d] \in 1..callIDs'
        <5>1. CASE d = c
          BY <4>2, <5>1
        <5>2. CASE d # c
          <6>1. Handling(d)
            BY <3>3, <4>3, <5>2
          <6> QED BY <4>1, <4>2, <6>1
        <5> QED BY <5>1, <5>2
      <4>4. \A d, e \in Chat : Handling(d)' /\ Handling(e)' /\ id'[d] = id'[e] => d = e
        <5> SUFFICES ASSUME NEW d \in Chat, NEW e \in Chat, Handling(d)', Handling(e)',
                            id'[d] = id'[e]
                     PROVE  d = e
          OBVIOUS
        <5>1. CASE d = c \/ e = c
          BY <3>3, <4>1, <4>2, <5>1
        <5>2. CASE d # c /\ e # c
          BY <2>3, <3>3, <4>1, <5>2 DEF Separate, IdsDistinct
        <5> QED BY <5>1, <5>2
      <4> QED BY <4>2, <4>3, <4>4 DEF IdsDistinct
    <3> QED BY <2>1, <3>5, <3>6 DEF Separate
  <2> QED BY <2>2, <2>3
<1>3. ASSUME NEW c \in Chat, Streams(c) \/ TurnReturns(c) \/ TurnFails(c) PROVE Separate'
  <2> USE <1>3 DEF Streams, TurnReturns, TurnFails, Goto, js
  <2>1. DelegateExact' /\ IdsDistinct'
    BY SameHandlers DEF Separate, Handling
  <2> QED BY <2>1 DEF Separate, FramesOwn, NoCrosstalk
<1>4. ASSUME NEW c \in Chat, Update(c) PROVE Separate'
  <2> USE <1>4 DEF js
  <2>1. DelegateExact' /\ IdsDistinct'
    BY SameHandlers DEF Separate, Handling, Update, Goto
  <2>2. NoCrosstalk'
    BY DEF Separate, NoCrosstalk, Update
  <2>3. PICK s \in streamers : s[1] = id[c] /\ (Put(s[2], Content(c, <<next[c]>>)) \/ UNCHANGED buf)
    BY DEF Update
  <2>4. s[2] = c
    BY <2>3, IdReachesOwn DEF Separate, Handling, Update
  <2>5. Content(c, <<next[c]>>) \in Frame /\ Content(c, <<next[c]>>).of = c
    BY FrameTyped DEF Update, Content
  <2>6. FramesOwn'
    <3>1. CASE Put(c, Content(c, <<next[c]>>))
      BY <2>5, <3>1, OwnFrame DEF Separate
    <3>2. CASE UNCHANGED buf
      BY <3>2 DEF Separate, FramesOwn
    <3> QED BY <2>3, <2>4, <3>1, <3>2
  <2> QED BY <2>1, <2>2, <2>6 DEF Separate
<1>5. ASSUME NEW c \in Chat, SendReply(c) \/ SendTerminal(c) PROVE Separate'
  <2> USE <1>5 DEF js
  <2>1. DelegateExact' /\ IdsDistinct'
    BY SameHandlers DEF Separate, Handling, SendReply, SendTerminal, Goto
  <2>2. NoCrosstalk'
    BY DEF Separate, NoCrosstalk, SendReply, SendTerminal
  <2>3. Content(c, Text).of = c /\ Terminal(c, h[c]).of = c
    BY DEF Content, Terminal
  <2>4. FramesOwn'
    <3>1. CASE Put(c, Content(c, Text))
      BY <2>3, <3>1, FrameTyped, OwnFrame DEF Separate
    <3>2. CASE Put(c, Terminal(c, h[c])) /\ h[c] \in {"done", "error"}
      BY <2>3, <3>2, FrameTyped, OwnFrame DEF Separate
    <3>3. CASE UNCHANGED buf
      BY <3>3 DEF Separate, FramesOwn
    <3> QED BY <3>1, <3>2, <3>3 DEF SendReply, SendTerminal
  <2> QED BY <2>1, <2>2, <2>4 DEF Separate
<1>6. ASSUME NEW c \in Chat, Return(c) PROVE Separate'
  <2> USE <1>6 DEF Return, Goto, js
  <2>1. NoCrosstalk'
    BY DEF Separate, NoCrosstalk
  <2>2. IdsDistinct'
    BY DEF Separate, IdsDistinct, Handling
  <2>3. Handling(c) /\ \A d \in Chat : Handling(d)' <=> Handling(d) /\ d # c
    BY DEF Handling
  <2>4. DelegateExact'
    <3>1. CASE providerErr
      BY <3>1 DEF Separate, DelegateExact, Without
    <3>2. CASE ~ providerErr
      <4>1. streamers = {<<id[d], d>> : d \in {d \in Chat : Handling(d)}}
        BY <3>2 DEF Separate, DelegateExact
      <4>2. \A d \in Chat : Handling(d) /\ id[d] = id[c] => d = c
        BY <2>3, <3>2 DEF Separate, IdsDistinct
      <4>3. streamers' = {<<id[d], d>> : d \in {d \in Chat : Handling(d)'}}
        BY <2>3, <4>1, <4>2 DEF Without
      <4> QED BY <3>2, <4>3 DEF DelegateExact
    <3> QED BY <3>1, <3>2
  <2>5. FramesOwn'
    <3>1. CASE UNCHANGED buf
      BY <3>1 DEF Separate, FramesOwn
    <3>2. CASE Put(c, [type |-> h[c], of |-> c, text |-> <<>>])
      BY <3>2, FrameTyped, OwnFrame DEF Separate
    <3> QED BY <3>1, <3>2
  <2> QED BY <2>1, <2>2, <2>4, <2>5 DEF Separate
<1>7. ASSUME NEW c \in Chat, Read(c) PROVE Separate'
  <2> USE <1>7 DEF Read, go
  <2>1. DelegateExact' /\ IdsDistinct'
    BY SameHandlers DEF Separate, Handling
  <2>2. buf[c] \in Seq(Frame) /\ buf[c] # <<>> /\ buf'[c] = Tail(buf[c])
    OBVIOUS
  <2>3. Head(buf[c]) \in Frame /\ Head(buf[c]).of = c
    BY <2>2 DEF Separate, FramesOwn
  <2>4. FramesOwn'
    <3>1. ASSUME NEW d \in Chat, NEW i \in 1..Len(buf'[d]) PROVE buf'[d][i].of = d
      <4>1. CASE d = c
        <5>1. i + 1 \in 1..Len(buf[c]) /\ buf'[c][i] = buf[c][i + 1]
          BY <2>2, <3>1, <4>1
        <5> QED BY <4>1, <5>1 DEF Separate, FramesOwn
      <4>2. CASE d # c
        BY <3>1, <4>2 DEF Separate, FramesOwn
      <4> QED BY <4>1, <4>2
    <3> QED BY <3>1 DEF FramesOwn
  <2>5. NoCrosstalk'
    <3>1. ASSUME NEW d \in Chat, NEW i \in 1..Len(got'[d]) PROVE got'[d][i].of = d
      <4>1. CASE got'[d] = got[d]
        BY <3>1, <4>1 DEF Separate, NoCrosstalk
      <4>2. CASE got'[d] # got[d]
        <5>1. d = c /\ got[c] \in Seq(Frame) /\ got'[c] = Append(got[c], Head(buf[c]))
          BY <4>2
        <5>2. CASE i = Len(got[c]) + 1
          BY <2>3, <5>1, <5>2
        <5>3. CASE i # Len(got[c]) + 1
          <6>1. i \in 1..Len(got[c]) /\ got'[c][i] = got[c][i]
            BY <3>1, <5>1, <5>3
          <6> QED BY <5>1, <6>1 DEF Separate, NoCrosstalk
        <5> QED BY <5>2, <5>3
      <4> QED BY <4>1, <4>2
    <3> QED BY <3>1 DEF NoCrosstalk
  <2> QED BY <2>1, <2>4, <2>5, AskedInductive DEF Separate
<1>8. ASSUME NEW c \in Chat, Ask(c) PROVE Separate'
  <2> USE <1>8 DEF Ask, Goto, link
  <2>1. h[c] = "idle"
    BY DEF Separate, Asked
  <2>2. DelegateExact' /\ IdsDistinct'
    BY <2>1, SameHandlers DEF Separate, Handling
  <2> QED BY <2>2, AskedInductive DEF Separate, FramesOwn, NoCrosstalk
<1>9. ASSUME NEW c \in Chat, Break(c) \/ Pause(c) \/ Resume(c) \/ Throw(c) PROVE Separate'
  BY <1>9 DEF Separate, DelegateExact, IdsDistinct, FramesOwn, NoCrosstalk, Handling,
              Break, Pause, Resume, Throw, go, link, js
<1> QED BY <1>1, <1>2, <1>3, <1>4, <1>5, <1>6, <1>7, <1>8, <1>9 DEF Next, Consumer, Handler

\* The delegate holds exactly the streamers of the chats being handled.
THEOREM NoStreamerLeaks == Spec => []DelegateExact
<1>1. Init => Separate
  BY DEF Init, Separate, DelegateExact, IdsDistinct, FramesOwn, NoCrosstalk, Handling, Asked
<1>2. Separate => DelegateExact
  BY DEF Separate
<1> QED BY <1>1, <1>2, SeparateInductive, StreamTyped, PTL DEF Spec

\* A consumer is given only chunks of its own chat.
THEOREM ChatsStaySeparate == Spec => []NoCrosstalk
<1>1. Init => Separate
  BY DEF Init, Separate, DelegateExact, IdsDistinct, FramesOwn, NoCrosstalk, Handling, Asked
<1>2. Separate => NoCrosstalk
  BY DEF Separate
<1> QED BY <1>1, <1>2, SeparateInductive, StreamTyped, PTL DEF Spec

-----------------------------------------------------------------------------
(* A consumer that is still reading was given content only, and what is on its way to it has
   no end of the stream before the terminal chunk; a handler that is about to close has put
   that chunk there. *)
Unread(c) == reader[c] \in {"idle", "reading"}
OnlyContent(c) == \A i \in 1..Len(got[c]) : got[c][i].type = "content"
EndLast(c) == \A i \in 1..Len(buf[c]) :
                buf[c][i].type = "close" => \E j \in 1..(i - 1) : IsTerminal(buf[c][j])
HasTerminal(c) == \E j \in 1..Len(buf[c]) : IsTerminal(buf[c][j])

Ordered ==
  /\ \A c \in Chat : Unread(c) => /\ OnlyContent(c) /\ EndLast(c)
                                  /\ h[c] = "close" => HasTerminal(c)
  /\ EndsWithTerminal

\* A frame put on a stream keeps the order if it is no end, or comes after a terminal chunk.
LEMMA PutOrdered ==
  ASSUME TypeOK, Ordered, NEW c \in Chat, NEW f \in Frame, Put(c, f),
         f.type = "close" /\ Unread(c) => HasTerminal(c),
         UNCHANGED <<reader, got>>,
         \A d \in Chat : h'[d] = "close" => h[d] = "close" \/ (d = c /\ IsTerminal(f))
  PROVE  Ordered'
<1>1. /\ buf[c] \in Seq(Frame) /\ buf'[c] = Append(buf[c], f)
      /\ \A d \in Chat : d # c => buf'[d] = buf[d]
  BY DEF TypeOK, Put
<1>2. Len(buf'[c]) = Len(buf[c]) + 1 /\ buf'[c][Len(buf[c]) + 1] = f /\ Len(buf[c]) \in Nat
  BY <1>1
<1>3. \A i \in 1..Len(buf[c]) : buf'[c][i] = buf[c][i]
  BY <1>1
<1>4. EndsWithTerminal'
  BY DEF Ordered, EndsWithTerminal
<1>5. ASSUME NEW d \in Chat, Unread(d)' PROVE OnlyContent(d)'
  BY <1>5 DEF Ordered, OnlyContent, Unread
<1>6. ASSUME NEW d \in Chat, Unread(d)' PROVE EndLast(d)'
  <2>1. CASE d # c
    BY <1>1, <1>6, <2>1 DEF Ordered, EndLast, Unread
  <2>2. CASE d = c
    <3> SUFFICES ASSUME NEW i \in 1..Len(buf'[c]), buf'[c][i].type = "close"
                 PROVE  \E j \in 1..(i - 1) : IsTerminal(buf'[c][j])
      BY <2>2 DEF EndLast, IsTerminal
    <3>1. CASE i = Len(buf[c]) + 1
      <4>1. HasTerminal(c)
        BY <1>2, <1>6, <2>2, <3>1 DEF Unread
      <4> QED BY <1>2, <1>3, <3>1, <4>1 DEF HasTerminal
    <3>2. CASE i \in 1..Len(buf[c])
      <4>1. PICK j \in 1..(i - 1) : IsTerminal(buf[c][j])
        BY <1>3, <1>6, <2>2, <3>2 DEF Ordered, EndLast, Unread
      <4>2. j \in 1..Len(buf[c])
        BY <1>2, <3>2
      <4> QED BY <1>3, <4>1, <4>2
    <3> QED BY <1>2, <3>1, <3>2
  <2> QED BY <2>1, <2>2
<1>7. ASSUME NEW d \in Chat, Unread(d)', h'[d] = "close" PROVE HasTerminal(d)'
  <2>1. CASE d # c
    BY <1>1, <1>7, <2>1 DEF Ordered, HasTerminal, Unread
  <2>2. CASE d = c /\ IsTerminal(f)
    BY <1>2, <2>2 DEF HasTerminal, IsTerminal
  <2>3. CASE d = c /\ h[c] = "close"
    <3>1. PICK j \in 1..Len(buf[c]) : IsTerminal(buf[c][j])
      BY <1>7, <2>3 DEF Ordered, HasTerminal, Unread
    <3>2. j \in 1..Len(buf'[c]) /\ IsTerminal(buf'[c][j])
      BY <1>2, <1>3, <3>1
    <3> QED BY <2>3, <3>2 DEF HasTerminal, IsTerminal
  <2> QED BY <1>7, <2>1, <2>2, <2>3
<1> QED BY <1>4, <1>5, <1>6, <1>7 DEF Ordered

\* The loop leaves with "ended" only by the terminal chunk, which is the first that is not
\* content.
LEMMA ReadOrdered ==
  ASSUME TypeOK, Ordered, NEW c \in Chat, Read(c)
  PROVE  Ordered'
<1> DEFINE f == Head(buf[c])
           n == Len(got[c])
<1>1. /\ buf[c] \in Seq(Frame) /\ buf[c] # <<>> /\ f \in Frame /\ f = buf[c][1]
      /\ got[c] \in Seq(Frame) /\ reader[c] = "reading" /\ n \in Nat /\ Len(buf[c]) \in Nat \ {0}
      /\ UNCHANGED h
  BY DEF TypeOK, Read, go
<1>2. OnlyContent(c) /\ EndLast(c) /\ (h[c] = "close" => HasTerminal(c))
  BY <1>1 DEF Ordered, Unread
<1>3. \A d \in Chat : d # c => buf'[d] = buf[d] /\ got'[d] = got[d] /\ reader'[d] = reader[d]
  BY DEF TypeOK, Read
<1>4. f.type \in {"content", "done", "error", "destroy"}
  <2>1. f.type # "close"
    BY <1>1, <1>2 DEF EndLast
  <2> QED BY <1>1, <2>1 DEF Frame
<1>5. ASSUME NEW d \in Chat, d # c, Unread(d)'
      PROVE  OnlyContent(d)' /\ EndLast(d)' /\ (h'[d] = "close" => HasTerminal(d)')
  <2>1. buf'[d] = buf[d] /\ got'[d] = got[d] /\ Unread(d) /\ h'[d] = h[d]
    BY <1>1, <1>3, <1>5 DEF Unread
  <2>2. OnlyContent(d) /\ EndLast(d) /\ (h[d] = "close" => HasTerminal(d))
    BY <2>1 DEF Ordered
  <2>3. OnlyContent(d)'
    BY <2>1, <2>2 DEF OnlyContent
  <2>4. EndLast(d)'
    BY <2>1, <2>2 DEF EndLast, IsTerminal
  <2>5. h'[d] = "close" => HasTerminal(d)'
    BY <2>1, <2>2 DEF HasTerminal, IsTerminal
  <2> QED BY <2>3, <2>4, <2>5
<1>6. CASE f.type = "content"
  <2>1. buf'[c] = Tail(buf[c]) /\ got'[c] = Append(got[c], f) /\ reader'[c] = "reading"
    BY <1>6 DEF TypeOK, Read
  <2>2. /\ Len(buf'[c]) = Len(buf[c]) - 1
        /\ \A i \in 1..Len(buf'[c]) : buf'[c][i] = buf[c][i + 1]
    BY <1>1, <2>1
  <2>3. OnlyContent(c)'
    BY <1>1, <1>2, <1>6, <2>1 DEF OnlyContent
  <2>4. EndLast(c)'
    <3> SUFFICES ASSUME NEW i \in 1..Len(buf'[c]), buf'[c][i].type = "close"
                 PROVE  \E j \in 1..(i - 1) : IsTerminal(buf'[c][j])
      BY DEF EndLast, IsTerminal
    <3>1. i + 1 \in 1..Len(buf[c]) /\ buf[c][i + 1].type = "close"
      BY <1>1, <2>2
    <3>2. PICK j \in 1..i : IsTerminal(buf[c][j])
      BY <1>2, <3>1 DEF EndLast
    <3>3. j # 1
      BY <1>1, <1>6, <3>2 DEF IsTerminal
    <3>4. j - 1 \in 1..(i - 1) /\ j - 1 \in 1..Len(buf'[c])
      <4> HIDE DEF f, n
      <4>1. Len(buf'[c]) \in Nat /\ i \in 1..Len(buf'[c]) /\ j \in 1..i
        BY <1>1, <2>2
      <4> QED BY <3>3, <4>1
    <3>5. buf'[c][j - 1] = buf[c][j]
      BY <2>2, <3>4
    <3> QED BY <3>2, <3>4, <3>5
  <2>5. h'[c] = "close" => HasTerminal(c)'
    <3> SUFFICES ASSUME h[c] = "close" PROVE HasTerminal(c)'
      BY <1>1
    <3>1. PICK j \in 1..Len(buf[c]) : IsTerminal(buf[c][j])
      BY <1>2 DEF HasTerminal
    <3>2. j # 1
      BY <1>1, <1>6, <3>1 DEF IsTerminal
    <3>3. j - 1 \in 1..Len(buf'[c]) /\ buf'[c][j - 1] = buf[c][j]
      BY <1>1, <2>2, <3>2
    <3> QED BY <3>1, <3>3 DEF HasTerminal, IsTerminal
  <2>6. \A d \in Chat : d # c /\ Unread(d)' =>
          OnlyContent(d)' /\ EndLast(d)' /\ (h'[d] = "close" => HasTerminal(d)')
    BY <1>5
  <2>7. EndsWithTerminal'
    BY <1>3, <2>1 DEF Ordered, EndsWithTerminal
  <2> QED BY <2>3, <2>4, <2>5, <2>6, <2>7 DEF Ordered
<1>7. CASE f.type # "content"
  <2>1. \A d \in Chat : Unread(d)' =>
          OnlyContent(d)' /\ EndLast(d)' /\ (h'[d] = "close" => HasTerminal(d)')
    <3>1. reader'[c] \in {"ended", "thrown"}
      BY <1>7 DEF TypeOK, Read
    <3>2. ~ Unread(c)'
      BY <3>1 DEF Unread
    <3> QED BY <1>5, <3>2
  <2>2. ASSUME reader'[c] = "ended"
        PROVE  \E m \in {Len(got'[c])} :
                 m > 0 /\ \A i \in 1..m : IsTerminal(got'[c][i]) <=> i = m
    <3>1. f.type \in {"done", "error"} /\ got'[c] = Append(got[c], f)
      BY <1>4, <1>7, <2>2 DEF TypeOK, Read
    <3>2. Len(got'[c]) = n + 1 /\ got'[c][n + 1] = f /\ \A i \in 1..n : got'[c][i] = got[c][i]
      BY <1>1, <3>1
    <3>3. \A i \in 1..n : ~ IsTerminal(got'[c][i])
      BY <1>2, <3>2 DEF OnlyContent, IsTerminal
    <3>4. \A i \in 1..(n + 1) : IsTerminal(got'[c][i]) <=> i = n + 1
      BY <1>1, <3>1, <3>2, <3>3 DEF IsTerminal
    <3> QED BY <1>1, <3>2, <3>4
  <2>3. EndsWithTerminal'
    BY <1>3, <2>2 DEF Ordered, EndsWithTerminal, IsTerminal
  <2> QED BY <2>1, <2>3 DEF Ordered
<1> QED BY <1>6, <1>7

(* The frames of a chat stay in the order its turn publishes them. *)
LEMMA OrderedInductive ==
  ASSUME TypeOK, Ordered, [Next]_vars
  PROVE  Ordered'
<1> USE DEF go, link, js, vars
\* A step that puts nothing on a stream, takes nothing off, and does not go on to close.
<1>1. ASSUME UNCHANGED <<buf, got>>,
             \A c \in Chat : /\ Unread(c)' => Unread(c)
                             /\ reader'[c] = "ended" => reader[c] = "ended"
                             /\ h'[c] = "close" => h[c] = "close"
      PROVE  Ordered'
  BY <1>1 DEF Ordered, OnlyContent, EndLast, HasTerminal, EndsWithTerminal, IsTerminal
<1>2. CASE UNCHANGED vars \/ ChannelEnds \/ AllQuiet
  BY <1>1, <1>2 DEF ChannelEnds, AllQuiet, Unread
<1>3. ASSUME NEW c \in Chat, Start(c) \/ Streams(c) \/ TurnReturns(c) \/ TurnFails(c)
      PROVE  Ordered'
  BY <1>1, <1>3 DEF Start, Streams, TurnReturns, TurnFails, Goto, TypeOK, Unread
<1>4. ASSUME NEW c \in Chat, Update(c) PROVE Ordered'
  <2>1. PICK s \in streamers :
          \/ Put(s[2], Content(c, <<next[c]>>)) /\ Goto(c, "turn")
          \/ UNCHANGED buf /\ Goto(c, "error")
    BY <1>4 DEF Update
  <2>2. s[2] \in Chat /\ next[c] \in 1..Pieces
    BY <1>4 DEF TypeOK, Update
  <2>3. Content(c, <<next[c]>>) \in Frame /\ Content(c, <<next[c]>>).type = "content"
    BY <2>2, FrameTyped DEF Content
  <2>4. UNCHANGED <<reader, got>> /\ \A d \in Chat : h'[d] = "close" => h[d] = "close"
    BY <1>4, <2>1 DEF Update, Goto, TypeOK
  <2>5. CASE Put(s[2], Content(c, <<next[c]>>))
    BY <2>2, <2>3, <2>4, <2>5, PutOrdered
  <2>6. CASE UNCHANGED buf
    BY <1>1, <2>4, <2>6 DEF Unread
  <2> QED BY <2>1, <2>5, <2>6
<1>5. ASSUME NEW c \in Chat, SendReply(c) PROVE Ordered'
  <2>1. UNCHANGED <<reader, got>> /\ \A d \in Chat : h'[d] = "close" => h[d] = "close"
    BY <1>5 DEF SendReply, Goto, TypeOK
  <2>2. CASE Put(c, Content(c, Text))
    <3>1. Content(c, Text) \in Frame /\ Content(c, Text).type = "content"
      BY FrameTyped DEF Content
    <3> QED BY <2>1, <2>2, <3>1, PutOrdered
  <2>3. CASE UNCHANGED buf
    BY <1>1, <2>1, <2>3 DEF Unread
  <2> QED BY <1>5, <2>2, <2>3 DEF SendReply
<1>6. ASSUME NEW c \in Chat, SendTerminal(c) PROVE Ordered'
  <2> DEFINE f == Terminal(c, h[c])
  <2>1. UNCHANGED <<reader, got>>
    BY <1>6 DEF SendTerminal
  <2>2. f \in Frame /\ f.type \in {"done", "error"}
    BY <1>6, FrameTyped DEF SendTerminal, Terminal
  <2>3. CASE Put(c, f) /\ Goto(c, "close")
    <3>1. \A d \in Chat : h'[d] = "close" => h[d] = "close" \/ (d = c /\ IsTerminal(f))
      BY <2>2, <2>3 DEF Goto, TypeOK, IsTerminal
    <3> QED BY <2>1, <2>2, <2>3, <3>1, PutOrdered
  <2>4. CASE UNCHANGED buf /\ Goto(c, "destroy")
    BY <1>1, <2>1, <2>4 DEF Goto, TypeOK, Unread
  <2> QED BY <1>6, <2>3, <2>4 DEF SendTerminal
<1>7. ASSUME NEW c \in Chat, Return(c) PROVE Ordered'
  <2> DEFINE f == [type |-> h[c], of |-> c, text |-> <<>>]
  <2>1. UNCHANGED <<reader, got>> /\ \A d \in Chat : h'[d] = "close" => h[d] = "close"
    BY <1>7 DEF Return, Goto, TypeOK
  <2>2. CASE Put(c, f)
    <3>1. f \in Frame /\ (f.type = "close" => h[c] = "close")
      BY <1>7, FrameTyped DEF Return
    <3>2. f.type = "close" /\ Unread(c) => HasTerminal(c)
      BY <3>1 DEF Ordered
    <3> QED BY <2>1, <2>2, <3>1, <3>2, PutOrdered
  <2>3. CASE UNCHANGED buf
    BY <1>1, <2>1, <2>3 DEF Unread
  <2> QED BY <1>7, <2>2, <2>3 DEF Return
<1>8. ASSUME NEW c \in Chat, Read(c) PROVE Ordered'
  BY <1>8, ReadOrdered
<1>9. ASSUME NEW c \in Chat, Ask(c) \/ Break(c) \/ Pause(c) \/ Resume(c) \/ Throw(c)
      PROVE  Ordered'
  BY <1>1, <1>9 DEF Ask, Break, Pause, Resume, Throw, Goto, TypeOK, Unread
<1> QED BY <1>2, <1>3, <1>4, <1>5, <1>6, <1>7, <1>8, <1>9 DEF Next, Consumer, Handler

\* A generator that ends without an error has given one terminal chunk, as its last.
THEOREM TerminalChunkLast == Spec => []EndsWithTerminal
<1>1. Init => Ordered
  BY DEF Init, Ordered, Unread, OnlyContent, EndLast, HasTerminal, EndsWithTerminal
<1>2. Ordered => EndsWithTerminal
  BY DEF Ordered
<1> QED BY <1>1, <1>2, OrderedInductive, StreamTyped, PTL DEF Spec

-----------------------------------------------------------------------------
(* The text of what was given. *)
\* A set of natural numbers has a least member: what an induction over a sequence rests on.
LEMMA LeastNat ==
  ASSUME NEW T, T \subseteq Nat, T # {}
  PROVE  \E n \in T : \A m \in T : n <= m
<1> DEFINE R == OpToRel(<, Nat)
<1>1. \E x \in T : \A y \in T : ~ (<<y, x>> \in R)
  BY NatLessThanWellFounded, WFMin
<1>2. \A x, y \in Nat : <<y, x>> \in R <=> y < x
  BY DEF OpToRel
<1>3. PICK x \in T : \A y \in T : ~ (<<y, x>> \in R)
  BY <1>1
<1>4. \A y \in T : ~ (y < x)
  BY <1>2, <1>3
<1> QED
  BY <1>4

\* The fold of TextOf over frames that carry one piece each, in order, and no text after.
LEMMA TextOfPieces ==
  ASSUME NEW fs \in Seq(Frame), NEW k \in Nat, Len(fs) \in {k, k + 1},
         \A i \in 1..k : fs[i].text = <<i>>, Len(fs) = k + 1 => fs[k + 1].text = <<>>
  PROVE  TextOf(fs) = [i \in 1..k |-> i]
<1> DEFINE Upto(n) == [i \in 1..(IF n <= k THEN n ELSE k) |-> i]
           Step(T) == [n \in 0..Len(fs) |-> IF n = 0 THEN <<>> ELSE T[n - 1] \o fs[n].text]
           U == [n \in 0..Len(fs) |-> Upto(n)]
           T == CHOOSE T : T = Step(T)
<1>1. ASSUME NEW n \in 1..Len(fs)
      PROVE  Upto(n - 1) \o fs[n].text = Upto(n)
  <2>1. CASE n <= k
    <3>1. /\ fs[n].text = <<n>>
          /\ Upto(n - 1) = [i \in 1..(n - 1) |-> i] /\ Upto(n) = [i \in 1..n |-> i]
      BY <2>1
    <3>2. [i \in 1..(n - 1) |-> i] \o <<n>> = [i \in 1..n |-> i]
      OBVIOUS
    <3> QED
      BY <3>1, <3>2
  <2>2. CASE n = k + 1
    <3>1. Upto(n - 1) = [i \in 1..k |-> i] /\ Upto(n) = [i \in 1..k |-> i] /\ fs[n].text = <<>>
      BY <2>2
    <3>2. [i \in 1..k |-> i] \o <<>> = [i \in 1..k |-> i]
      OBVIOUS
    <3> QED
      BY <3>1, <3>2
  <2> QED
    BY <2>1, <2>2
<1>2. Upto(0) = <<>>
  OBVIOUS
<1> HIDE DEF Upto
<1>3. U = Step(U)
  <2>1. ASSUME NEW n \in 0..Len(fs)
        PROVE  Upto(n) = IF n = 0 THEN <<>> ELSE U[n - 1] \o fs[n].text
    <3>1. CASE n = 0
      BY <1>2, <3>1
    <3>2. CASE n # 0
      <4>1. n \in 1..Len(fs) /\ n - 1 \in 0..Len(fs)
        BY <3>2
      <4>2. U[n - 1] = Upto(n - 1)
        BY <4>1
      <4> QED
        BY <1>1, <3>2, <4>1, <4>2
    <3> QED
      BY <3>1, <3>2
  <2> QED
    BY <2>1
<1>4. T = Step(T)
  <2> HIDE DEF Step, U
  <2> QED
    BY <1>3
<1> HIDE DEF T
<1>5. T[0] = <<>> /\ \A n \in 1..Len(fs) : T[n] = T[n - 1] \o fs[n].text
  <2>1. \A n \in 0..Len(fs) : Step(T)[n] = IF n = 0 THEN <<>> ELSE T[n - 1] \o fs[n].text
    OBVIOUS
  <2> HIDE DEF Step
  <2>2. \A n \in 0..Len(fs) : T[n] = IF n = 0 THEN <<>> ELSE T[n - 1] \o fs[n].text
    BY <1>4, <2>1
  <2>3. 0 \in 0..Len(fs) /\ \A n \in 1..Len(fs) : n \in 0..Len(fs) /\ n # 0
    OBVIOUS
  <2> QED
    BY <2>2, <2>3, Zenon
<1>6. \A n \in 0..Len(fs) : T[n] = Upto(n)
  <2> DEFINE Bad == {n \in 0..Len(fs) : T[n] # Upto(n)}
  <2> SUFFICES ASSUME Bad # {} PROVE FALSE
    OBVIOUS
  <2>1. PICK n \in Bad : \A m \in Bad : n <= m
    <3>1. Bad \subseteq Nat
      OBVIOUS
    <3> HIDE DEF Bad
    <3> QED
      BY <3>1, LeastNat
  <2>2. n \in 1..Len(fs)
    BY <1>2, <1>5, <2>1
  <2>3. T[n - 1] = Upto(n - 1)
    <3>1. n - 1 \notin Bad
      BY <2>1, <2>2
    <3> QED
      BY <2>2, <3>1
  <2>4. T[n] = Upto(n)
    BY <1>1, <1>5, <2>2, <2>3
  <2> QED
    BY <2>1, <2>4
<1>7. TextOf(fs) = T[Len(fs)]
  BY DEF TextOf, T
<1> QED
  BY <1>6, <1>7 DEF Upto

\* Of a reply that goes out whole, the fold makes that reply.
LEMMA TextOfWhole ==
  ASSUME NEW fs \in Seq(Frame), Len(fs) \in {1, 2}, fs[1].text = Text,
         Len(fs) = 2 => fs[2].text = <<>>
  PROVE  TextOf(fs) = Text
<1> DEFINE Step(T) == [n \in 0..Len(fs) |-> IF n = 0 THEN <<>> ELSE T[n - 1] \o fs[n].text]
           Val(n) == IF n = 0 THEN <<>> ELSE Text
           U == [n \in 0..Len(fs) |-> Val(n)]
           T == CHOOSE T : T = Step(T)
<1>0. Len(fs) = 1 \/ Len(fs) = 2
  OBVIOUS
<1>1. <<>> \o Text = Text /\ Text \o <<>> = Text
  BY StreamAssumption DEF Text
<1> HIDE DEF T
<1>2. U = Step(U)
  <2>1. \A n \in 0..Len(fs) : n = 0 \/ n = 1 \/ (n = 2 /\ Len(fs) = 2)
    <3>1. CASE Len(fs) = 1
      BY <3>1
    <3>2. CASE Len(fs) = 2
      BY <3>2
    <3> QED
      BY <1>0, <3>1, <3>2
  <2>2. 0 \in 0..Len(fs) /\ 1 \in 0..Len(fs) /\ (Len(fs) = 2 => 2 \in 0..Len(fs))
    <3>1. CASE Len(fs) = 1
      BY <3>1
    <3>2. CASE Len(fs) = 2
      BY <3>2
    <3> QED
      BY <1>0, <3>1, <3>2
  <2>3. U[0] = <<>> /\ U[1] = Text /\ (Len(fs) = 2 => U[2] = Text)
    BY <2>2
  <2> HIDE DEF U, Step
  <2>4. ASSUME NEW n \in 0..Len(fs)
        PROVE  Val(n) = IF n = 0 THEN <<>> ELSE U[n - 1] \o fs[n].text
    <3>1. CASE n = 0
      BY <3>1
    <3>2. CASE n = 1
      <4>1. Val(n) = Text /\ U[n - 1] = <<>> /\ fs[n].text = Text
        BY <2>3, <3>2
      <4> QED
        BY <1>1, <3>2, <4>1
    <3>3. CASE n = 2 /\ Len(fs) = 2
      <4>1. Val(n) = Text /\ U[n - 1] = Text /\ fs[n].text = <<>>
        BY <2>3, <3>3
      <4> QED
        BY <1>1, <3>3, <4>1
    <3> QED
      BY <2>1, <3>1, <3>2, <3>3
  <2> HIDE DEF Val
  <2> QED
    BY <2>4 DEF U, Step
<1>3. T = Step(T)
  <2> HIDE DEF Step, U
  <2> QED
    BY <1>2 DEF T
<1>4. /\ Step(T)[1] = T[0] \o fs[1].text /\ Step(T)[0] = <<>>
      /\ Len(fs) = 2 => Step(T)[2] = T[1] \o fs[2].text
  <2>1. \A n \in 0..Len(fs) : Step(T)[n] = IF n = 0 THEN <<>> ELSE T[n - 1] \o fs[n].text
    OBVIOUS
  <2> HIDE DEF Step
  <2>2. Step(T)[0] = <<>>
    BY <2>1
  <2>3. 1 \in 0..Len(fs) /\ 1 # 0 /\ 2 # 0 /\ (Len(fs) = 2 => 2 \in 0..Len(fs))
    OBVIOUS
  <2>4. /\ Step(T)[1] = T[1 - 1] \o fs[1].text
        /\ Len(fs) = 2 => Step(T)[2] = T[2 - 1] \o fs[2].text
    BY <2>1, <2>3, Zenon
  <2>5. 1 - 1 = 0 /\ 2 - 1 = 1
    OBVIOUS
  <2> QED
    BY <2>2, <2>4, <2>5, Zenon
<1> HIDE DEF Step
<1>5. T[1] = Text /\ (Len(fs) = 2 => T[2] = Text)
  BY <1>1, <1>3, <1>4
<1>6. TextOf(fs) = T[Len(fs)]
  BY DEF TextOf, T, Step
<1> QED
  BY <1>5, <1>6

-----------------------------------------------------------------------------
(* What the consumer was given and is still to be given is one sequence: Read moves its
   cursor, and only Put makes it longer. *)
Given(c) == got[c] \o buf[c]

\* The first m frames make a whole reply: its pieces in order, or all of it in one.
WholeReply(fs, m) ==
  /\ \A i \in 1..m : fs[i].type = "content"
  /\ \/ m = Pieces /\ \A i \in 1..m : fs[i].text = <<i>>
     \/ m = 1 /\ fs[1].text = Text

\* Up to its reply a turn has put there exactly the pieces before the next; "published"
\* says whether there are any; the frames before a done are a whole reply.
Sofar(c) ==
  /\ h[c] \in {"idle", "asked", "turn", "update", "reply"} =>
       /\ Len(Given(c)) = next[c] - 1
       /\ \A i \in 1..Len(Given(c)) : Given(c)[i].type = "content" /\ Given(c)[i].text = <<i>>
       /\ published[c] = TRUE <=> next[c] > 1
  /\ h[c] \in {"idle", "asked"} => next[c] = 1
  /\ h[c] = "reply" => next[c] \in {1, Pieces + 1}
  /\ h[c] = "done" => WholeReply(Given(c), Len(Given(c)))
  /\ h[c] = "destroy" => SendFails(c)
  /\ \A i \in 1..Len(Given(c)) :
       /\ Given(c)[i].type # "destroy"
       /\ Given(c)[i].type = "done" => WholeReply(Given(c), i - 1) /\ Given(c)[i].text = <<>>

Told == \A c \in Chat : Sofar(c)

(* What a chat has been given is a sequence of frames. *)
LEMMA GivenTyped == TypeOK => \A c \in Chat : Given(c) \in Seq(Frame)
BY ConcatProperties DEF TypeOK, Given

\* A frame put on a stream comes after all there is.
LEMMA PutGiven ==
  ASSUME TypeOK, NEW c \in Chat, NEW f \in Frame, Put(c, f), UNCHANGED got
  PROVE  \A d \in Chat : Given(d)' = IF d = c THEN Append(Given(d), f) ELSE Given(d)
<1>1. ASSUME NEW g \in Seq(Frame), NEW b \in Seq(Frame)
      PROVE  g \o Append(b, f) = Append(g \o b, f)
  OBVIOUS
<1> QED
  BY <1>1 DEF TypeOK, Put, Given

\* A frame the loop reads was on its way and is now given: no frame is lost or moved.
LEMMA ReadGiven ==
  ASSUME TypeOK, Ordered, Told, NEW c \in Chat, Read(c)
  PROVE  \A d \in Chat : Given(d)' = Given(d)
<1> DEFINE f == Head(buf[c])
<1>1. /\ got[c] \in Seq(Frame) /\ buf[c] \in Seq(Frame) /\ buf[c] # <<>>
      /\ f \in Frame /\ f = buf[c][1] /\ 1 \in 1..Len(buf[c])
  BY DEF TypeOK, Read
<1>2. f.type # "close"
  BY <1>1 DEF Read, Ordered, Unread, EndLast
<1>3. f.type # "destroy"
  <2>1. Len(got[c]) + 1 \in 1..Len(Given(c)) /\ Given(c)[Len(got[c]) + 1] = f
    <3>1. ASSUME NEW g \in Seq(Frame), NEW b \in Seq(Frame), b # <<>>
          PROVE  Len(g) + 1 \in 1..Len(g \o b) /\ (g \o b)[Len(g) + 1] = b[1]
      <4>1. Len(g) \in Nat /\ Len(b) \in Nat \ {0} /\ Len(g \o b) = Len(g) + Len(b)
        BY <3>1, ConcatProperties
      <4>2. Len(g) + 1 \in 1..(Len(g) + Len(b)) /\ Len(g) + 1 - Len(g) = 1
        BY <4>1
      <4> QED
        BY <4>1, <4>2, ConcatProperties
    <3> QED
      BY <1>1, <3>1 DEF Given
  <2> QED
    BY <2>1 DEF Told, Sofar
<1>4. got' = [got EXCEPT ![c] = Append(@, f)] /\ buf' = [buf EXCEPT ![c] = Tail(@)]
  BY <1>2, <1>3 DEF Read
<1>5. Append(got[c], f) \o Tail(buf[c]) = got[c] \o buf[c]
  <2>1. ASSUME NEW g \in Seq(Frame), NEW b \in Seq(Frame), b # <<>>
        PROVE  Append(g, Head(b)) \o Tail(b) = g \o b
    <3> DEFINE l == Append(g, Head(b)) \o Tail(b)
               r == g \o b
    <3>1. /\ Head(b) \in Frame /\ Head(b) = b[1] /\ Tail(b) \in Seq(Frame) /\ Len(b) \in Nat \ {0}
          /\ Len(Tail(b)) = Len(b) - 1 /\ \A i \in 1..Len(Tail(b)) : Tail(b)[i] = b[i + 1]
      BY <2>1, HeadTailProperties
    <3>2. /\ Append(g, Head(b)) \in Seq(Frame) /\ Len(Append(g, Head(b))) = Len(g) + 1
          /\ Append(g, Head(b))[Len(g) + 1] = Head(b) /\ Len(g) \in Nat
          /\ \A i \in 1..Len(g) : Append(g, Head(b))[i] = g[i]
      BY <3>1
    <3>3. /\ l \in Seq(Frame) /\ r \in Seq(Frame)
          /\ Len(l) = Len(g) + Len(b) /\ Len(r) = Len(g) + Len(b)
      BY <3>1, <3>2, ConcatProperties
    <3>4. ASSUME NEW i \in 1..Len(l)
          PROVE  l[i] = r[i]
      <4>1. i \in Nat /\ i \in 1..(Len(g) + Len(b))
        BY <3>3, <3>1, <3>2
      <4>2. r[i] = IF i <= Len(g) THEN g[i] ELSE b[i - Len(g)]
        BY <4>1, ConcatProperties
      <4>3. l[i] = IF i <= Len(g) + 1 THEN Append(g, Head(b))[i] ELSE Tail(b)[i - (Len(g) + 1)]
        BY <3>1, <3>2, <4>1, ConcatProperties
      <4>4. CASE i <= Len(g)
        BY <3>1, <3>2, <4>1, <4>2, <4>3, <4>4
      <4>5. CASE i = Len(g) + 1
        BY <3>1, <3>2, <4>1, <4>2, <4>3, <4>5
      <4>6. CASE i > Len(g) + 1
        <5>1. i - (Len(g) + 1) \in 1..Len(Tail(b)) /\ i - (Len(g) + 1) + 1 = i - Len(g)
          BY <3>1, <3>2, <4>1, <4>6
        <5> QED
          BY <3>1, <3>2, <4>1, <4>2, <4>3, <4>6, <5>1
      <4> QED
        BY <3>2, <4>1, <4>4, <4>5, <4>6
    <3> HIDE DEF l, r
    <3>5. l = r
      BY <3>3, <3>4, SeqEqual
    <3> QED
      BY <3>5 DEF l, r
  <2> QED
    BY <1>1, <2>1
<1> QED
  BY <1>4, <1>5 DEF TypeOK, Given

\* What was given stays, and with it what the handlers know of it.
LEMMA SameSofar ==
  ASSUME NEW c \in Chat, Sofar(c), Given(c)' = Given(c), SendFails(c) => SendFails(c)',
         h'[c] = h[c], next'[c] = next[c], published'[c] = published[c]
  PROVE  Sofar(c)'
<1>1. \A fs, m : WholeReply(fs, m)' = WholeReply(fs, m)
  OBVIOUS
<1> QED
  BY <1>1 DEF Sofar

(* A step that gives no chat a frame, and fails none anew, keeps Told. *)
LEMMA SameGiven ==
  ASSUME Told, \A d \in Chat : Given(d)' = Given(d), UNCHANGED <<h, next, published>>,
         \A d \in Chat : SendFails(d) => SendFails(d)'
  PROVE  Told'
BY SameSofar DEF Told

\* A whole reply is told by its own frames.
LEMMA WholePrefix ==
  ASSUME NEW fs, NEW gs, NEW m \in Nat, \A i \in 1..m : gs[i] = fs[i], WholeReply(fs, m)
  PROVE  WholeReply(gs, m)
BY DEF WholeReply

\* What a frame at the end of a stream leaves of the frames before it.
LEMMA PutSofar ==
  ASSUME TypeOK, Told, NEW c \in Chat, NEW f \in Frame, Put(c, f), UNCHANGED got,
         f.type # "destroy",
         f.type = "done" => WholeReply(Given(c), Len(Given(c))) /\ f.text = <<>>
  PROVE  /\ Given(c) \in Seq(Frame) /\ Given(c)' \in Seq(Frame)
         /\ Len(Given(c)') = Len(Given(c)) + 1 /\ Given(c)'[Len(Given(c)) + 1] = f
         /\ \A i \in 1..Len(Given(c)) : Given(c)'[i] = Given(c)[i]
         /\ \A i \in 1..Len(Given(c)') :
              /\ Given(c)'[i].type # "destroy"
              /\ Given(c)'[i].type = "done" =>
                   WholeReply(Given(c)', i - 1) /\ Given(c)'[i].text = <<>>
<1> DEFINE g == Given(c)
<1>1. g \in Seq(Frame) /\ Given(c)' = Append(g, f)
  BY GivenTyped, PutGiven
<1>2. Sofar(c)
  BY DEF Told
<1> HIDE DEF g
<1>3. /\ Append(g, f) \in Seq(Frame) /\ Len(Append(g, f)) = Len(g) + 1 /\ Len(g) \in Nat
      /\ Append(g, f)[Len(g) + 1] = f /\ \A i \in 1..Len(g) : Append(g, f)[i] = g[i]
  BY <1>1
<1>4. ASSUME NEW i \in 1..(Len(g) + 1), NEW a, a = Append(g, f)
      PROVE  /\ a[i].type # "destroy"
             /\ a[i].type = "done" => WholeReply(a, i - 1) /\ a[i].text = <<>>
  <2>1. i - 1 \in Nat /\ \A j \in 1..(i - 1) : a[j] = g[j]
    BY <1>3, <1>4
  <2>2. CASE i = Len(g) + 1
    <3>1. a[i] = f /\ i - 1 = Len(g)
      BY <1>3, <1>4, <2>2
    <3> QED
      BY <2>1, <3>1, WholePrefix DEF g
  <2>3. CASE i \in 1..Len(g)
    <3>1. a[i] = g[i]
      BY <1>3, <1>4, <2>3
    <3>2. g[i].type # "destroy" /\ (g[i].type = "done" => WholeReply(g, i - 1) /\ g[i].text = <<>>)
      BY <1>2, <2>3 DEF Sofar, g
    <3> QED
      BY <2>1, <3>1, <3>2, WholePrefix
  <2> QED
    BY <1>3, <2>2, <2>3
<1> QED
  BY <1>1, <1>3, <1>4 DEF g

(* Every step keeps what each chat has been given to its own reply so far. *)
LEMMA ToldInductive ==
  ASSUME TypeOK, Separate, Ordered, Told, [Next]_vars
  PROVE  Told'
<1> USE DEF go, link, js, vars
<1>1. ASSUME UNCHANGED <<h, next, published, buf, got>>,
             \A d \in Chat : SendFails(d) => SendFails(d)'
      PROVE  Told'
  BY <1>1, SameGiven DEF Given
<1>2. CASE UNCHANGED vars \/ ChannelEnds \/ AllQuiet
  BY <1>1, <1>2 DEF ChannelEnds, AllQuiet, SendFails
<1>3. ASSUME NEW c \in Chat, Break(c) \/ Pause(c) \/ Resume(c) \/ Throw(c)
      PROVE  Told'
  BY <1>1, <1>3 DEF Break, Pause, Resume, Throw, SendFails, TypeOK
<1>4. ASSUME NEW c \in Chat, Read(c)
      PROVE  Told'
  <2>1. \A d \in Chat : SendFails(d) => SendFails(d)'
    BY <1>4 DEF Read, SendFails, TypeOK
  <2> QED
    BY <1>4, <2>1, ReadGiven, SameGiven DEF Read
\* The handler of c goes on and no other does; nobody's consumer notices.
<1>5. ASSUME NEW c \in Chat, UNCHANGED <<got, closed, dead>>,
             \A d \in Chat \ {c} : /\ h'[d] = h[d] /\ next'[d] = next[d]
                                   /\ published'[d] = published[d] /\ buf'[d] = buf[d],
             Sofar(c)'
      PROVE  Told'
  <2>1. ASSUME NEW d \in Chat, d # c
        PROVE  Sofar(d)'
    <3>1. Given(d)' = Given(d) /\ (SendFails(d)' <=> SendFails(d))
      BY <1>5, <2>1 DEF Given, SendFails
    <3> QED
      BY <1>5, <2>1, <3>1, SameSofar DEF Told
  <2> QED
    BY <1>5, <2>1 DEF Told
<1>6. ASSUME NEW c \in Chat, NEW to, Goto(c, to),
             UNCHANGED <<next, published, buf, got, closed, dead>>,
             \/ /\ h[c] \in {"idle", "asked", "turn", "update"}
                /\ to \in {"asked", "turn", "update"} /\ (to = "asked" => h[c] = "idle")
             \/ h[c] = "turn" /\ to = "reply" /\ next[c] \in {1, Pieces + 1}
             \/ h[c] = "reply" /\ to = "done" /\ published[c]
             \/ to = "destroy" /\ SendFails(c)
             \/ to \in {"error", "gone"}
      PROVE  Told'
  <2>1. /\ h' = [h EXCEPT ![c] = to] /\ h'[c] = to /\ \A d \in Chat : Given(d)' = Given(d)
        /\ SendFails(c)' <=> SendFails(c)
    BY <1>6 DEF Goto, Given, SendFails, TypeOK
  <2>2. to = "done" => WholeReply(Given(c), Len(Given(c)))
    <3> SUFFICES ASSUME to = "done" PROVE WholeReply(Given(c), Len(Given(c)))
      OBVIOUS
    <3>1. h[c] = "reply" /\ published[c] = TRUE
      BY <1>6 DEF TypeOK
    <3>2. next[c] > 1 /\ next[c] \in {1, Pieces + 1} /\ Len(Given(c)) = next[c] - 1
      BY <3>1 DEF Told, Sofar
    <3>3. Len(Given(c)) = Pieces
      BY <3>2, StreamAssumption
    <3> QED
      BY <3>1, <3>3 DEF Told, Sofar, WholeReply
  <2>3. Sofar(c)'
    BY <1>6, <2>1, <2>2 DEF Told, Sofar, WholeReply
  <2> QED
    BY <1>5, <1>6, <2>1, <2>3
<1>7. ASSUME NEW c \in Chat,
             Start(c) \/ Ask(c) \/ Streams(c) \/ TurnReturns(c) \/ TurnFails(c)
      PROVE  Told'
  <2>1. CASE Start(c) /\ Goto(c, "turn")
    BY <1>6, <2>1 DEF Start
  <2>2. CASE Goto(c, "error")
    BY <1>6, <1>7, <2>2 DEF Start, Ask, Streams, TurnReturns, TurnFails
  <2>3. CASE Ask(c)
    BY <1>6, <2>3 DEF Ask, Separate, Asked
  <2>4. CASE Streams(c)
    BY <1>6, <2>4 DEF Streams
  <2>5. CASE TurnReturns(c)
    BY <1>6, <2>5 DEF TurnReturns
  <2> QED
    BY <1>7, <2>1, <2>2, <2>3, <2>4, <2>5 DEF Start, TurnFails
<1>8. ASSUME NEW c \in Chat, Update(c)
      PROVE  Told'
  <2>1. PICK s \in streamers :
          /\ s[1] = id[c]
          /\ \/ /\ CanSend(s[2]) /\ Put(s[2], Content(c, <<next[c]>>))
                /\ published' = [published EXCEPT ![s[2]] = TRUE]
                /\ next' = [next EXCEPT ![c] = @ + 1] /\ Goto(c, "turn")
             \/ SendFails(s[2]) /\ Goto(c, "error") /\ UNCHANGED <<buf, published, next>>
    BY <1>8 DEF Update
  <2>2. s[2] = c /\ h[c] = "update" /\ UNCHANGED <<got, closed, dead>>
    BY <1>8, <2>1, IdReachesOwn DEF Separate, Handling, Update
  <2>3. CASE Goto(c, "error") /\ UNCHANGED <<buf, published, next>>
    BY <1>6, <2>2, <2>3
  <2>4. CASE /\ Put(c, Content(c, <<next[c]>>)) /\ Goto(c, "turn")
             /\ published' = [published EXCEPT ![c] = TRUE] /\ next' = [next EXCEPT ![c] = @ + 1]
    <3> DEFINE f == Content(c, <<next[c]>>)
    <3>1. next[c] \in 1..Pieces
      BY <2>2 DEF TypeOK
    <3>2. f \in Frame /\ f.type = "content" /\ f.text = <<next[c]>>
      BY <3>1, FrameTyped DEF Content
    <3>3. /\ h'[c] = "turn" /\ next'[c] = next[c] + 1 /\ published'[c] = TRUE
          /\ \A d \in Chat \ {c} : h'[d] = h[d] /\ next'[d] = next[d]
                                  /\ published'[d] = published[d] /\ buf'[d] = buf[d]
      BY <2>4 DEF Goto, Put, TypeOK
    <3>4. Len(Given(c)) = next[c] - 1
          /\ \A i \in 1..Len(Given(c)) : Given(c)[i].type = "content" /\ Given(c)[i].text = <<i>>
      BY <2>2 DEF Told, Sofar
    <3> HIDE DEF f
    <3>5. /\ Len(Given(c)') = Len(Given(c)) + 1 /\ Given(c)'[Len(Given(c)) + 1] = f
          /\ \A i \in 1..Len(Given(c)) : Given(c)'[i] = Given(c)[i]
          /\ \A i \in 1..Len(Given(c)') :
              /\ Given(c)'[i].type # "destroy"
              /\ Given(c)'[i].type = "done" =>
                   WholeReply(Given(c)', i - 1) /\ Given(c)'[i].text = <<>>
      BY <2>2, <2>4, <3>2, PutSofar DEF f
    <3>6. \A i \in 1..Len(Given(c)') : Given(c)'[i].type = "content" /\ Given(c)'[i].text = <<i>>
      <4> DEFINE a == Given(c)'
                 g == Given(c)
                 n == next[c]
      <4> SUFFICES ASSUME NEW i \in 1..Len(a) PROVE a[i].type = "content" /\ a[i].text = <<i>>
        OBVIOUS
      <4>1. n \in Nat /\ Len(g) = n - 1 /\ Len(a) = Len(g) + 1
        BY <3>1, <3>4, <3>5
      <4>2. CASE i = n
        <5>1. a[i] = f
          BY <3>5, <4>1, <4>2
        <5> QED
          BY <3>2, <4>2, <5>1
      <4>3. CASE i \in 1..(n - 1)
        <5>1. a[i] = g[i] /\ g[i].type = "content" /\ g[i].text = <<i>>
          BY <3>4, <3>5, <4>1, <4>3
        <5> QED
          BY <5>1
      <4> HIDE DEF a, g, n
      <4> QED
        BY <4>1, <4>2, <4>3
    <3>7. Sofar(c)'
      <4>1. Len(Given(c)') = next'[c] - 1 /\ next'[c] > 1
        BY <3>1, <3>3, <3>4, <3>5
      <4>2. \A i \in 1..Len(Given(c)') : Given(c)'[i].type # "destroy" /\ Given(c)'[i].type # "done"
        BY <3>6
      <4> QED
        BY <3>3, <3>6, <4>1, <4>2 DEF Sofar, WholeReply
    <3> QED
      BY <1>5, <2>2, <3>3, <3>7
  <2> QED
    BY <2>1, <2>2, <2>3, <2>4
\* A step that puts f on the chat's own stream, and moves the handler past the turn.
<1>9. ASSUME NEW c \in Chat, NEW f \in Frame, NEW to, Put(c, f), Goto(c, to),
             UNCHANGED <<next, published, got, closed, dead>>,
             f.type # "destroy",
             f.type = "done" => WholeReply(Given(c), Len(Given(c))) /\ f.text = <<>>,
             to \in {"close", "gone"} \/ (to = "done" /\ WholeReply(Given(c)', Len(Given(c)')))
      PROVE  Told'
  <2>1. h'[c] = to /\ \A d \in Chat \ {c} : h'[d] = h[d] /\ buf'[d] = buf[d]
    BY <1>9 DEF Goto, Put, TypeOK
  <2>2. \A i \in 1..Len(Given(c)') :
          /\ Given(c)'[i].type # "destroy"
          /\ Given(c)'[i].type = "done" =>
               WholeReply(Given(c)', i - 1) /\ Given(c)'[i].text = <<>>
    BY <1>9, PutSofar
  <2>3. Sofar(c)'
    BY <1>9, <2>1, <2>2 DEF Sofar, WholeReply
  <2> QED
    BY <1>5, <1>9, <2>1, <2>3
<1>10. ASSUME NEW c \in Chat, SendReply(c)
       PROVE  Told'
  <2>1. CASE published[c] /\ Goto(c, "done") /\ UNCHANGED buf
    BY <1>6, <1>10, <2>1 DEF SendReply
  <2>2. CASE ~ published[c] /\ CanSend(c) /\ Put(c, Content(c, Text)) /\ Goto(c, "done")
    <3> DEFINE f == Content(c, Text)
    <3>1. f \in Frame /\ f.type = "content" /\ f.text = Text
      BY FrameTyped DEF Content
    <3>2. UNCHANGED <<next, published, got, closed, dead>> /\ h[c] = "reply"
      BY <1>10 DEF SendReply
    <3>3. Len(Given(c)) = 0
      BY <2>2, <3>2 DEF Told, Sofar, TypeOK
    <3> HIDE DEF f
    <3>4. Len(Given(c)') = Len(Given(c)) + 1 /\ Given(c)'[Len(Given(c)) + 1] = f
      BY <2>2, <3>1, <3>2, PutSofar DEF f
    <3>5. WholeReply(Given(c)', Len(Given(c)'))
      BY <3>1, <3>3, <3>4 DEF WholeReply
    <3> QED
      BY <1>9, <2>2, <3>1, <3>2, <3>5 DEF f
  <2>3. CASE SendFails(c) /\ Goto(c, "destroy") /\ UNCHANGED buf
    BY <1>6, <1>10, <2>3 DEF SendReply
  <2> QED
    BY <1>10, <2>1, <2>2, <2>3 DEF SendReply
<1>11. ASSUME NEW c \in Chat, SendTerminal(c)
       PROVE  Told'
  <2>1. CASE Put(c, Terminal(c, h[c])) /\ Goto(c, "close")
    <3> DEFINE f == Terminal(c, h[c])
    <3>1. f \in Frame /\ f.type = h[c] /\ f.text = <<>> /\ h[c] \in {"done", "error"}
      BY <1>11, FrameTyped DEF SendTerminal, Terminal
    <3>2. h[c] = "done" => WholeReply(Given(c), Len(Given(c)))
      BY DEF Told, Sofar
    <3> HIDE DEF f
    <3> QED
      BY <1>9, <1>11, <2>1, <3>1, <3>2 DEF SendTerminal, f
  <2>2. CASE SendFails(c) /\ Goto(c, "destroy") /\ UNCHANGED buf
    BY <1>6, <1>11, <2>2 DEF SendTerminal
  <2> QED
    BY <1>11, <2>1, <2>2 DEF SendTerminal
<1>12. ASSUME NEW c \in Chat, Return(c)
       PROVE  Told'
  <2>1. CASE SendFails(c)
    BY <1>6, <1>12, <2>1 DEF Return
  <2>2. CASE ~ SendFails(c)
    <3> DEFINE f == [type |-> h[c], of |-> c, text |-> <<>>]
    <3>1. h[c] = "close" /\ Put(c, f) /\ Goto(c, "gone")
      BY <1>12, <2>2 DEF Return, Told, Sofar
    <3>2. f \in Frame /\ f.type = "close"
      BY <3>1, FrameTyped
    <3> HIDE DEF f
    <3> QED
      BY <1>9, <1>12, <3>1, <3>2 DEF Return
  <2> QED
    BY <2>1, <2>2
<1> QED
  BY <1>2, <1>3, <1>4, <1>7, <1>8, <1>10, <1>11, <1>12 DEF Next, Handler, Consumer

\* The frames of a whole reply and the terminal chunk after them make the reply's text.
LEMMA ToldOnce == TypeOK /\ Told => ReplyExactlyOnce
<1> SUFFICES ASSUME TypeOK, Told, NEW c \in Chat, got[c] # <<>>, got[c][Len(got[c])].type = "done"
             PROVE  TextOf(got[c]) = Text
  BY DEF ReplyExactlyOnce
<1> DEFINE n == Len(got[c])
<1>1. got[c] \in Seq(Frame) /\ buf[c] \in Seq(Frame) /\ n \in Nat \ {0}
  BY DEF TypeOK
<1>2. /\ Len(Given(c)) = n + Len(buf[c]) /\ Len(buf[c]) \in Nat
      /\ \A i \in 1..n : Given(c)[i] = got[c][i]
  <2>1. ASSUME NEW g \in Seq(Frame), NEW b \in Seq(Frame)
        PROVE  /\ Len(g \o b) = Len(g) + Len(b) /\ Len(b) \in Nat
               /\ \A i \in 1..Len(g) : (g \o b)[i] = g[i]
    <3>1. Len(g) \in Nat /\ Len(b) \in Nat
      OBVIOUS
    <3>2. \A i \in 1..Len(g) : i \in 1..(Len(g) + Len(b)) /\ i <= Len(g)
      BY <3>1
    <3> QED
      BY <3>1, <3>2, ConcatProperties
  <2> QED
    BY <1>1, <2>1 DEF Given
<1>3. n \in 1..Len(Given(c)) /\ Given(c)[n] = got[c][n] /\ got[c][n].type = "done"
  <2>1. got[c][n].type = "done"
    OBVIOUS
  <2> HIDE DEF n
  <2>2. n \in 1..n /\ n \in 1..(n + Len(buf[c]))
    BY <1>1, <1>2
  <2> QED
    BY <1>2, <2>1, <2>2
<1> HIDE DEF n
<1>4. WholeReply(Given(c), n - 1) /\ got[c][n].text = <<>>
  <2>1. Sofar(c)
    BY DEF Told
  <2>2. \A i \in 1..Len(Given(c)) :
          Given(c)[i].type = "done" => WholeReply(Given(c), i - 1) /\ Given(c)[i].text = <<>>
    BY <2>1 DEF Sofar
  <2> QED
    BY <1>3, <2>2
<1>5. WholeReply(got[c], n - 1)
  <2>1. n - 1 \in Nat /\ \A i \in 1..(n - 1) : got[c][i] = Given(c)[i]
    BY <1>1, <1>2
  <2> QED
    BY <1>4, <2>1, WholePrefix
<1>6. CASE n - 1 = Pieces /\ \A i \in 1..(n - 1) : got[c][i].text = <<i>>
  <2>1. /\ Pieces \in Nat /\ Len(got[c]) = Pieces + 1 /\ got[c][Pieces + 1].text = <<>>
        /\ \A i \in 1..Pieces : got[c][i].text = <<i>>
    BY <1>1, <1>4, <1>6, StreamAssumption DEF n
  <2> QED
    BY <1>1, <2>1, TextOfPieces DEF Text
<1>7. CASE n - 1 = 1 /\ got[c][1].text = Text
  BY <1>1, <1>4, <1>7, TextOfWhole DEF n
<1> QED
  BY <1>5, <1>6, <1>7 DEF WholeReply

\* At the start nothing is given and nobody is handled.
LEMMA InitTold == Init => Separate /\ Ordered /\ Told /\ \A c \in Chat : Given(c) = <<>>
<1> SUFFICES ASSUME Init PROVE Separate /\ Ordered /\ Told /\ \A c \in Chat : Given(c) = <<>>
  OBVIOUS
<1>1. Separate /\ Ordered
  BY DEF Init, Separate, DelegateExact, IdsDistinct, FramesOwn, NoCrosstalk, Handling, Asked,
         Ordered, Unread, OnlyContent, EndLast, HasTerminal, EndsWithTerminal
<1>2. \A c \in Chat : Given(c) = <<>>
  <2>1. <<>> \o <<>> = <<>>
    OBVIOUS
  <2> QED
    BY <2>1 DEF Init, Given
<1>3. \A c \in Chat : Len(Given(c)) = 0
  BY <1>2
<1>4. Told
  BY <1>3 DEF Told, Sofar, Init
<1> QED
  BY <1>1, <1>2, <1>4

\* After done the consumer holds the reply whole, in order and once, streamed or not.
THEOREM ReplyToldOnce == Spec => []ReplyExactlyOnce
BY InitTold, SeparateInductive, OrderedInductive, ToldInductive, ToldOnce, StreamTyped, PTL
DEF Spec

-----------------------------------------------------------------------------
(* What a consumer was given is the beginning of its chat's reply that ChatReplies speaks
   of.  Sofar says so while the turn runs; the frames stay as they are after it.           *)

\* The first m frames make the reply up to its piece m, or all of it in one.
Shaped(fs, m) ==
  \/ m <= Pieces /\ \A i \in 1..m : fs[i].text = <<i>>
  \/ m = 1 /\ fs[1].text = Text

\* The reply that far.
UpTo(fs, m) ==
  IF m <= Pieces /\ \A i \in 1..m : fs[i].text = <<i>> THEN [i \in 1..m |-> i] ELSE Text

Pieced ==
  \A c \in Chat : \A i \in 1..Len(Given(c)) :
    /\ Given(c)[i].type = "content" => Shaped(Given(c), i)
    /\ Given(c)[i].type # "content" => Given(c)[i].text = <<>>

\* Frames of that shape, and a frame without text after them, make the reply that far.
LEMMA TextOfShaped ==
  ASSUME NEW fs \in Seq(Frame), NEW m \in Nat, Len(fs) \in {m, m + 1},
         m = 0 \/ Shaped(fs, m), Len(fs) = m + 1 => fs[m + 1].text = <<>>
  PROVE  TextOf(fs) = UpTo(fs, m)
<1>1. CASE m <= Pieces /\ \A i \in 1..m : fs[i].text = <<i>>
  BY <1>1, TextOfPieces DEF UpTo
<1>2. CASE ~ (m <= Pieces /\ \A i \in 1..m : fs[i].text = <<i>>)
  <2>1. m = 1 /\ fs[1].text = Text
    BY <1>2, StreamAssumption DEF Shaped
  <2>2. Len(fs) \in {1, 2} /\ (Len(fs) = 2 => fs[2].text = <<>>)
    BY <2>1
  <2> QED
    BY <1>2, <2>1, <2>2, TextOfWhole DEF UpTo
<1> QED
  BY <1>1, <1>2

(* A frame put on a stream keeps the shape if it is the next piece, the whole reply as the
   first frame, or no content. *)
LEMMA PutPieced ==
  ASSUME TypeOK, Pieced, NEW c \in Chat, NEW f \in Frame, Put(c, f), UNCHANGED got,
         f.type # "content" => f.text = <<>>,
         f.type = "content" =>
           \/ /\ Len(Given(c)) < Pieces /\ f.text = <<Len(Given(c)) + 1>>
              /\ \A i \in 1..Len(Given(c)) : Given(c)[i].text = <<i>>
           \/ Len(Given(c)) = 0 /\ f.text = Text
  PROVE  Pieced'
<1> DEFINE g == Given(c)
           a == Append(g, f)
           n == Len(g)
<1>1. g \in Seq(Frame) /\ \A d \in Chat : Given(d)' = IF d = c THEN a ELSE Given(d)
  BY GivenTyped, PutGiven
<1>2. \A fs, m : Shaped(fs, m)' = Shaped(fs, m)
  OBVIOUS
<1>3. /\ n \in Nat /\ Len(a) = n + 1 /\ a[n + 1] = f
      /\ \A i \in 1..n : i \in 1..(n + 1) /\ a[i] = g[i]
  BY <1>1
<1>4. ASSUME NEW i \in 1..Len(a)
      PROVE  (a[i].type = "content" => Shaped(a, i)) /\ (a[i].type # "content" => a[i].text = <<>>)
  <2> HIDE DEF a
  <2>1. CASE i = n + 1
    <3>1. a[i] = f
      BY <1>3, <2>1
    <3>2. CASE f.type = "content" /\ n < Pieces /\ f.text = <<n + 1>>
               /\ \A j \in 1..n : g[j].text = <<j>>
      <4>1. \A j \in 1..i : a[j].text = <<j>>
        <5> TAKE j \in 1..i
        <5>1. CASE j = n + 1 BY <1>3, <3>2, <5>1
        <5>2. CASE j \in 1..n BY <1>3, <3>2, <5>2
        <5> HIDE DEF g, n
        <5> QED BY <1>3, <2>1, <5>1, <5>2
      <4>2. i <= Pieces
        BY <1>3, <2>1, <3>2, StreamAssumption
      <4> QED
        BY <3>1, <3>2, <4>1, <4>2 DEF Shaped
    <3>3. CASE f.type = "content" /\ n = 0 /\ f.text = Text
      BY <2>1, <3>1, <3>3 DEF Shaped
    <3>4. CASE f.type # "content"
      BY <3>1, <3>4
    <3> QED
      BY <3>2, <3>3, <3>4
  <2>2. CASE i \in 1..n
    <3>1. a[i] = g[i] /\ \A j \in 1..i : a[j] = g[j]
      BY <1>3, <2>2
    <3>2. (g[i].type = "content" => Shaped(g, i)) /\ (g[i].type # "content" => g[i].text = <<>>)
      BY <2>2 DEF Pieced
    <3> HIDE DEF g
    <3> QED
      BY <1>3, <2>2, <3>1, <3>2 DEF Shaped
  <2> QED
    BY <1>3, <2>1, <2>2
<1>5. ASSUME NEW d \in Chat, NEW i \in 1..Len(Given(d)')
      PROVE  /\ Given(d)'[i].type = "content" => Shaped(Given(d)', i)
             /\ Given(d)'[i].type # "content" => Given(d)'[i].text = <<>>
  <2>1. CASE d = c
    <3>1. Given(d)' = a
      BY <1>1, <2>1
    <3> HIDE DEF a
    <3> QED
      BY <1>4, <1>5, <3>1
  <2>2. CASE d # c
    BY <1>1, <1>5, <2>2 DEF Pieced
  <2> QED
    BY <2>1, <2>2
<1> QED
  BY <1>2, <1>5 DEF Pieced

(* Only a running turn puts text on a stream, and it knows what is there. *)
LEMMA PiecedInductive ==
  ASSUME TypeOK, Separate, Ordered, Told, Pieced, [Next]_vars
  PROVE  Pieced'
<1> USE DEF go, link, js, vars
<1>1. ASSUME \A d \in Chat : Given(d)' = Given(d)
      PROVE  Pieced'
  BY <1>1 DEF Pieced, Shaped
<1>2. CASE UNCHANGED <<buf, got>>
  BY <1>1, <1>2 DEF Given
<1>3. ASSUME NEW c \in Chat, Read(c)
      PROVE  Pieced'
  BY <1>1, <1>3, ReadGiven
<1>4. ASSUME NEW c \in Chat, Update(c)
      PROVE  Pieced'
  <2>1. PICK s \in streamers : s[1] = id[c] /\ (Put(s[2], Content(c, <<next[c]>>)) \/ UNCHANGED buf)
    BY <1>4 DEF Update
  <2>2. s[2] = c /\ h[c] = "update" /\ UNCHANGED got
    BY <1>4, <2>1, IdReachesOwn DEF Separate, Handling, Update
  <2>3. CASE Put(c, Content(c, <<next[c]>>))
    <3> DEFINE f == Content(c, <<next[c]>>)
    <3>1. next[c] \in 1..Pieces /\ Len(Given(c)) = next[c] - 1
          /\ \A i \in 1..Len(Given(c)) : Given(c)[i].text = <<i>>
      BY <2>2 DEF Told, Sofar, TypeOK
    <3>2. f \in Frame /\ f.type = "content" /\ f.text = <<next[c]>>
      BY <3>1, FrameTyped DEF Content
    <3>3. Len(Given(c)) < Pieces /\ next[c] = Len(Given(c)) + 1
      BY <3>1, StreamAssumption
    <3> HIDE DEF f
    <3> QED
      BY <2>2, <2>3, <3>1, <3>2, <3>3, PutPieced DEF f
  <2> QED
    BY <1>2, <2>1, <2>2, <2>3
<1>5. ASSUME NEW c \in Chat, SendReply(c)
      PROVE  Pieced'
  <2>1. CASE ~ published[c] /\ Put(c, Content(c, Text))
    <3> DEFINE f == Content(c, Text)
    <3>1. f \in Frame /\ f.type = "content" /\ f.text = Text
      BY FrameTyped DEF Content
    <3>2. Len(Given(c)) = 0 /\ UNCHANGED got
      BY <1>5, <2>1 DEF SendReply, Told, Sofar, TypeOK
    <3> HIDE DEF f
    <3> QED
      BY <2>1, <3>1, <3>2, PutPieced DEF f
  <2> QED
    BY <1>2, <1>5, <2>1 DEF SendReply
<1>6. ASSUME NEW c \in Chat, SendTerminal(c) \/ Return(c)
      PROVE  Pieced'
  <2>1. ASSUME NEW f \in Frame, Put(c, f), f.type # "content", f.text = <<>>, UNCHANGED got
        PROVE  Pieced'
    BY <2>1, PutPieced
  <2>2. CASE Put(c, Terminal(c, h[c])) /\ h[c] \in {"done", "error"}
    BY <1>6, <2>1, <2>2, FrameTyped DEF Terminal, SendTerminal, Return
  <2>3. CASE Put(c, [type |-> h[c], of |-> c, text |-> <<>>]) /\ h[c] \in {"close", "destroy"}
    BY <1>6, <2>1, <2>3, FrameTyped DEF SendTerminal, Return
  <2> QED
    BY <1>2, <1>6, <2>2, <2>3 DEF SendTerminal, Return
<1>7. ASSUME NEW c \in Chat, Start(c) \/ Streams(c) \/ TurnReturns(c) \/ TurnFails(c) \/ Ask(c)
                              \/ Break(c) \/ Pause(c) \/ Resume(c) \/ Throw(c)
      PROVE  Pieced'
  BY <1>2, <1>7 DEF Start, Streams, TurnReturns, TurnFails, Ask, Break, Pause, Resume, Throw
<1> QED
  BY <1>2, <1>3, <1>4, <1>5, <1>6, <1>7 DEF Next, Handler, Consumer, ChannelEnds, AllQuiet

-----------------------------------------------------------------------------
(* ChatStream implements ChatReplies. *)

Telling == TypeOK /\ Separate /\ Ordered /\ Told /\ Pieced
At(c)   == IF reader[c] = "ended" THEN got[c][Len(got[c])].type ELSE reader[c]

\* A frame the loop takes tells some more of the reply, or ends the chat with what was told:
\* with all of it when the frame is a done.
LEMMA ReadTells ==
  ASSUME Telling, NEW c \in Chat, Read(c), ReplyExactlyOnce'
  PROVE  /\ reader[c] = "reading"
         /\ \A d \in Chat \ {c} : got'[d] = got[d] /\ reader'[d] = reader[d]
         /\ \/ /\ reader'[c] = "reading"
               /\ \E n \in Len(TextOf(got[c]))..Len(Text) : TextOf(got'[c]) = SubSeq(Text, 1, n)
            \/ /\ At(c)' \in {"done", "error"} /\ TextOf(got'[c]) = TextOf(got[c])
               /\ At(c)' = "done" => TextOf(got[c]) = Text
<1> DEFINE f == Head(buf[c])
           g == got[c]
           n == Len(g)
           a == Append(g, f)
<1>1. /\ g \in Seq(Frame) /\ buf[c] \in Seq(Frame) /\ buf[c] # <<>> /\ f \in Frame /\ n \in Nat
      /\ a \in Seq(Frame) /\ Len(a) = n + 1 /\ a[n + 1] = f /\ \A i \in 1..n : a[i] = g[i]
      /\ reader[c] = "reading" /\ f = buf[c][1]
  BY DEF Telling, TypeOK, Read
<1>2. \A d \in Chat \ {c} : got'[d] = got[d] /\ reader'[d] = reader[d]
  BY DEF Telling, TypeOK, Read
<1>3. Given(c)[n + 1] = f /\ n + 1 \in 1..Len(Given(c)) /\ \A i \in 1..n : Given(c)[i] = g[i]
  <2>1. ASSUME NEW x \in Seq(Frame), NEW b \in Seq(Frame), b # <<>>
        PROVE  /\ Len(x) + 1 \in 1..Len(x \o b) /\ (x \o b)[Len(x) + 1] = b[1]
               /\ \A i \in 1..Len(x) : (x \o b)[i] = x[i] /\ i \in 1..Len(x \o b)
    <3>1. Len(x) \in Nat /\ Len(b) \in Nat \ {0} /\ Len(x \o b) = Len(x) + Len(b)
      BY <2>1, ConcatProperties
    <3>2. Len(x) + 1 \in 1..(Len(x) + Len(b)) /\ Len(x) + 1 - Len(x) = 1
          /\ \A i \in 1..Len(x) : i \in 1..(Len(x) + Len(b)) /\ i <= Len(x)
      BY <3>1
    <3> QED
      BY <3>1, <3>2, ConcatProperties
  <2> QED
    BY <1>1, <2>1 DEF Given
<1>4. OnlyContent(c)
  BY <1>1 DEF Telling, Ordered, Unread
<1>5. \A i \in 1..n : Shaped(g, i)
  <2> TAKE i \in 1..n
  <2>1. Given(c)[i] = g[i] /\ g[i].type = "content" /\ i \in 1..Len(Given(c))
    BY <1>1, <1>3, <1>4 DEF OnlyContent
  <2>2. Shaped(Given(c), i)
    BY <2>1 DEF Telling, Pieced
  <2>3. \A j \in 1..i : Given(c)[j] = g[j]
    BY <1>1, <1>3
  <2> HIDE DEF g, n
  <2> QED
    BY <1>1, <2>2, <2>3 DEF Shaped
<1>6. n = 0 \/ Shaped(g, n)
  BY <1>1, <1>5
<1>7. TextOf(g) = UpTo(g, n)
  <2> HIDE DEF g, n
  <2> QED
    BY <1>1, <1>6, TextOfShaped DEF n
<1>8. f.type \in {"content", "done", "error"} /\ got'[c] = a
  <2>1. f.type # "close" /\ f.type # "destroy"
    <3>1. f.type # "close"
      BY <1>1 DEF Telling, Ordered, Unread, EndLast
    <3>2. f.type # "destroy"
      BY <1>3 DEF Telling, Told, Sofar
    <3> QED
      BY <3>1, <3>2
  <2> QED
    BY <1>1, <2>1 DEF Frame, Read, Telling, TypeOK
<1>9. CASE f.type = "content"
  <2>1. reader'[c] = "reading"
    BY <1>9 DEF Read, Telling, TypeOK
  <2>2. Shaped(a, n + 1)
    <3>1. Shaped(Given(c), n + 1)
      BY <1>3, <1>9 DEF Telling, Pieced
    <3>2. \A j \in 1..(n + 1) : Given(c)[j] = a[j]
      <4> HIDE DEF g, n, a, f
      <4> QED BY <1>1, <1>3
    <3> HIDE DEF g, n, a, f
    <3> QED
      BY <1>1, <3>1, <3>2 DEF Shaped
  <2>3. TextOf(a) = UpTo(a, n + 1)
    <3> HIDE DEF g, n, a, f
    <3> QED
      BY <1>1, <2>2, TextOfShaped
  <2>4. \E k \in Len(UpTo(g, n))..Len(Text) : UpTo(a, n + 1) = SubSeq(Text, 1, k)
    <3> HIDE DEF g, n, a, f
    <3>1. Len(Text) = Pieces /\ Pieces \in Nat /\ SubSeq(Text, 1, Pieces) = Text
      BY StreamAssumption DEF Text
    <3>2. CASE n + 1 <= Pieces /\ \A i \in 1..(n + 1) : a[i].text = <<i>>
      <4>1. n <= Pieces /\ \A i \in 1..n : g[i].text = <<i>>
        <5>1. n \in Nat /\ n <= Pieces
          BY <1>1, <3>1, <3>2
        <5>2. ASSUME NEW i \in 1..n PROVE g[i].text = <<i>>
          <6>1. i \in 1..(n + 1)
            BY <5>1
          <6>2. a[i] = g[i]
            BY <1>1
          <6> QED BY <3>2, <6>1, <6>2
        <5> QED BY <5>1, <5>2
      <4>2. UpTo(g, n) = [i \in 1..n |-> i] /\ UpTo(a, n + 1) = [i \in 1..(n + 1) |-> i]
        BY <3>2, <4>1 DEF UpTo
      <4>3. Len([i \in 1..n |-> i]) = n /\ n + 1 \in n..Pieces
        BY <1>1, <3>1, <3>2
      <4>4. SubSeq(Text, 1, n + 1) = [i \in 1..(n + 1) |-> i]
        BY <1>1, <3>1, <3>2 DEF Text
      <4> QED
        BY <3>1, <4>2, <4>3, <4>4
    <3>3. CASE ~ (n + 1 <= Pieces /\ \A i \in 1..(n + 1) : a[i].text = <<i>>)
      <4>1. n = 0 /\ UpTo(a, n + 1) = Text
        BY <1>1, <2>2, <3>3 DEF Shaped, UpTo
      <4>2. UpTo(g, n) = <<>>
        BY <3>1, <4>1 DEF UpTo
      <4>3. Pieces \in Len(UpTo(g, n))..Len(Text)
        BY <3>1, <4>2
      <4> QED
        BY <3>1, <4>1, <4>3
    <3> QED
      BY <3>2, <3>3
  <2> QED
    BY <1>1, <1>2, <1>7, <1>8, <2>1, <2>3, <2>4
<1>10. CASE f.type \in {"done", "error"}
  <2>1. reader'[c] = "ended" /\ At(c)' = f.type
    <3>1. reader'[c] = "ended"
      BY <1>10 DEF Read, Telling, TypeOK
    <3> HIDE DEF f, a, g, n
    <3> QED
      BY <1>1, <1>8, <3>1 DEF At
  <2>2. f.text = <<>>
    BY <1>3, <1>10 DEF Telling, Pieced
  <2>3. TextOf(a) = TextOf(g)
    <3> HIDE DEF g, n, a, f
    <3>1. \A j \in 1..n : a[j].text = g[j].text
      BY <1>1
    <3>2. n = 0 \/ Shaped(a, n)
      BY <1>1, <1>6, <3>1 DEF Shaped
    <3>3. UpTo(a, n) = UpTo(g, n)
      BY <3>1 DEF UpTo
    <3> QED
      BY <1>1, <1>7, <2>2, <3>2, <3>3, TextOfShaped
  <2>4. f.type = "done" => TextOf(a) = Text
    <3> SUFFICES ASSUME f.type = "done" PROVE TextOf(got'[c]) = Text
      BY <1>8
    <3>1. got'[c] # <<>> /\ got'[c][Len(got'[c])].type = "done"
      <4> HIDE DEF f, a, g, n
      <4> QED BY <1>1, <1>8
    <3> QED
      BY <3>1 DEF ReplyExactlyOnce
  <2> QED
    BY <1>1, <1>2, <1>8, <1>10, <2>1, <2>3, <2>4
<1> QED
  BY <1>8, <1>9, <1>10

\* Every step is a step of the told reply, or none of its business.
LEMMA StepTells ==
  ASSUME Telling, ReplyExactlyOnce', [Next]_vars
  PROVE  [Replies!Next]_(Replies!vars)
<1> DEFINE at   == [c \in Chat |-> At(c)]
           told == [c \in Chat |-> TextOf(got[c])]
<1> USE DEF go, link, js, vars
<1>1. ASSUME UNCHANGED <<reader, got>>
      PROVE  UNCHANGED <<at, told>>
  BY <1>1 DEF At, TextOf
<1>2. ASSUME UNCHANGED <<at, told>>
      PROVE  UNCHANGED Replies!vars
  BY <1>2 DEF Replies!vars, At
\* The reader of one chat moves on, and it is given nothing.
<1>3. ASSUME NEW c \in Chat, NEW to, to # "ended", reader[c] # "ended",
             reader' = [reader EXCEPT ![c] = to], UNCHANGED got
      PROVE  at[c] = reader[c] /\ at' = [at EXCEPT ![c] = to] /\ told' = told
  <2>1. told' = told
    BY <1>3 DEF TextOf
  <2>2. reader \in [Chat -> {"idle", "reading", "ended", "broken", "thrown"}]
    BY DEF Telling, TypeOK
  <2>3. \A d \in Chat : At(d)' = IF d = c THEN to ELSE At(d)
    BY <1>3, <2>2 DEF At
  <2> QED
    BY <1>3, <2>1, <2>3 DEF At
<1>4. ASSUME NEW c \in Chat, Ask(c)
      PROVE  Replies!Ask(c)
  BY <1>3, <1>4 DEF Ask, Replies!Ask, At
<1>5. ASSUME NEW c \in Chat, Break(c) \/ Throw(c)
      PROVE  Replies!End(c)
  BY <1>3, <1>5 DEF Break, Throw, Replies!End, At
<1>6. ASSUME NEW c \in Chat, Read(c)
      PROVE  Replies!Tell(c) \/ Replies!End(c)
  <2>1. \A d \in Chat \ {c} : At(d)' = At(d) /\ TextOf(got'[d]) = TextOf(got[d])
    BY <1>6, ReadTells DEF At
  <2>2. at[c] = "reading"
    BY <1>6, ReadTells DEF At
  <2>3. CASE /\ reader'[c] = "reading"
             /\ \E n \in Len(TextOf(got[c]))..Len(Text) : TextOf(got'[c]) = SubSeq(Text, 1, n)
    <3>1. UNCHANGED at
      BY <1>6, <2>1, <2>3, ReadTells DEF At
    <3>2. \E n \in Len(told[c])..Len(Text) : told' = [told EXCEPT ![c] = SubSeq(Text, 1, n)]
      BY <2>1, <2>3
    <3> QED
      BY <2>2, <3>1, <3>2 DEF Replies!Tell, At
  <2>4. CASE /\ At(c)' \in {"done", "error"} /\ TextOf(got'[c]) = TextOf(got[c])
             /\ At(c)' = "done" => TextOf(got[c]) = Text
    <3>1. at' = [at EXCEPT ![c] = At(c)'] /\ UNCHANGED told
      BY <2>1, <2>4
    <3> QED
      BY <2>2, <2>4, <3>1 DEF Replies!End, At
  <2> QED
    BY <1>6, <2>3, <2>4, ReadTells
<1>7. CASE UNCHANGED <<reader, got>>
  BY <1>1, <1>2, <1>7
<1>8. ASSUME NEW c \in Chat, Handler(c) \/ Pause(c) \/ Resume(c)
      PROVE  UNCHANGED <<reader, got>>
  BY <1>8 DEF Handler, Start, Streams, Update, TurnReturns, TurnFails, SendReply, SendTerminal,
              Return, Pause, Resume
<1> QED
  BY <1>4, <1>5, <1>6, <1>7, <1>8 DEF Next, Consumer, ChannelEnds, AllQuiet, Replies!Next

\* What the consumers are given is, at every moment and whatever fails, a beginning of their
\* own chat's reply, and done comes with all of it.
THEOREM StreamTellsReplies == Spec => ImplementsReplies
<1>1. TypeOK /\ Init => Pieced
  <2> SUFFICES ASSUME Init, NEW c \in Chat PROVE Len(Given(c)) = 0
    BY DEF Pieced
  <2> QED
    BY InitTold
<1>2. TypeOK /\ Init => Replies!Init
  <2> SUFFICES ASSUME TypeOK, Init, NEW c \in Chat PROVE TextOf(got[c]) = <<>> /\ reader[c] = "idle"
    BY DEF Replies!Init
  <2>1. got[c] \in Seq(Frame) /\ Len(got[c]) = 0
    BY DEF Init, TypeOK
  <2>2. TextOf(got[c]) = [i \in 1..0 |-> i]
    BY <2>1, TextOfPieces
  <2> QED
    BY <2>2 DEF Init
<1>3. TypeOK /\ Told => ReplyExactlyOnce
  BY ToldOnce
<1>4. TypeOK /\ Separate /\ Ordered /\ Told /\ Pieced => Telling
  BY DEF Telling
<1>5. Spec => []Telling /\ []ReplyExactlyOnce
  BY <1>1, <1>3, <1>4, InitTold, SeparateInductive, OrderedInductive, ToldInductive,
     PiecedInductive, StreamTyped, PTL DEF Spec
<1>6. Spec => Replies!Init /\ [][Replies!Next]_(Replies!vars)
  BY <1>2, <1>5, StepTells, StreamTyped, PTL DEF Spec
<1> QED
  BY <1>6 DEF ImplementsReplies, Replies!Spec

=============================================================================
