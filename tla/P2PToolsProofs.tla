--------------------------- MODULE P2PToolsProofs ----------------------------
(* Theorems about P2PTools, for any number of calls, topics, keys and messages. *)
EXTENDS P2PTools, WireProofs, TLAPS

(* The calls are numbered by the handles they took, so that a place in a map belongs to one
   call; and a closing call has a node whose opening call succeeded. *)
Numbered ==
  /\ seq = started
  /\ \A c \in Opener : IF c <= started THEN id[c] = c /\ kind[c] \in Kind
                                       ELSE call[c] = "idle"

Mapped ==
  /\ \A k \in Kind, i \in Opener : table[k][i] \in {0, i}
  /\ \A k \in Kind, i \in Opener : table[k][i] = i => kind[i] = k /\ call[i] = "ok"
  /\ NothingOrphaned

Closed == \A u \in Closer : close[u] # "idle" => target[u] \in Opener /\ call[target[u]] = "ok"

Reachable == CallsTyped /\ Numbered /\ Mapped /\ Closed

(* At the start no tool was called. *)
LEMMA ReachableInit == Init => Reachable
BY BoundsAssumption DEF Init, Reachable, CallsTyped, Numbered, Mapped, Closed, NothingOrphaned,
                        Opener, Closer, Kind

(* Every tool call keeps the numbers and the open connections in step. *)
LEMMA ReachableInductive ==
  ASSUME Reachable, [Next]_vars
  PROVE  Reachable'
<1> USE BoundsAssumption DEF CallsTyped, Opener, Closer, Kind, Reachable, Numbered, Mapped, Closed,
        NothingOrphaned, opening, data, closing
<1>1. CASE UNCHANGED vars
  BY <1>1 DEF vars
<1>2. ASSUME NEW k \in Kind, NEW n, NEW st \in {"waiting", "refused"}, NEW nd \in {"up", "none"},
             st = "refused" <=> nd = "none", Begin(k, n, st, nd)
      PROVE  Reachable'
  BY <1>2 DEF Begin, NextId
<1>3. CASE OpenTool
  BY <1>2, <1>3 DEF OpenTool, SwarmJoin, DhtServe, DhtConnect
<1>4. ASSUME NEW c \in Opener, Enter(c), call[c] = "waiting",
             UNCHANGED <<opening, node, closing>>
      PROVE  Reachable'
  <2>1. c <= started /\ id[c] = c /\ kind[c] \in Kind
    BY <1>4
  <2>2. /\ \A d \in Opener : call'[d] = IF d = c THEN "ok" ELSE call[d]
        /\ \A k \in Kind, i \in Opener :
             table'[k][i] = IF k = kind[c] /\ i = c THEN c ELSE table[k][i]
    BY <1>4, <2>1 DEF Enter
  <2>3. table' \in [Kind -> [Opener -> 0..MaxOpen]]
    BY <1>4, <2>1 DEF Enter
  <2>4. CallsTyped'
    BY <1>4, <2>3 DEF Enter
  <2>5. Numbered' /\ Closed'
    BY <1>4, <2>1, <2>2
  <2>6. Mapped'
    <3> HIDE DEF CallsTyped, Opener, Kind
    <3>1. \A k \in Kind, i \in Opener : table'[k][i] \in {0, i}
      BY <2>2
    <3>2. \A k \in Kind, i \in Opener : table'[k][i] = i => kind'[i] = k /\ call'[i] = "ok"
      BY <1>4, <2>2
    <3>3. ASSUME NEW d \in Opener, call'[d] = "ok", node'[d] # "gone"
          PROVE  table'[kind'[d]][id'[d]] = d
      <4>1. UNCHANGED <<kind, id, node>>
        BY <1>4
      <4>2. CASE d = c
        BY <2>1, <2>2, <4>1, <4>2
      <4>3. CASE d # c
        <5>1. call[d] = "ok" /\ id[d] = d /\ kind[d] \in Kind
          BY <2>2, <3>3, <4>3 DEF CallsTyped, Opener
        <5> QED BY <2>2, <3>3, <4>1, <4>3, <5>1
      <4> QED BY <4>2, <4>3
    <3> QED BY <3>1, <3>2, <3>3
  <2> QED BY <2>4, <2>5, <2>6
<1>5. ASSUME NEW c \in Opener, OpenStep(c) PROVE Reachable'
  <2>1. CASE Flushed(c) \/ Listens(c) \/ Opens(c)
    BY <1>4, <2>1 DEF Flushed, Listens, Opens
  <2>2. CASE OpenFails(c)
    BY <2>2 DEF OpenFails
  <2> QED BY <1>5, <2>1, <2>2 DEF OpenStep
<1>6. ASSUME UNCHANGED <<opening, call, node, table, closing>> PROVE Reachable'
  BY <1>6
<1>7. ASSUME NEW i \in Opener, UseTool(i) PROVE Reachable'
  BY <1>6, <1>7 DEF UseTool, SwarmBroadcast, DhtSend, SwarmMessages, DhtServerMessages,
                    DhtMessages, Write, Splice
<1>8. ASSUME NEW c \in Opener, Network(c) PROVE Reachable'
  BY <1>6, <1>8 DEF Network, Meet, Drop, Unlink, Data, Stranger
<1>9. ASSUME NEW u \in Closer, CloseStep(u) PROVE Reachable'
  <2>1. ASSUME NEW c \in Opener, call[c] = "ok", node[c] # "gone" \/ UNCHANGED node,
               NEW nd \in {"closing", "gone"},
               node' = node \/ node' = [node EXCEPT ![c] = nd],
               NEW st \in {"destroying", "failed"},
               close' = close \/ close' = [close EXCEPT ![u] = st],
               UNCHANGED <<opening, call, table, target>>, close[u] # "idle"
        PROVE  Reachable'
    <3>1. UNCHANGED <<seq, started, kind, id, call, table, target>>
      BY <2>1
    <3>2. \A d \in Opener : node'[d] = node[d] \/ (d = c /\ node'[d] = nd)
      BY <2>1
    <3>3. CallsTyped'
      <4>1. node' \in [Opener -> {"none", "up", "closing", "gone"}]
        <5> DEFINE Nodes == {"none", "up", "closing", "gone"}
        <5>1. node \in [Opener -> Nodes] /\ nd \in Nodes
          BY <2>1
        <5> HIDE DEF Nodes, CallsTyped, Opener
        <5>2. [node EXCEPT ![c] = nd] \in [Opener -> Nodes]
          BY <2>1, <5>1
        <5>3. node' \in [Opener -> Nodes]
          BY <2>1, <5>1, <5>2
        <5> QED BY <5>3 DEF Nodes
      <4>2. close' \in [Closer -> {"idle", "stopping", "destroying", "closed", "failed"}]
        BY <2>1
      <4>3. \A d \in Opener : node'[d] = "none" <=> call'[d] \in {"idle", "refused"}
        BY <2>1, <3>1, <3>2
      <4> QED BY <3>1, <4>1, <4>2, <4>3
    <3>4. Numbered'
      BY <3>1
    <3>5. Mapped'
      <4> HIDE DEF CallsTyped, Opener, Kind
      <4>1. \A d \in Opener : node'[d] # "gone" => node[d] # "gone" \/ UNCHANGED node
        BY <2>1, <3>2
      <4> QED BY <3>1, <4>1
    <3>6. Closed'
      BY <2>1, <3>1
    <3> QED BY <3>3, <3>4, <3>5, <3>6
  <2>2. (target[u] \in Opener /\ call[target[u]] = "ok") \/ close[u] = "idle"
    OBVIOUS
  <2>5. CASE ServerStops(u)
    BY <2>1, <2>2, <2>5 DEF ServerStops
  <2>6. CASE Destroyed(u)
    BY <2>1, <2>2, <2>6 DEF Destroyed
  <2>3. CASE CloseReturns(u)
    <3> DEFINE c == target[u]
    <3>1. /\ c \in Opener /\ call[c] = "ok" /\ id[c] = c /\ kind[c] \in Kind /\ node[c] = "gone"
          /\ UNCHANGED <<opening, call, node, target>>
      BY <2>3 DEF CloseReturns
    <3>2. \A k \in Kind, i \in Opener :
            table'[k][i] = IF k = kind[c] /\ i = c THEN 0 ELSE table[k][i]
      BY <2>3, <3>1 DEF CloseReturns
    <3>3. table' \in [Kind -> [Opener -> 0..MaxOpen]]
      BY <2>3, <3>1 DEF CloseReturns
    <3>4. close' = [close EXCEPT ![u] = "closed"] /\ close[u] # "idle"
      BY <2>3 DEF CloseReturns
    <3>5. CallsTyped'
      BY <3>1, <3>3, <3>4
    <3>6. Numbered' /\ Closed'
      BY <3>1, <3>4
    <3>7. Mapped'
      <4> HIDE DEF CallsTyped, Opener, Kind
      <4>1. \A k \in Kind, i \in Opener : table'[k][i] \in {0, i}
        BY <3>2
      <4>2. \A k \in Kind, i \in Opener : table'[k][i] = i => kind'[i] = k /\ call'[i] = "ok"
        <5>1. 0 \notin Opener
          BY DEF Opener
        <5> QED BY <3>1, <3>2, <5>1
      <4>3. ASSUME NEW d \in Opener, call'[d] = "ok", node'[d] # "gone"
            PROVE  table'[kind'[d]][id'[d]] = d
        <5>1. call[d] = "ok" /\ id[d] = d /\ kind[d] \in Kind /\ d # c
          BY <3>1, <4>3 DEF CallsTyped, Opener
        <5> QED BY <3>1, <3>2, <4>3, <5>1
      <4> QED BY <4>1, <4>2, <4>3
    <3> QED BY <3>5, <3>6, <3>7
  <2>4. CASE CloseFails(u)
    BY <2>4 DEF CloseFails
  <2> QED BY <1>9, <2>3, <2>4, <2>5, <2>6 DEF CloseStep
<1>10. ASSUME NEW u \in Closer, NEW i \in Opener, CloseTool(u, i) PROVE Reachable'
  <2>1. ASSUME NEW c \in 0..MaxOpen, NEW st \in {"stopping", "destroying"}, CloseBegin(u, c, st),
               NEW k \in Kind, c = table[k][i], UNCHANGED <<opening, call, node, table>>
        PROVE  Reachable'
    <3>1. c = i /\ i \in Opener /\ call[i] = "ok"
      BY <2>1 DEF CloseBegin
    <3>2. close' = [close EXCEPT ![u] = st] /\ target' = [target EXCEPT ![u] = i]
      BY <2>1, <3>1 DEF CloseBegin
    <3>3. CallsTyped'
      BY <2>1, <3>1, <3>2
    <3>4. Numbered' /\ Mapped'
      <4> HIDE DEF CallsTyped, Opener, Kind
      <4>1. UNCHANGED <<seq, started, kind, id, call, node, table>>
        BY <2>1
      <4> QED BY <4>1
    <3>5. Closed'
      BY <2>1, <3>1, <3>2
    <3> QED BY <3>3, <3>4, <3>5
  <2>2. \A k \in Kind : table[k][i] \in 0..MaxOpen
    <3>1. table \in [Kind -> [Opener -> 0..MaxOpen]] /\ i \in Opener
      BY <1>10
    <3> HIDE DEF CallsTyped, Opener, Kind
    <3> QED BY <3>1
  <2>3. CASE SwarmClose(u, i)
    BY <2>1, <2>2, <2>3 DEF SwarmClose
  <2>4. CASE DhtCloseServer(u, i)
    BY <2>1, <2>2, <2>4 DEF DhtCloseServer
  <2>5. CASE DhtCloseConn(u, i)
    BY <2>1, <2>2, <2>5 DEF DhtCloseConn
  <2> QED BY <1>10, <2>3, <2>4, <2>5 DEF CloseTool
<1> HIDE DEF Reachable
<1> QED BY <1>1, <1>3, <1>5, <1>7, <1>8, <1>9, <1>10 DEF Next

\* A handle leads to the node of the call that returned it, or nowhere.
THEOREM HandlesStayApart == Spec => []HandleReachesOwn
<1>1. Reachable => HandleReachesOwn
  BY DEF Reachable, CallsTyped, Numbered, Mapped, HandleReachesOwn, Opener, Kind
<1> QED BY <1>1, ReachableInit, ReachableInductive, PTL DEF Spec

\* A node that lives and whose opening call succeeded can be closed by its handle.
THEOREM NoNodeIsLost == Spec => []NothingOrphaned
<1>1. Reachable => NothingOrphaned
  BY DEF Reachable, Mapped
<1> QED BY <1>1, ReachableInit, ReachableInductive, PTL DEF Spec

-----------------------------------------------------------------------------
\* Every variable keeps its type; a call that was refused has made no node, and every other
\* one has.
THEOREM ToolsTyped == Spec => []TypeOK
<1> DEFINE Links == {{c, d} : c \in Opener, d \in 0..MaxOpen}
<1>1. Init => TypeOK
  BY ReachableInit, BoundsAssumption DEF Init, TypeOK, Reachable
<1>2. ASSUME TypeOK, Reachable, Reachable', [Next]_vars PROVE TypeOK'
  <2>1. ASSUME NEW c \in Opener, NEW d \in 0..MaxOpen PROVE {c, d} \in Links
    BY <2>1
  <2>2. link' \subseteq Links
    <3>0. link \subseteq Links
      BY <1>2 DEF TypeOK
    <3> HIDE DEF Links
    <3>1. CASE UNCHANGED link
      BY <3>0, <3>1
    <3>2. CASE link' \subseteq link
      BY <3>0, <3>2
    <3>3. ASSUME NEW c \in Opener, Opens(c) PROVE link' \subseteq Links
      <4>1. PICK s \in 0..MaxOpen : link' = link \cup {{c, s}}
        BY <3>3 DEF Opens
      <4> QED BY <2>1, <3>0, <4>1
    <3>4. ASSUME NEW c \in Opener, NEW d \in Opener, Meet(c, d) PROVE link' \subseteq Links
      <4>1. d \in 0..MaxOpen
        BY BoundsAssumption DEF Opener
      <4>2. link' = link \cup {{c, d}}
        BY <3>4 DEF Meet
      <4> QED BY <2>1, <3>0, <4>1, <4>2
    <3>5. CASE OpenTool
      BY <3>1, <3>5 DEF OpenTool, SwarmJoin, DhtServe, DhtConnect, Begin
    <3>6. ASSUME NEW c \in Opener, OpenStep(c) PROVE link' \subseteq Links
      BY <3>1, <3>3, <3>6 DEF OpenStep, Flushed, Listens, OpenFails
    <3>7. ASSUME NEW i \in Opener, UseTool(i) PROVE link' \subseteq Links
      BY <3>1, <3>7 DEF UseTool, SwarmBroadcast, DhtSend, SwarmMessages, DhtServerMessages,
                        DhtMessages, Write, Splice
    <3>8. ASSUME NEW c \in Opener, Network(c) PROVE link' \subseteq Links
      BY <3>1, <3>2, <3>4, <3>8 DEF Network, Drop, Unlink, Data, Stranger
    <3>9. ASSUME NEW u \in Closer, CloseStep(u) PROVE link' \subseteq Links
      BY <3>1, <3>2, <3>9 DEF CloseStep, ServerStops, Destroyed, CloseReturns, CloseFails
    <3>10. ASSUME NEW u \in Closer, NEW i \in Opener, CloseTool(u, i) PROVE link' \subseteq Links
      BY <3>1, <3>2, <3>10 DEF CloseTool, SwarmClose, DhtCloseServer, DhtCloseConn, Unlink
    <3>11. CASE UNCHANGED vars
      BY <3>1, <3>11 DEF vars
    <3> QED BY <1>2, <3>5, <3>6, <3>7, <3>8, <3>9, <3>10, <3>11 DEF Next
  <2>3. sent' \in 0..MaxSent
    <3> USE <1>2, BoundsAssumption DEF TypeOK, opening, data, closing
    <3>1. CASE UNCHANGED sent
      BY <3>1
    <3>2. CASE sent < MaxSent /\ sent' = sent + 1
      BY <3>2
    <3> HIDE DEF TypeOK
    <3>3. CASE UNCHANGED vars \/ OpenTool
      BY <3>1, <3>3 DEF vars, OpenTool, SwarmJoin, DhtServe, DhtConnect, Begin
    <3>4. ASSUME NEW c \in Opener, OpenStep(c) PROVE UNCHANGED sent
      BY <3>4 DEF OpenStep, Flushed, Listens, Opens, OpenFails
    <3>5. ASSUME NEW i \in Opener, UseTool(i)
          PROVE  UNCHANGED sent \/ (sent < MaxSent /\ sent' = sent + 1)
      BY <3>5 DEF UseTool, SwarmBroadcast, DhtSend, SwarmMessages, DhtServerMessages,
                  DhtMessages, Write, Splice
    <3>6. ASSUME NEW c \in Opener, Network(c)
          PROVE  UNCHANGED sent \/ (sent < MaxSent /\ sent' = sent + 1)
      BY <3>6 DEF Network, Meet, Drop, Data, Stranger
    <3>7. ASSUME NEW u \in Closer, CloseStep(u) \/ \E i \in Opener : CloseTool(u, i)
          PROVE  UNCHANGED sent
      BY <3>7 DEF CloseStep, ServerStops, Destroyed, CloseReturns, CloseFails, CloseTool,
                  SwarmClose, DhtCloseServer, DhtCloseConn
    <3> QED BY <1>2, <3>1, <3>2, <3>3, <3>4, <3>5, <3>6, <3>7 DEF Next
  <2> QED BY <1>2, <2>2, <2>3 DEF TypeOK, Reachable
<1> QED BY <1>1, <1>2, ReachableInit, ReachableInductive, PTL DEF Spec

-----------------------------------------------------------------------------
(* Messages. *)

\* A stranger's text is not two blocks.  One that is would be read as a bareclaw's message.
PlainText == \A raw \in RawText : ~ TakeBlock(TakeBlock(Reader(raw))).ok

\* What EncodeMsg writes, TryDecode reads.
LEMMA ParcelRead ==
  ASSUME NEW m \in Message, NEW d
  PROVE  TryDecode(EncodeMsg(m), d) = m
<1> DEFINE f == TakeBlock(Reader(EncodeMsg(m)))
           t == TakeBlock(f)
<1>1. m \in [from : Bytes, text : Bytes]
  BY MessageAssumption
<1>2. /\ m.from \in Bytes /\ m.text \in Bytes /\ Block(m.text) \in Seq(Byte)
      /\ m = [from |-> m.from, text |-> m.text]
  BY <1>1, BlockTyped
<1>3. Holds(Reader(EncodeMsg(m)), Block(m.from) \o Block(m.text), 0, <<>>, None)
  BY ReaderHolds DEF EncodeMsg
<1>4. Holds(f, Block(m.text), 0, <<>>, m.from)
  BY <1>2, <1>3, BlockRead
<1>5. Block(m.text) \o <<>> = Block(m.text) /\ <<>> \in Seq(Byte)
  BY <1>2
<1> HIDE DEF f
<1>6. Holds(f, Block(m.text) \o <<>>, 0, <<>>, m.from)
  BY <1>4, <1>5, Zenon
<1>7. Holds(t, <<>>, 0, <<>>, m.text)
  BY <1>2, <1>5, <1>6, BlockRead
<1> HIDE DEF t
<1>8. t.ok = TRUE /\ t.val = m.text /\ f.val = m.from
  BY <1>4, <1>7 DEF Holds
<1> QED
  BY <1>2, <1>8 DEF TryDecode, f, t

Msg == [from : Seq(Byte), text : Seq(Byte)]

\* What is on its way from d reads, whoever wrote it, as what it was written as.
Parcel(d) == {x \in [bytes : Seq(Byte), is : Msg] : TryDecode(x.bytes, d) = x.is}

Pipes == (0..MaxOpen) \X Opener

Delivered ==
  /\ DOMAIN wire = Pipes
  /\ \A d \in 0..MaxOpen, c \in Opener : wire[<<d, c>>] \in Seq(Parcel(d))
  /\ inbox \in [Opener -> Seq(Msg)] /\ due \in [Opener -> Seq(Msg)] /\ read \in [Opener -> Seq(Msg)]
  /\ EveryMessageOnce

(* Nothing is on its way at the start. *)
LEMMA DeliveredInit == Init => Delivered
<1> SUFFICES ASSUME Init PROVE Delivered
  OBVIOUS
<1>1. /\ wire = [p \in Pipes |-> <<>>] /\ inbox = [c \in Opener |-> <<>>]
      /\ due = inbox /\ read = inbox
  BY DEF Init, Pipes
<1>2. \A d \in 0..MaxOpen, c \in Opener : wire[<<d, c>>] \in Seq(Parcel(d))
  BY <1>1 DEF Pipes
<1> QED
  BY <1>1, <1>2 DEF Delivered, EveryMessageOnce

\* Nothing is read, and what is on the wires is less or is right.
LEMMA WiresOnly ==
  ASSUME Delivered, UNCHANGED <<inbox, due, read>>, DOMAIN wire' = Pipes,
         \A d \in 0..MaxOpen, c \in Opener : wire'[<<d, c>>] \in Seq(Parcel(d))
  PROVE  Delivered'
BY DEF Delivered, EveryMessageOnce, Parcel, Pipes

\* A message that a tool writes will read as that message.
LEMMA WriteDelivered ==
  ASSUME Delivered, NEW c \in Opener, NEW to, NEW m \in Message, Write(c, to, m)
  PROVE  Delivered'
<1> DEFINE x == [bytes |-> EncodeMsg(m), is |-> m]
<1>1. x \in Parcel(c)
  <2>1. m \in [from : Bytes, text : Bytes]
    BY MessageAssumption
  <2>2. m \in Msg /\ EncodeMsg(m) \in Seq(Byte)
    <3>1. /\ m.from \in Bytes /\ m.text \in Bytes /\ m = [from |-> m.from, text |-> m.text]
      BY <2>1
    <3>2. /\ Block(m.from) \in Seq(Byte) /\ Block(m.text) \in Seq(Byte)
          /\ m.from \in Seq(Byte) /\ m.text \in Seq(Byte)
      BY <3>1, BlockTyped
    <3> QED
      BY <3>1, <3>2, ConcatProperties DEF Msg, EncodeMsg
  <2> QED
    BY <2>2, ParcelRead DEF Parcel
<1> HIDE DEF x
<1>2. /\ UNCHANGED <<inbox, due, read>>
      /\ wire' = [p \in DOMAIN wire |->
                    IF p[1] = c /\ p[2] \in to THEN Append(wire[p], x) ELSE wire[p]]
  BY DEF Write, x
<1>3. ASSUME NEW d \in 0..MaxOpen, NEW e \in Opener
      PROVE  wire'[<<d, e>>] \in Seq(Parcel(d))
  <2>1. <<d, e>> \in DOMAIN wire /\ wire[<<d, e>>] \in Seq(Parcel(d))
    BY DEF Delivered, Pipes
  <2>2. wire'[<<d, e>>] = IF d = c /\ e \in to THEN Append(wire[<<d, e>>], x) ELSE wire[<<d, e>>]
    BY <1>2, <2>1
  <2> QED
    BY <1>1, <2>1, <2>2
<1> QED
  BY <1>2, <1>3, WiresOnly DEF Delivered

\* Plain text will read as a text from that peer.
LEMMA StrangerDelivered ==
  ASSUME PlainText, Delivered, NEW c \in Opener, NEW raw \in RawText, Stranger(c, raw)
  PROVE  Delivered'
<1> DEFINE x == [bytes |-> raw, is |-> [from |-> KeyPrefix(0), text |-> raw]]
<1>1. x \in Parcel(0)
  <2>1. raw \in Seq(Byte) /\ KeyPrefix(0) \in Seq(Byte)
    BY MessageAssumption DEF KeyPrefix, Byte
  <2>2. TryDecode(raw, 0) = [from |-> KeyPrefix(0), text |-> raw]
    BY DEF TryDecode, PlainText
  <2> QED
    BY <2>1, <2>2 DEF Parcel, Msg
<1> HIDE DEF x
<1>2. 0 \in 0..MaxOpen /\ <<0, c>> \in DOMAIN wire
  BY BoundsAssumption DEF Delivered, Pipes
<1>3. /\ UNCHANGED <<inbox, due, read>>
      /\ wire' = [wire EXCEPT ![<<0, c>>] = Append(wire[<<0, c>>], x)]
  BY DEF Stranger, x
<1>4. ASSUME NEW d \in 0..MaxOpen, NEW e \in Opener
      PROVE  wire'[<<d, e>>] \in Seq(Parcel(d))
  <2>1. <<d, e>> \in DOMAIN wire /\ wire[<<d, e>>] \in Seq(Parcel(d))
    BY DEF Delivered, Pipes
  <2>2. wire'[<<d, e>>] = IF d = 0 /\ e = c THEN Append(wire[<<d, e>>], x) ELSE wire[<<d, e>>]
    BY <1>2, <1>3, <2>1
  <2> QED
    BY <1>1, <2>1, <2>2
<1> QED
  BY <1>3, <1>4, WiresOnly DEF Delivered

\* A lost connection takes what is on it, which was never due.
LEMMA UnlinkDelivered ==
  ASSUME Delivered, UNCHANGED <<inbox, due, read>>, DOMAIN wire' = DOMAIN wire,
         \A p \in DOMAIN wire : wire'[p] \in {<<>>, wire[p]}
  PROVE  Delivered'
<1>1. ASSUME NEW d \in 0..MaxOpen, NEW e \in Opener
      PROVE  wire'[<<d, e>>] \in Seq(Parcel(d))
  <2>1. <<d, e>> \in DOMAIN wire /\ wire[<<d, e>>] \in Seq(Parcel(d))
    BY DEF Delivered, Pipes
  <2>2. wire'[<<d, e>>] = <<>> \/ wire'[<<d, e>>] = wire[<<d, e>>]
    BY <2>1
  <2>3. \A S : <<>> \in Seq(S)
    OBVIOUS
  <2> QED
    BY <2>1, <2>2, <2>3
<1> QED
  BY <1>1, WiresOnly DEF Delivered

\* What arrives is buffered, and due, as it was written.
LEMMA DataDelivered ==
  ASSUME Delivered, NEW d \in 0..MaxOpen, NEW c \in Opener, Data(d, c)
  PROVE  Delivered'
<1> DEFINE w == wire[<<d, c>>]
           x == Head(w)
<1>1. w \in Seq(Parcel(d)) /\ w # <<>> /\ <<d, c>> \in DOMAIN wire
  BY DEF Delivered, Pipes, Data
<1>2. x \in Parcel(d) /\ Tail(w) \in Seq(Parcel(d))
  BY <1>1, HeadTailProperties
<1>3. x.is \in Msg /\ TryDecode(x.bytes, d) = x.is
  BY <1>2 DEF Parcel
<1>4. /\ inbox' = [inbox EXCEPT ![c] = Append(@, x.is)]
      /\ due' = [due EXCEPT ![c] = Append(@, x.is)]
      /\ wire' = [wire EXCEPT ![<<d, c>>] = Tail(w)] /\ UNCHANGED read
  BY <1>3 DEF Data
<1> HIDE DEF x
<1>5. ASSUME NEW b \in 0..MaxOpen, NEW e \in Opener
      PROVE  wire'[<<b, e>>] \in Seq(Parcel(b))
  <2>1. <<b, e>> \in DOMAIN wire /\ wire[<<b, e>>] \in Seq(Parcel(b))
    BY DEF Delivered, Pipes
  <2> HIDE DEF w
  <2>2. wire'[<<b, e>>] = IF b = d /\ e = c THEN Tail(w) ELSE wire[<<b, e>>]
    BY <1>1, <1>4, <2>1
  <2> QED
    BY <1>2, <2>1, <2>2
<1>6. DOMAIN wire' = Pipes
  BY <1>4 DEF Delivered
<1>7. inbox' \in [Opener -> Seq(Msg)] /\ due' \in [Opener -> Seq(Msg)]
  BY <1>3, <1>4 DEF Delivered
<1>8. EveryMessageOnce'
  <2>1. ASSUME NEW r \in Seq(Msg), NEW b \in Seq(Msg), NEW y \in Msg
        PROVE  r \o Append(b, y) = Append(r \o b, y)
    OBVIOUS
  <2>2. ASSUME NEW e \in Opener PROVE read'[e] \o inbox'[e] = due'[e]
    <3>1. read[e] \in Seq(Msg) /\ inbox[e] \in Seq(Msg) /\ read[e] \o inbox[e] = due[e]
      BY DEF Delivered, EveryMessageOnce
    <3>2. CASE e = c
      <4>1. /\ inbox'[c] = Append(inbox[c], x.is) /\ due'[c] = Append(due[c], x.is)
            /\ read'[c] = read[c]
        BY <1>4 DEF Delivered
      <4>2. read[c] \o Append(inbox[c], x.is) = Append(read[c] \o inbox[c], x.is)
        BY <1>3, <2>1, <3>1, <3>2
      <4> QED
        BY <3>1, <3>2, <4>1, <4>2
    <3>3. CASE e # c
      BY <1>4, <3>1, <3>3 DEF Delivered
    <3> QED
      BY <3>2, <3>3
  <2> QED
    BY <2>2 DEF EveryMessageOnce
<1> QED
  BY <1>4, <1>5, <1>6, <1>7, <1>8 DEF Delivered, Parcel, Pipes

\* Splice moves the whole buffer behind what was read before.
LEMMA SpliceDelivered ==
  ASSUME Delivered, NEW c \in Opener, Splice(c)
  PROVE  Delivered'
<1>1. /\ read' = [read EXCEPT ![c] = read[c] \o inbox[c]] /\ inbox' = [inbox EXCEPT ![c] = <<>>]
      /\ UNCHANGED <<wire, due>>
  BY DEF Splice
<1>2. read[c] \in Seq(Msg) /\ inbox[c] \in Seq(Msg) /\ read[c] \o inbox[c] \in Seq(Msg)
  BY ConcatProperties DEF Delivered
<1>3. read' \in [Opener -> Seq(Msg)] /\ inbox' \in [Opener -> Seq(Msg)]
  BY <1>1, <1>2 DEF Delivered
<1>4. ASSUME NEW e \in Opener PROVE read'[e] \o inbox'[e] = due'[e]
  <2>1. CASE e = c
    <3>1. read'[c] = read[c] \o inbox[c] /\ inbox'[c] = <<>> /\ read[c] \o inbox[c] = due[c]
      BY <1>1 DEF Delivered, EveryMessageOnce
    <3>2. (read[c] \o inbox[c]) \o <<>> = read[c] \o inbox[c]
      BY <1>2
    <3> QED
      BY <1>1, <2>1, <3>1, <3>2
  <2>2. CASE e # c
    BY <1>1, <2>2 DEF Delivered, EveryMessageOnce
  <2> QED
    BY <2>1, <2>2
<1> QED
  BY <1>1, <1>3, <1>4 DEF Delivered, EveryMessageOnce, Parcel, Pipes

(* Every step takes a message once from where it was to where it is next. *)
LEMMA DeliveredInductive ==
  ASSUME PlainText, Reachable, Delivered, [Next]_vars
  PROVE  Delivered'
<1> USE DEF opening, data, closing
<1>1. ASSUME UNCHANGED data PROVE Delivered'
  BY <1>1 DEF Delivered, EveryMessageOnce, Parcel, Pipes
<1>2. ASSUME NEW gone, Unlink(gone), UNCHANGED <<inbox, due, read>> PROVE Delivered'
  <2>1. DOMAIN wire' = DOMAIN wire /\ \A p \in DOMAIN wire : wire'[p] \in {<<>>, wire[p]}
    BY <1>2 DEF Unlink
  <2> QED
    BY <1>2, <2>1, UnlinkDelivered
<1>3. CASE UNCHANGED vars \/ OpenTool
  BY <1>1, <1>3 DEF vars, OpenTool, SwarmJoin, DhtServe, DhtConnect, Begin
<1>4. ASSUME NEW c \in Opener, OpenStep(c) PROVE Delivered'
  BY <1>1, <1>4 DEF OpenStep, Flushed, Listens, Opens, OpenFails
<1>5. ASSUME NEW k \in Kind, NEW i \in Opener PROVE table[k][i] \in Opener \cup {0}
  BY <1>5 DEF Reachable, Mapped
<1>6. ASSUME NEW i \in Opener, UseTool(i) PROVE Delivered'
  <2>1. {"swarm", "server", "conn"} = Kind
    BY DEF Kind
  <2>2. ASSUME NEW m \in Message, SwarmBroadcast(i, m) PROVE Delivered'
    BY <1>5, <2>1, <2>2, WriteDelivered DEF SwarmBroadcast
  <2>3. ASSUME NEW m \in Message, DhtSend(i, m) PROVE Delivered'
    BY <1>5, <2>1, <2>3, WriteDelivered DEF DhtSend
  <2>4. ASSUME NEW k \in Kind, Splice(table[k][i]) PROVE Delivered'
    <3>1. table[k][i] \in Opener
      BY <1>5, <2>4 DEF Splice
    <3> QED
      BY <2>4, <3>1, SpliceDelivered
  <2> QED
    BY <1>6, <2>1, <2>2, <2>3, <2>4
    DEF UseTool, SwarmMessages, DhtServerMessages, DhtMessages
<1>7. ASSUME NEW c \in Opener, Network(c) PROVE Delivered'
  <2>1. ASSUME NEW d \in Opener, Meet(c, d) PROVE Delivered'
    BY <1>1, <2>1 DEF Meet
  <2>2. ASSUME NEW d \in 0..MaxOpen, Drop(c, d) PROVE Delivered'
    BY <1>2, <2>2 DEF Drop
  <2> QED
    BY <1>7, <2>1, <2>2, DataDelivered, StrangerDelivered DEF Network
<1>8. ASSUME NEW u \in Closer, CloseStep(u) PROVE Delivered'
  <2>1. CASE Destroyed(u)
    <3>1. /\ DOMAIN wire' = DOMAIN wire /\ \A p \in DOMAIN wire : wire'[p] \in {<<>>, wire[p]}
          /\ UNCHANGED <<inbox, due, read>>
      BY <2>1 DEF Destroyed
    <3> QED
      BY <3>1, UnlinkDelivered
  <2>2. CASE ServerStops(u) \/ CloseReturns(u) \/ CloseFails(u)
    BY <1>1, <2>2 DEF ServerStops, CloseReturns, CloseFails
  <2> QED
    BY <1>8, <2>1, <2>2 DEF CloseStep
<1>9. ASSUME NEW u \in Closer, NEW i \in Opener, CloseTool(u, i) PROVE Delivered'
  <2>1. CASE SwarmClose(u, i) \/ DhtCloseServer(u, i)
    BY <1>1, <2>1 DEF SwarmClose, DhtCloseServer
  <2>2. CASE DhtCloseConn(u, i)
    BY <1>2, <2>2 DEF DhtCloseConn
  <2> QED
    BY <1>9, <2>1, <2>2 DEF CloseTool
<1> QED
  BY <1>3, <1>4, <1>6, <1>7, <1>8, <1>9 DEF Next

\* Every message that reached a node is read once or still buffered, in order and as written.
THEOREM MessagesReadOnce ==
  ASSUME PlainText
  PROVE  Spec => []EveryMessageOnce
<1>1. Delivered => EveryMessageOnce
  BY DEF Delivered
<1> QED
  BY <1>1, DeliveredInit, DeliveredInductive, ReachableInit, ReachableInductive, PTL DEF Spec

=============================================================================
