--------------------------- MODULE BareclawProofs ---------------------------
(***************************************************************************)
(* Theorems about Bareclaw, for every set of keys and calls.               *)
(***************************************************************************)
EXTENDS Bareclaw, TLAPS

\* A key that _listStoreKeys lists as itself: without a slash, and beginning below U+00FF.
PlainKeys ==
  \A k \in Key : /\ Text[k] # <<>> /\ Text[k][1] < 255
                 /\ \A i \in DOMAIN Text[k] : Text[k][i] # Slash

\* Every entry is listed under its own key, and under no other: a plain key with a slash after
\* it begins another only if it is the other.
LEMMA PlainListed ==
  ASSUME PlainKeys
  PROVE  ListedAs = [k \in Key |-> {k}]
<1> USE TextAssumption DEF PlainKeys
<1>1. ASSUME NEW k \in Key, NEW l \in Key,
             IsPrefix(Append(Text[l], Slash), Append(Text[k], Slash))
      PROVE  l = k
  <2> DEFINE s == Text[l]
             t == Text[k]
  <2>1. s \in Seq(Nat) /\ t \in Seq(Nat)
    OBVIOUS
  <2>2. Len(s) <= Len(t) /\ \A i \in 1..(Len(s) + 1) : Append(s, Slash)[i] = Append(t, Slash)[i]
    BY <1>1, <2>1 DEF IsPrefix, Slash
  <2>3. Append(t, Slash)[Len(s) + 1] = Slash /\ \A i \in 1..Len(s) : s[i] = t[i]
    <3> HIDE DEF s, t
    <3>1. /\ Len(s) \in Nat /\ Append(s, Slash)[Len(s) + 1] = Slash
          /\ \A i \in 1..Len(s) : Append(s, Slash)[i] = s[i]
      BY <2>1 DEF Slash
    <3>2. \A i \in 1..Len(t) : Append(t, Slash)[i] = t[i]
      BY <2>1 DEF Slash
    <3>3. Append(s, Slash)[Len(s) + 1] = Append(t, Slash)[Len(s) + 1]
      <4>1. Len(s) + 1 \in 1..(Len(s) + 1)
        BY <3>1
      <4> QED BY <2>2, <4>1, Zenon
    <3>4. ASSUME NEW i \in 1..Len(s) PROVE s[i] = t[i]
      <4>1. i \in 1..(Len(s) + 1) /\ i \in 1..Len(t)
        BY <2>1, <2>2, <3>1
      <4> QED BY <2>2, <3>1, <3>2, <4>1, Zenon
    <3> QED BY <3>1, <3>3, <3>4
  <2>4. Len(s) = Len(t)
    BY <2>1, <2>2, <2>3 DEF Slash
  <2>5. s = t
    BY <2>1, <2>3, <2>4
  <2> QED BY <2>5
<1>2. \A k \in Key : IsPrefix(Append(Text[k], Slash), Append(Text[k], Slash))
  BY DEF IsPrefix, Slash
<1> QED BY <1>1, <1>2 DEF ListedAs

\* Only keys are listed.
LEMMA KeysListed == ListedAs \in [Key -> SUBSET Key]
  BY DEF ListedAs

(* Every variable keeps its type: in particular nothing is left to import or to flush, and no
   flush is under way, once _open or _close has gone past its loop (index.js:41, 154: each
   turn of the loop is awaited), and a call that runs has a session. *)
THEOREM TypeCorrect == Spec => []TypeOK
<1> USE ConstantsAssumption
<1>1. Init => TypeOK
  BY DEF Init, TypeOK, Persister, Content
<1>2. ASSUME TypeOK, [Next]_vars PROVE TypeOK'
  <2> USE DEF TypeOK, Persister, Content, inst, store, args
  <2> SUFFICES ASSUME Next PROVE TypeOK'
    BY <1>2 DEF vars
  <2>1. CASE Open
    BY <1>2, <2>1, KeysListed DEF Open, Listed
  <2>2. ASSUME NEW k \in Key, LoadSession(k) PROVE TypeOK'
    BY <1>2, <2>2 DEF LoadSession
  <2>3. CASE LoadDone
    BY <1>2, <2>3 DEF LoadDone
  <2>4. ASSUME NEW c \in Call, NEW k \in Key, NEW o \in {"chat", "session", "import"},
               Issue(c, o, k)
        PROVE TypeOK'
    BY <1>2, <2>4 DEF Issue
  <2>5. ASSUME NEW c \in Call, CallStep(c) PROVE TypeOK'
    <3>1. CASE Send(c) BY <1>2, <3>1 DEF Send
    <3>2. CASE GoTurn(c) BY <1>2, <3>2 DEF GoTurn
    <3>3. CASE ReadTerminal(c) BY <1>2, <3>3 DEF ReadTerminal
    <3>4. CASE PersistStart(c) BY <1>2, <3>4 DEF PersistStart
    <3>5. CASE GoExport(c) BY <1>2, <3>5 DEF GoExport
    <3>6. CASE GoCreate(c) BY <1>2, <3>6 DEF GoCreate
    <3>7. CASE GoImport(c) BY <1>2, <3>7 DEF GoImport
    <3>8. CASE Flush(c) BY <1>2, <3>8 DEF Flush
    <3>9. CASE ChannelFail(c) BY <1>2, <3>9 DEF ChannelFail
    <3> QED BY <2>5, <3>1, <3>2, <3>3, <3>4, <3>5, <3>6, <3>7, <3>8, <3>9 DEF CallStep
  <2>6. ASSUME NEW c \in Call, Break(c) PROVE TypeOK'
    BY <1>2, <2>6 DEF Break
  <2>7. CASE Close
    BY <1>2, <2>7, KeysListed DEF Close, Listed
  <2>8. ASSUME NEW k \in Key, CloseNext(k) PROVE TypeOK'
    BY <1>2, <2>8 DEF CloseNext
  <2>9. CASE GoExport(Closer)
    BY <1>2, <2>9 DEF GoExport
  <2>10. CASE CloseFlush
    BY <1>2, <2>10 DEF CloseFlush
  <2>11. CASE CloseFail
    BY <1>2, <2>11 DEF CloseFail
  <2>12. CASE CloseBee
    BY <1>2, <2>12 DEF CloseBee
  <2>13. CASE Exit
    BY <1>2, <2>13 DEF Exit, LoseTurns
  <2>14. CASE GoDies
    BY <1>2, <2>14 DEF GoDies, LoseTurns
  <2>15. CASE Crash
    BY <1>2, <2>15 DEF Crash, LoseTurns, Active
  <2> QED
    BY <2>1, <2>2, <2>3, <2>4, <2>5, <2>6, <2>7, <2>8, <2>9, <2>10, <2>11, <2>12, <2>13,
       <2>14, <2>15 DEF Next, InstanceStep, GoEof, Kill9
<1> QED BY <1>1, <1>2, PTL DEF Spec


-----------------------------------------------------------------------------
(* No corrupt blob reaches the bee.  The bee is written from blobs that a persist or an
   import has in hand, these come from the agent or were accepted by it, and the agent's
   histories come from its turns, from accepted imports and from the bee: inductive only
   over all three together. *)
PcMatchesOp ==
  \A c \in Call : /\ pc[c] \in {"chat", "session", "import"} => op[c] = pc[c]
                  /\ pc[c] \in {"persist", "export"} => op[c] = "chat"

Decodable ==
  /\ PcMatchesOp
  /\ BeeDecodable
  /\ \A k \in Key : Corrupt \notin hist[k]
  /\ \A p \in Persister : pc[p] = "put" => Corrupt \notin blob[p]
  /\ \A c \in Call : op[c] = "session" => blob[c] = {}

(* BeeDecodable: whatever chat, session and import do, in any order and through any
   crash, no key of the bee holds a blob that the agent cannot decode. *)
THEOREM NeverPoisoned == Spec => []BeeDecodable
<1> USE ConstantsAssumption
<1>1. Init => Decodable
  BY DEF Init, Decodable, PcMatchesOp, BeeDecodable, Persister
<1>2. ASSUME TypeOK, Decodable, [Next]_vars PROVE Decodable'
  <2> USE DEF TypeOK, Decodable, PcMatchesOp, BeeDecodable, Persister, inst, store, args
  <2> SUFFICES ASSUME Next PROVE Decodable'
    BY <1>2 DEF vars
  <2>1. CASE Open
    BY <1>2, <2>1 DEF Open
  <2>2. ASSUME NEW k \in Key, LoadSession(k) PROVE Decodable'
    BY <1>2, <2>2 DEF LoadSession
  <2>3. ASSUME NEW c \in Call, NEW k \in Key, NEW o \in {"chat", "session", "import"},
               Issue(c, o, k)
        PROVE Decodable'
    BY <1>2, <2>3 DEF Issue
  <2>4. ASSUME NEW c \in Call, CallStep(c) PROVE Decodable'
    <3>1. CASE Send(c) BY <1>2, <3>1 DEF Send
    <3>2. CASE GoTurn(c) BY <1>2, <3>2 DEF GoTurn
    <3>3. CASE ReadTerminal(c) BY <1>2, <3>3 DEF ReadTerminal
    <3>4. CASE PersistStart(c) BY <1>2, <3>4 DEF PersistStart
    <3>5. CASE GoExport(c) BY <1>2, <3>5 DEF GoExport
    <3>6. CASE GoCreate(c) BY <1>2, <3>6 DEF GoCreate
    <3>7. CASE GoImport(c) BY <1>2, <3>7 DEF GoImport
    <3>8. CASE Flush(c) BY <1>2, <3>8 DEF Flush
    <3>9. CASE ChannelFail(c) BY <1>2, <3>9 DEF ChannelFail
    <3> QED BY <2>4, <3>1, <3>2, <3>3, <3>4, <3>5, <3>6, <3>7, <3>8, <3>9 DEF CallStep
  <2>5. ASSUME NEW c \in Call, Break(c) PROVE Decodable'
    BY <1>2, <2>5 DEF Break
  <2>6. ASSUME NEW k \in Key, CloseNext(k) PROVE Decodable'
    BY <1>2, <2>6 DEF CloseNext
  <2>7. CASE GoExport(Closer)
    BY <1>2, <2>7 DEF GoExport
  <2>8. CASE CloseFlush
    BY <1>2, <2>8 DEF CloseFlush
  <2>9. CASE LoadDone \/ Close \/ CloseFail \/ CloseBee \/ Exit \/ GoDies
    BY <1>2, <2>9 DEF LoadDone, Close, CloseFail, CloseBee, Exit, GoDies
  <2>10. CASE Crash
    BY <1>2, <2>10 DEF Crash, Active
  <2> QED
    BY <2>1, <2>2, <2>3, <2>4, <2>5, <2>6, <2>7, <2>8, <2>9, <2>10
       DEF Next, InstanceStep, GoEof, Kill9
<1>3. Decodable => BeeDecodable
  BY DEF Decodable
<1> QED BY <1>1, <1>2, <1>3, TypeCorrect, PTL DEF Spec

-----------------------------------------------------------------------------
(* Durability, for applications that await each call on a session before the next one
   and every call before close(), and for keys that are listed as themselves. *)

\* Who runs when.
Exclusive ==
  /\ \A c, d \in Call : Active(c) /\ Active(d) /\ key[c] = key[d] => c = d
  /\ phase \notin {"load", "open", "openFailed"} => \A c \in Call : ~ Active(c)
  /\ phase # "open" => \A c \in Call : Active(c) => pc[c] = "ready"
  /\ phase # "flush" => pc[Closer] = "idle"

\* What the copies hold: the bee always, the agent once it has loaded the session.
Loaded(k) == phase \in {"open", "flush", "shutdown", "closed", "closeFailed"}
             \/ (phase = "load" /\ k \notin todo)
Saved ==
  \A c \in acked :
    /\ pc[c] = "ok" /\ key[c] \in Key
    /\ op[c] = "session" => key[c] \in scopes
    /\ op[c] # "session" => /\ key[c] \in stored /\ c \in bee[key[c]]
                            /\ Loaded(key[c]) => c \in hist[key[c]]

\* What a persist or an import in flight is about to leave in the bee.
InFlight ==
  /\ \A c \in Call : /\ turn[c] = "done" /\ Active(c) => c \in hist[key[c]]
                     /\ turn[c] # "none" => pc[c] \notin {"idle", "ready"} /\ op[c] = "chat"
  /\ sawDone \subseteq {c \in Call : turn[c] = "done"}
  /\ \A c \in sawDone : pc[c] = "put" => c \in blob[c]
  /\ \A c \in Call, d \in acked :
       op[c] = "chat" /\ pc[c] = "put" /\ op[d] # "session" /\ key[d] = key[c] => d \in blob[c]
  /\ \A d \in acked :
       pc[Closer] = "put" /\ op[d] # "session" /\ key[d] = key[Closer] => d \in blob[Closer]
  /\ \A c \in Call : op[c] = "import" /\ Active(c) =>
       /\ blob[c] \in {{c}, {Corrupt}}
       /\ pc[c] = "put" => blob[c] = {c} /\ c \in hist[key[c]]
       /\ pc[c] = "put" => \A d \in acked : op[d] # "session" => key[d] # key[c]

Durable == PcMatchesOp /\ Exclusive /\ Saved /\ InFlight

\* The four hold together: each step's case needs the others' facts about who may run
\* beside it and which copy the step reads.
LEMMA DurableInductive ==
  ASSUME ~ Overlap, PlainKeys, TypeOK, Durable, [Next]_vars
  PROVE  Durable'
<1> USE ConstantsAssumption DEF TypeOK, Persister, Active, inst, store, args,
        Durable, PcMatchesOp, Exclusive, Saved, Loaded, InFlight
<1>1. TypeOK /\ Durable /\ Listed = stored \cup scopes /\ ~ Overlap
  BY PlainListed DEF Listed
<1>2. CASE UNCHANGED vars
  BY <1>1, <1>2 DEF vars
<1>3. CASE Next
  <2>1. CASE Open
    BY <1>1, <2>1 DEF Open
  <2>2. ASSUME NEW k \in Key, LoadSession(k) PROVE Durable'
    BY <1>1, <2>2 DEF LoadSession
  <2>3. CASE LoadDone
    BY <1>1, <2>3 DEF LoadDone
  <2>4. ASSUME NEW c \in Call, NEW k \in Key, NEW o \in {"chat", "session", "import"},
               Issue(c, o, k)
        PROVE Durable'
    BY <1>1, <2>4 DEF Issue
  <2>5. ASSUME NEW c \in Call, CallStep(c) PROVE Durable'
    <3>1. CASE Send(c) BY <1>1, <3>1 DEF Send
    <3>2. CASE GoTurn(c) BY <1>1, <3>2 DEF GoTurn
    <3>3. CASE ReadTerminal(c) BY <1>1, <3>3 DEF ReadTerminal
    <3>4. CASE PersistStart(c) BY <1>1, <3>4 DEF PersistStart, Acks
    <3>5. CASE GoExport(c) BY <1>1, <3>5 DEF GoExport
    <3>6. CASE GoCreate(c) BY <1>1, <3>6 DEF GoCreate
    <3>7. CASE GoImport(c) BY <1>1, <3>7 DEF GoImport
    <3>8. CASE Flush(c) BY <1>1, <3>8 DEF Flush, Acks, BeeOpen
    <3>9. CASE ChannelFail(c) BY <1>1, <3>9 DEF ChannelFail
    <3> QED BY <2>5, <3>1, <3>2, <3>3, <3>4, <3>5, <3>6, <3>7, <3>8, <3>9 DEF CallStep
  <2>6. ASSUME NEW c \in Call, Break(c) PROVE Durable'
    BY <1>1, <2>6 DEF Break
  <2>7. CASE Close
    BY <1>1, <2>7 DEF Close
  <2>8. ASSUME NEW k \in Key, CloseNext(k) PROVE Durable'
    BY <1>1, <2>8 DEF CloseNext
  <2>9. CASE GoExport(Closer)
    BY <1>1, <2>9 DEF GoExport
  <2>10. CASE CloseFlush
    BY <1>1, <2>10 DEF CloseFlush
  <2>11. CASE CloseFail
    BY <1>1, <2>11 DEF CloseFail
  <2>12. CASE CloseBee
    BY <1>1, <2>12 DEF CloseBee
  <2>13. CASE Exit
    BY <1>1, <2>13 DEF Exit, LoseTurns
  <2>14. CASE GoDies
    BY <1>1, <2>14 DEF GoDies, LoseTurns
  <2>15. CASE Crash
    BY <1>1, <2>15 DEF Crash, LoseTurns
  <2> HIDE DEF TypeOK, Durable, Active
  <2> QED BY <1>3, <2>1, <2>2, <2>3, <2>4, <2>5, <2>6, <2>7, <2>8,
             <2>9, <2>10, <2>11, <2>12, <2>13, <2>14, <2>15 DEF Next, InstanceStep, GoEof, Kill9
<1> QED BY <1>2, <1>3

\* A chat that reached done, an import and a session() that returned are in the bee and
\* listed from then on, through every close, crash, exit of the agent and reopen.
THEOREM AcknowledgedIsDurable ==
  ASSUME ~ Overlap, PlainKeys
  PROVE  Spec => []AckedInBee
<1>1. Init => Durable
  BY ConstantsAssumption DEF Init, Durable, PcMatchesOp, Exclusive, Saved, InFlight, Active, Persister
<1>2. TypeOK /\ Durable => AckedInBee
  BY PlainListed DEF TypeOK, Durable, Saved, AckedInBee, Listed
<1> QED
  BY <1>1, <1>2, DurableInductive, TypeCorrect, PTL DEF Spec

\* Whenever the instance is open, the agent has every acknowledged turn and import too.
THEOREM ReloadIsComplete ==
  ASSUME ~ Overlap, PlainKeys
  PROVE  Spec => []AgentRemembers
<1>1. Init => Durable
  BY ConstantsAssumption DEF Init, Durable, PcMatchesOp, Exclusive, Saved, InFlight, Active, Persister
<1>2. TypeOK /\ Durable => AgentRemembers
  BY DEF TypeOK, Durable, Saved, Loaded, AgentRemembers
<1> QED
  BY <1>1, <1>2, DurableInductive, TypeCorrect, PTL DEF Spec

=============================================================================
