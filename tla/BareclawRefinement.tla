------------------------- MODULE BareclawRefinement --------------------------
(***************************************************************************)
(* Bareclaw implements DurableSessions, and what its two copies of a       *)
(* session have of each other, for every set of keys and calls.            *)
(***************************************************************************)
EXTENDS BareclawProofs

(* The copies hold content of their own session only: a step that changes the bee's is a
   step of that session's record. *)
Own(k)     == {c \in Call : key[c] = k /\ op[c] \in {"chat", "import"} /\ pc[c] # "idle"}
Putting(p) == pc[p] = "put" /\ (p \in Call => op[p] = "chat")

OwnContent ==
  /\ \A c \in Call : pc[c] = "idle" => op[c] = "none"
  /\ \A k \in Key : hist[k] \subseteq Own(k) /\ bee[k] \subseteq Own(k)
  /\ \A p \in Persister : Putting(p) => blob[p] \subseteq Own(key[p])

(* Histories, blobs in hand and the bee keep to their own session's turns. *)
LEMMA OwnContentInductive ==
  ASSUME TypeOK, Durable, OwnContent, [Next]_vars
  PROVE  OwnContent'
<1>1. TypeOK /\ Durable /\ OwnContent
  BY DEF Durable
<1> USE ConstantsAssumption DEF TypeOK, Persister, Active, inst, store, args, Durable, PcMatchesOp,
        InFlight, OwnContent, Own, Putting
<1>2. CASE UNCHANGED vars
  BY <1>1, <1>2 DEF vars
<1>3. CASE Next
  <2>1. CASE Open
    BY <1>1, <2>1, KeysListed DEF Open, Listed
  <2>2. ASSUME NEW k \in Key, LoadSession(k) PROVE OwnContent'
    BY <1>1, <2>2 DEF LoadSession
  <2>3. CASE LoadDone
    BY <1>1, <2>3 DEF LoadDone
  <2>4. ASSUME NEW c \in Call, NEW k \in Key, NEW o \in {"chat", "session", "import"},
               Issue(c, o, k)
        PROVE OwnContent'
    BY <1>1, <2>4 DEF Issue
  <2>5. ASSUME NEW c \in Call, CallStep(c) PROVE OwnContent'
    <3>1. CASE Send(c) BY <1>1, <3>1 DEF Send
    <3>2. CASE GoTurn(c) BY <1>1, <3>2 DEF GoTurn
    <3>3. CASE ReadTerminal(c) BY <1>1, <3>3 DEF ReadTerminal
    <3>4. CASE PersistStart(c) BY <1>1, <3>4 DEF PersistStart, Acks
    <3>5. CASE GoExport(c) BY <1>1, <3>5 DEF GoExport
    <3>6. CASE GoCreate(c) BY <1>1, <3>6 DEF GoCreate
    <3>7. CASE GoImport(c) BY <1>1, <3>7 DEF GoImport
    <3>8. CASE Flush(c) BY <1>1, <3>8 DEF Flush, Acks, BeeOpen
    <3>9. CASE ChannelFail(c) BY <1>1, <3>9 DEF ChannelFail
    <3> QED BY <2>5, <3>1, <3>2, <3>3, <3>4, <3>5, <3>6, <3>7, <3>8, <3>9 DEF CallStep
  <2>6. ASSUME NEW c \in Call, Break(c) PROVE OwnContent'
    BY <1>1, <2>6 DEF Break
  <2>7. CASE Close
    BY <1>1, <2>7 DEF Close
  <2>8. ASSUME NEW k \in Key, CloseNext(k) PROVE OwnContent'
    BY <1>1, <2>8 DEF CloseNext
  <2>9. CASE GoExport(Closer)
    BY <1>1, <2>9 DEF GoExport
  <2>10. CASE CloseFlush
    BY <1>1, <2>10 DEF CloseFlush
  <2>11. CASE CloseFail
    BY <1>1, <2>11 DEF CloseFail
  <2>12. CASE CloseBee
    BY <1>1, <2>12 DEF CloseBee
  <2>13. CASE Exit
    BY <1>1, <2>13 DEF Exit, LoseTurns
  <2>14. CASE GoDies
    BY <1>1, <2>14 DEF GoDies, LoseTurns
  <2>15. CASE Crash
    BY <1>1, <2>15 DEF Crash, LoseTurns
  <2> HIDE DEF TypeOK, OwnContent, Active
  <2> QED BY <1>3, <2>1, <2>2, <2>3, <2>4, <2>5, <2>6, <2>7, <2>8,
             <2>9, <2>10, <2>11, <2>12, <2>13, <2>14, <2>15 DEF Next, InstanceStep, GoEof, Kill9
<1> QED BY <1>2, <1>3

(* A blob about to be put is no older than the bee's, unless an import comes into it.  The
   blob was read from the agent's copy, which may have gone on since, so that the same must
   hold between the bee and the agent, and the agent must be ahead of the blob. *)
Follows(old, new) == old \subseteq new \/ \E c \in new \ old : op[c] = "import"

Ahead ==
  /\ \A k \in Key : k \notin stored => bee[k] = {}
  /\ \A k \in Key : Loaded(k) => Follows(bee[k], hist[k])
  /\ \A p \in Persister : Putting(p) => /\ blob[p] \subseteq hist[key[p]]
                                        /\ Follows(bee[key[p]], blob[p])
  /\ \A c \in Call : op[c] = "import" /\ Active(c) => c \notin bee[key[c]]

(* Without overlap, a loaded session's history keeps following what the bee has of it. *)
LEMMA AheadInductive ==
  ASSUME ~ Overlap, PlainKeys, TypeOK, Durable, OwnContent, Ahead, [Next]_vars
  PROVE  Ahead'
<1>1. /\ TypeOK /\ Durable /\ OwnContent /\ Ahead /\ ~ Overlap
     /\ Listed = stored \cup scopes
  BY PlainListed DEF TypeOK, Listed
<1> USE ConstantsAssumption DEF TypeOK, Persister, Active, inst, store, args, Durable, PcMatchesOp,
        Exclusive, InFlight, Loaded, OwnContent, Own, Putting, Ahead, Follows
<1>2. CASE UNCHANGED vars
  BY <1>1, <1>2 DEF vars
<1>3. CASE Next
  <2>1. CASE Open
    <3>1. \A p \in Persister : pc'[p] # "put"
      BY <1>1, <2>1 DEF Open
    <3>2. \A k \in Key : Loaded(k)' => bee'[k] = {}
      BY <1>1, <2>1 DEF Open
    <3>3. \A c \in Call : ~ Active(c)'
      BY <1>1, <2>1 DEF Open
    <3> QED BY <1>1, <2>1, <3>1, <3>2, <3>3 DEF Open
  <2>2. ASSUME NEW k \in Key, LoadSession(k) PROVE Ahead'
    BY <1>1, <2>2 DEF LoadSession
  <2>3. CASE LoadDone
    BY <1>1, <2>3 DEF LoadDone
  <2>4. ASSUME NEW c \in Call, NEW k \in Key, NEW o \in {"chat", "session", "import"},
               Issue(c, o, k)
        PROVE Ahead'
    <3>1. \A d \in Call : d # c => op'[d] = op[d] /\ key'[d] = key[d] /\ pc'[d] = pc[d]
      BY <1>1, <2>4 DEF Issue
    <3>2. /\ UNCHANGED <<phase, todo, hist, bee, stored>>
          /\ pc'[c] = "ready" /\ key'[Closer] = key[Closer] /\ pc'[Closer] = pc[Closer]
          /\ \A p \in Persister : p # c => blob'[p] = blob[p]
      BY <1>1, <2>4 DEF Issue
    <3>3. \A d \in Call : \A l \in Key : d \in hist[l] \cup bee[l] => d # c
      BY <1>1, <2>4 DEF Issue
    <3>4. \A l \in Key : hist[l] \subseteq Call /\ bee[l] \subseteq Call
      BY <1>1
    <3>5. \A l \in Key : Loaded(l)' => Follows(bee[l], hist[l])'
      BY <1>1, <3>1, <3>2, <3>3, <3>4
    <3>6. ASSUME NEW p \in Persister, Putting(p)'
          PROVE  blob'[p] \subseteq hist'[key'[p]] /\ Follows(bee[key[p]], blob[p])'
      <4>1. p # c /\ Putting(p) /\ key'[p] = key[p] /\ key[p] \in Key
        BY <1>1, <3>1, <3>2, <3>6
      <4>2. blob[p] \subseteq hist[key[p]] /\ Follows(bee[key[p]], blob[p])
        BY <1>1, <4>1
      <4> QED BY <3>1, <3>2, <3>3, <3>4, <4>1, <4>2
    <3>7. \A d \in Call : op'[d] = "import" /\ Active(d)' => d \notin bee'[key'[d]]
      BY <1>1, <2>4, <3>1, <3>2, <3>3 DEF Issue
    <3> QED BY <1>1, <3>2, <3>5, <3>6, <3>7
  <2>5. ASSUME NEW c \in Call, CallStep(c) PROVE Ahead'
    <3>1. CASE Send(c) BY <1>1, <3>1 DEF Send
    <3>2. CASE GoTurn(c) BY <1>1, <3>2 DEF GoTurn
    <3>3. CASE ReadTerminal(c) BY <1>1, <3>3 DEF ReadTerminal
    <3>4. CASE PersistStart(c) BY <1>1, <3>4 DEF PersistStart, Acks
    <3>5. CASE GoExport(c) BY <1>1, <3>5 DEF GoExport
    <3>6. CASE GoCreate(c) BY <1>1, <3>6 DEF GoCreate
    <3>7. CASE GoImport(c) BY <1>1, <3>7 DEF GoImport
    <3>8. CASE Flush(c) BY <1>1, <3>8 DEF Flush, Acks, BeeOpen
    <3>9. CASE ChannelFail(c) BY <1>1, <3>9 DEF ChannelFail
    <3> QED BY <2>5, <3>1, <3>2, <3>3, <3>4, <3>5, <3>6, <3>7, <3>8, <3>9 DEF CallStep
  <2>6. ASSUME NEW c \in Call, Break(c) PROVE Ahead'
    BY <1>1, <2>6 DEF Break
  <2>7. CASE Close
    BY <1>1, <2>7 DEF Close
  <2>8. ASSUME NEW k \in Key, CloseNext(k) PROVE Ahead'
    BY <1>1, <2>8 DEF CloseNext
  <2>9. CASE GoExport(Closer)
    BY <1>1, <2>9 DEF GoExport
  <2>10. CASE CloseFlush
    BY <1>1, <2>10 DEF CloseFlush
  <2>11. CASE CloseFail
    BY <1>1, <2>11 DEF CloseFail
  <2>12. CASE CloseBee
    BY <1>1, <2>12 DEF CloseBee
  <2>13. CASE Exit
    BY <1>1, <2>13 DEF Exit, LoseTurns
  <2>14. CASE GoDies
    BY <1>1, <2>14 DEF GoDies, LoseTurns
  <2>15. CASE Crash
    BY <1>1, <2>15 DEF Crash, LoseTurns
  <2> HIDE DEF TypeOK, Ahead, Active
  <2> QED BY <1>3, <2>1, <2>2, <2>3, <2>4, <2>5, <2>6, <2>7, <2>8,
             <2>9, <2>10, <2>11, <2>12, <2>13, <2>14, <2>15 DEF Next, InstanceStep, GoEof, Kill9
<1> QED BY <1>2, <1>3

-----------------------------------------------------------------------------
\* The initial state and every step of Bareclaw are one of DurableSessions, or change nothing
\* that it speaks of.
LEMMA RecordStep ==
  ASSUME ~ Overlap, PlainKeys, TypeOK, TypeOK', Durable, OwnContent, Ahead,
         OwnContent', AckedInBee', [Next]_vars
  PROVE  [Promised!Next]_(Promised!vars)
<1> DEFINE on == [c \in Call |-> key[c]]
<1>1. /\ TypeOK /\ Durable /\ OwnContent /\ Ahead /\ ~ Overlap
      /\ Listed = stored \cup scopes /\ Listed' = stored' \cup scopes'
  BY PlainListed DEF TypeOK, Listed
<1> USE ConstantsAssumption
<1>2. CASE UNCHANGED <<op, key, bee, stored, scopes, acked>>
  BY <1>1, <1>2 DEF Promised!vars
<1>3. ASSUME NEW c \in Call, NEW k \in Key, NEW o \in {"chat", "session", "import"},
             Issue(c, o, k)
      PROVE  Promised!Issue(c, o, k)
  <2>1. op[c] = "none" /\ UNCHANGED <<bee, Listed>>
    BY <1>1, <1>3 DEF Issue, OwnContent, store
  <2>2. op' = [op EXCEPT ![c] = o] /\ on' = [on EXCEPT ![c] = k]
    <3>1. key' = [key EXCEPT ![c] = k] /\ op' = [op EXCEPT ![c] = o]
      BY <1>3 DEF Issue
    <3>2. \A d \in Call : key'[d] = IF d = c THEN k ELSE key[d]
      BY <1>1, <3>1 DEF TypeOK, Persister
    <3> QED BY <3>1, <3>2
  <2>3. UNCHANGED acked
    BY <1>3 DEF Issue
  <2> QED BY <2>1, <2>2, <2>3 DEF Promised!Issue
<1>4. ASSUME NEW c \in Call, GoImport(c) PROVE [Promised!Next]_(Promised!vars)
  <2>1. UNCHANGED <<op, key, bee, stored, scopes>>
    BY <1>4 DEF GoImport, store, args
  <2>2. CASE UNCHANGED acked
    BY <1>2, <2>1, <2>2
  <2>3. CASE acked' = {d \in acked : key[d] # key[c] \/ op[d] = "session"}
    <3>1. op[c] = "import" /\ c \notin acked
      BY <1>1, <1>4 DEF GoImport, Durable, PcMatchesOp, Saved
    <3>2. acked' = {d \in acked : on[d] # on[c] \/ op[d] = "session"}
      BY <1>1, <2>3 DEF TypeOK
    <3>3. UNCHANGED <<op, on, bee, Listed>>
      BY <1>1, <2>1
    <3> QED BY <3>1, <3>2, <3>3 DEF Promised!Accept, Promised!Next
  <2> QED BY <1>4, <2>2, <2>3 DEF GoImport
<1>5. ASSUME NEW k \in Key, NEW new \in SUBSET Call, bee' = [bee EXCEPT ![k] = new],
             Follows(bee[k], new), UNCHANGED <<op, key>>, acked \subseteq acked',
             AckedInBee', OwnContent',
             Listed' \in {Listed, Listed \cup {k}}
      PROVE  Promised!Keep(k)
  <2>1. bee'[k] = new
    BY <1>1, <1>5 DEF TypeOK
  <2>2. \A c \in new : on[c] = k /\ op[c] \in {"chat", "import"}
    BY <1>5, <2>1 DEF OwnContent, Own
  <2>3. \A d \in acked : on[d] = k /\ op[d] # "session" => d \in new
    BY <1>1, <1>5, <2>1 DEF AckedInBee, TypeOK
  <2>4. Promised!Recorded(k, new)
    BY <1>5, <2>2, <2>3 DEF Promised!Recorded, Follows
  <2> QED BY <1>5, <2>4 DEF Promised!Keep
<1>6. ASSUME NEW c \in Call, Flush(c) PROVE [Promised!Next]_(Promised!vars)
  <2>1. CASE BeeOpen
    <3> DEFINE k == key[c]
    <3>1. /\ k \in Key /\ UNCHANGED <<op, key>>
          /\ acked' \in {acked, acked \cup {c}} /\ acked \subseteq acked'
          /\ Listed' = Listed \cup {k}
          /\ op[c] # "none"
      BY <1>1, <1>6, <2>1 DEF Flush, TypeOK, Persister, args
    <3>2. \E new \in SUBSET Call : bee' = [bee EXCEPT ![k] = new] /\ Follows(bee[k], new)
      <4>1. CASE op[c] = "session"
        <5>1. bee' = [bee EXCEPT ![k] = bee[k]] /\ bee[k] \in SUBSET Call
          BY <1>1, <1>6, <2>1, <3>1, <4>1 DEF Flush, TypeOK, OwnContent, Own
        <5> QED BY <5>1 DEF Follows
      <4>2. CASE op[c] = "chat"
        <5>1. bee' = [bee EXCEPT ![k] = blob[c]] /\ Putting(c)
          BY <1>1, <1>6, <2>1, <4>2 DEF Flush, Putting
        <5>2. blob[c] \in SUBSET Call /\ Follows(bee[k], blob[c])
          BY <1>1, <5>1 DEF OwnContent, Own, Ahead, Persister
        <5> QED BY <5>1, <5>2
      <4>3. CASE op[c] = "import"
        <5>1. bee' = [bee EXCEPT ![k] = {c}] /\ c \notin bee[k]
          BY <1>1, <1>6, <2>1, <4>3 DEF Flush, Durable, InFlight, Ahead, Active
        <5> QED BY <4>3, <5>1 DEF Follows
      <4> QED BY <1>1, <3>1, <4>1, <4>2, <4>3 DEF TypeOK
    <3>3. Promised!Keep(k)
      BY <1>5, <3>1, <3>2
    <3>4. CASE acked' = acked
      BY <3>1, <3>3, <3>4 DEF Promised!Next
    <3>5. CASE acked' = acked \cup {c}
      <4>1. on[c] \in Listed' /\ (op[c] # "session" => c \in bee'[on[c]])
        BY <3>1, <3>5 DEF AckedInBee
      <4>2. Promised!Return(c)
        BY <3>1, <3>3, <3>5, <4>1 DEF Promised!Return
      <4> QED BY <4>2 DEF Promised!Next
    <3> QED BY <3>1, <3>4, <3>5
  <2>2. CASE ~ BeeOpen
    BY <1>2, <1>6, <2>2 DEF Flush, store, args
  <2> QED BY <2>1, <2>2
<1>7. CASE CloseFlush
  <2> DEFINE k == key[Closer]
  <2>1. /\ k \in Key /\ UNCHANGED <<op, key, acked>> /\ Listed' = Listed \cup {k}
        /\ bee' = [bee EXCEPT ![k] = blob[Closer]] /\ Putting(Closer)
    BY <1>1, <1>7 DEF CloseFlush, TypeOK, Persister, args, Putting
  <2>2. blob[Closer] \in SUBSET Call /\ Follows(bee[k], blob[Closer])
    BY <1>1, <2>1 DEF OwnContent, Own, Ahead, Persister
  <2>3. Promised!Keep(k)
    BY <1>5, <2>1, <2>2
  <2> QED BY <2>1, <2>3 DEF Promised!Next
<1>8. CASE Next
  <2>1. ASSUME NEW c \in Call, CallStep(c) PROVE [Promised!Next]_(Promised!vars)
    <3>1. CASE PersistStart(c)
      BY <1>1, <1>2, <3>1 DEF PersistStart, Durable, Exclusive, Active, store, args
    <3>2. CASE Flush(c)
      BY <1>6, <3>2
    <3>3. CASE Send(c) \/ ReadTerminal(c) \/ ChannelFail(c) \/ GoTurn(c) \/ GoExport(c)
               \/ GoCreate(c)
      BY <1>2, <3>3 DEF Send, ReadTerminal, ChannelFail, GoTurn, GoExport, GoCreate, store, args
    <3>4. CASE GoImport(c)
      BY <1>4, <3>4
    <3> QED BY <2>1, <3>1, <3>2, <3>3, <3>4 DEF CallStep
  <2>2. ASSUME NEW c \in Call, NEW k \in Key, NEW o \in {"chat", "session", "import"},
               Issue(c, o, k)
        PROVE [Promised!Next]_(Promised!vars)
    BY <1>3, <2>2 DEF Promised!Next
  <2>3. ASSUME NEW k \in Key, LoadSession(k) \/ CloseNext(k)
        PROVE [Promised!Next]_(Promised!vars)
    <3>1. UNCHANGED <<op, [c \in Call |-> key[c]], bee, stored, scopes, acked>>
      BY <1>1, <2>3 DEF LoadSession, CloseNext, TypeOK, Persister, store, args
    <3> QED BY <1>1, <3>1 DEF Promised!vars
  <2>4. CASE \/ Open \/ LoadDone \/ GoExport(Closer) \/ CloseFail \/ CloseBee \/ Exit \/ GoDies
             \/ Close \/ Crash \/ \E c \in Call : Break(c)
    BY <1>2, <2>4 DEF Open, LoadDone, GoExport, CloseFail, CloseBee, Exit, GoDies, Close, Crash,
                      Break, store, args
  <2> QED BY <1>7, <1>8, <2>1, <2>2, <2>3, <2>4 DEF Next, InstanceStep, GoEof, Kill9
<1>9. CASE UNCHANGED vars
  BY <1>2, <1>9 DEF vars
<1> QED BY <1>8, <1>9

\* Used with one call at a time on a session, and with keys that are listed as themselves, the
\* instance is a durable record of each session: no restart, crash, failed step or close
\* shows in it.
THEOREM SessionsAreDurable ==
  ASSUME ~ Overlap, PlainKeys
  PROVE  Spec => ImplementsDurable
<1>1. Init => Durable /\ OwnContent /\ Ahead
  BY ConstantsAssumption
     DEF Init, Durable, PcMatchesOp, Exclusive, Saved, InFlight, OwnContent, Own, Putting, Ahead,
         Follows, Loaded, Active, Persister
<1>2. Init => Promised!Init
  BY ConstantsAssumption DEF Init, Promised!Init, Listed, Persister
<1>3. TypeOK /\ Durable => AckedInBee
  BY PlainListed DEF TypeOK, Durable, Saved, AckedInBee, Listed
<1> QED
  BY <1>1, <1>2, <1>3, TypeCorrect, DurableInductive, OwnContentInductive, AheadInductive,
     RecordStep, PTL DEF Spec, ImplementsDurable, Promised!Spec

\* What the abstract record may lose, an import comes into.
LEMMA OnlyImportsRemove ==
  ASSUME TypeOK, [Promised!Next]_(Promised!vars), NEW k \in Key
  PROVE  ImportedOn(k) \/ bee[k] \subseteq bee'[k]
<1>1. CASE UNCHANGED bee
  BY <1>1
<1>2. ASSUME NEW l \in Key \cup {None}, Promised!Keep(l)
      PROVE  ImportedOn(k) \/ bee[k] \subseteq bee'[k]
  <2>1. PICK new \in SUBSET Call : Promised!Recorded(l, new) /\ bee' = [bee EXCEPT ![l] = new]
    BY <1>2 DEF Promised!Keep
  <2>2. CASE l # k
    BY <2>1, <2>2 DEF TypeOK
  <2>3. CASE l = k
    BY <2>1, <2>3 DEF TypeOK, Promised!Recorded, ImportedOn
  <2> QED BY <2>2, <2>3
<1>3. ASSUME NEW c \in Call, Promised!Return(c) PROVE ImportedOn(k) \/ bee[k] \subseteq bee'[k]
  <2>1. key[c] \in Key \cup {None} /\ Promised!Keep(key[c])
    BY <1>3 DEF Promised!Return, TypeOK, Persister
  <2> QED BY <1>2, <2>1
<1>4. CASE Promised!Next
  BY <1>1, <1>2, <1>3, <1>4 DEF Promised!Next, Promised!Issue, Promised!Accept
<1> QED BY <1>1, <1>4 DEF Promised!vars

\* Without overlap on a session, and with keys listed as themselves, no step takes a turn out of
\* the bee but on a session that was imported: neither a late export nor the flush of _close,
\* nor a persist that follows a reload.
THEOREM TurnsStayInBee ==
  ASSUME ~ Overlap, PlainKeys
  PROVE  Spec => BeeNeverRegresses
<1>1. Init => Durable /\ OwnContent /\ Ahead
  BY ConstantsAssumption
     DEF Init, Durable, PcMatchesOp, Exclusive, Saved, InFlight, OwnContent, Own, Putting, Ahead,
         Follows, Loaded, Active, Persister
<1>2. TypeOK /\ Durable => AckedInBee
  BY PlainListed DEF TypeOK, Durable, Saved, AckedInBee, Listed
<1>3. TypeOK /\ [Promised!Next]_(Promised!vars)
      => \A k \in Key : ImportedOn(k) \/ bee[k] \subseteq bee'[k]
  BY OnlyImportsRemove
<1> QED
  BY <1>1, <1>2, <1>3, TypeCorrect, DurableInductive, OwnContentInductive, AheadInductive,
     RecordStep, PTL DEF Spec, BeeNeverRegresses

-----------------------------------------------------------------------------
(* While _close flushes, a listed session is still to come, in the loop's hands, or flushed;
   a blob in its hands falls behind the agent only by turns that were broken off. *)
Flushed(k) == bee[k] \subseteq hist[k] /\ hist[k] \subseteq bee[k] \cup Broken(k)

Flushes ==
  /\ phase \in {"flush", "shutdown", "closed"} =>
       \A k \in Listed : \/ phase = "flush" /\ k \in todo
                         \/ phase = "flush" /\ pc[Closer] # "idle" /\ key[Closer] = k
                         \/ Flushed(k)
  /\ pc[Closer] = "put" =>
       /\ blob[Closer] \subseteq hist[key[Closer]]
       /\ hist[key[Closer]] \subseteq blob[Closer] \cup Broken(key[Closer])

(* Without overlap, each listed session is flushed, being flushed or still to be. *)
LEMMA FlushesInductive ==
  ASSUME ~ Overlap, PlainKeys, TypeOK, TypeOK', Durable, Flushes, [Next]_vars
  PROVE  Flushes'
<1>1. /\ TypeOK /\ TypeOK' /\ Durable /\ Flushes /\ ~ Overlap
     /\ Listed = stored \cup scopes /\ Listed' = stored' \cup scopes'
  BY PlainListed DEF TypeOK, Listed
<1> USE ConstantsAssumption DEF TypeOK, Persister, Active, inst, store, args, Durable, PcMatchesOp,
        Exclusive, InFlight, Flushes, Flushed, Broken
<1>2. CASE UNCHANGED vars
  BY <1>1, <1>2 DEF vars
<1>3. CASE Next
  <2>1. CASE Open
    BY <1>1, <2>1 DEF Open
  <2>2. ASSUME NEW k \in Key, LoadSession(k) PROVE Flushes'
    BY <1>1, <2>2 DEF LoadSession
  <2>3. CASE LoadDone
    BY <1>1, <2>3 DEF LoadDone
  <2>4. ASSUME NEW c \in Call, NEW k \in Key, NEW o \in {"chat", "session", "import"},
               Issue(c, o, k)
        PROVE Flushes'
    BY <1>1, <2>4 DEF Issue
  <2>5. ASSUME NEW c \in Call, CallStep(c) PROVE Flushes'
    <3>1. CASE Send(c) BY <1>1, <3>1 DEF Send
    <3>2. CASE GoTurn(c) BY <1>1, <3>2 DEF GoTurn
    <3>3. CASE ReadTerminal(c) BY <1>1, <3>3 DEF ReadTerminal
    <3>4. CASE PersistStart(c) BY <1>1, <3>4 DEF PersistStart, Acks
    <3>5. CASE GoExport(c) BY <1>1, <3>5 DEF GoExport
    <3>6. CASE GoCreate(c) BY <1>1, <3>6 DEF GoCreate
    <3>7. CASE GoImport(c) BY <1>1, <3>7 DEF GoImport
    <3>8. CASE Flush(c) BY <1>1, <3>8 DEF Flush, Acks, BeeOpen
    <3>9. CASE ChannelFail(c) BY <1>1, <3>9 DEF ChannelFail
    <3> QED BY <2>5, <3>1, <3>2, <3>3, <3>4, <3>5, <3>6, <3>7, <3>8, <3>9 DEF CallStep
  <2>6. ASSUME NEW c \in Call, Break(c) PROVE Flushes'
    BY <1>1, <2>6 DEF Break
  <2>7. CASE Close
    BY <1>1, <2>7 DEF Close
  <2>8. ASSUME NEW k \in Key, CloseNext(k) PROVE Flushes'
    BY <1>1, <2>8 DEF CloseNext
  <2>9. CASE GoExport(Closer)
    BY <1>1, <2>9 DEF GoExport
  <2>10. CASE CloseFlush
    BY <1>1, <2>10 DEF CloseFlush
  <2>11. CASE CloseFail
    BY <1>1, <2>11 DEF CloseFail
  <2>12. CASE CloseBee
    BY <1>1, <2>12 DEF CloseBee
  <2>13. CASE Exit
    BY <1>1, <2>13 DEF Exit, LoseTurns
  <2>14. CASE GoDies
    BY <1>1, <2>14 DEF GoDies, LoseTurns
  <2>15. CASE Crash
    BY <1>1, <2>15 DEF Crash, LoseTurns
  <2> HIDE DEF TypeOK, Flushes, Active
  <2> QED BY <1>3, <2>1, <2>2, <2>3, <2>4, <2>5, <2>6, <2>7, <2>8,
             <2>9, <2>10, <2>11, <2>12, <2>13, <2>14, <2>15 DEF Next, InstanceStep, GoEof, Kill9
<1> QED BY <1>2, <1>3

\* A close that resolved has left every listed session's final history in the bee, save turns
\* that their callers broke off.
THEOREM CloseIsComplete ==
  ASSUME ~ Overlap, PlainKeys
  PROVE  Spec => []CloseFlushedAll
<1>1. Init => Durable /\ Flushes
  BY ConstantsAssumption DEF Init, Durable, PcMatchesOp, Exclusive, Saved, InFlight, Flushes,
                             Active, Persister
<1>2. Flushes => CloseFlushedAll
  BY DEF Flushes, Flushed, CloseFlushedAll
<1> QED
  BY <1>1, <1>2, TypeCorrect, DurableInductive, FlushesInductive, PTL DEF Spec

-----------------------------------------------------------------------------
(* The same of overlapping calls, for sessions without imports: the agent's copy only grows
   between two opens, so that a blob read from it stays behind it however late it is put. *)
Behind ==
  /\ PcMatchesOp
  /\ \A c \in Call : pc[c] = "idle" => op[c] = "none"
  /\ phase \in {"load", "openFailed"} => \A c \in Call : Active(c) => pc[c] = "ready"
  /\ phase = "down" => \A c \in Call : ~ Active(c)
  /\ phase # "flush" => pc[Closer] = "idle"
  /\ \A k \in Key :
       \/ ImportedOn(k)
       \/ /\ Loaded(k) /\ k \in stored => bee[k] \subseteq hist[k]
          /\ \A p \in Persister : Putting(p) /\ key[p] = k => blob[p] \subseteq hist[k]

(* The bee stays behind the agent's history, unless an import wrote it. *)
LEMMA BehindInductive ==
  ASSUME PlainKeys, TypeOK, Behind, [Next]_vars
  PROVE  Behind'
<1>1. /\ TypeOK /\ Behind
     /\ Listed = stored \cup scopes
  BY PlainListed DEF TypeOK, Listed
<1> USE ConstantsAssumption DEF TypeOK, Persister, Active, inst, store, args, PcMatchesOp,
        Behind, Loaded, Putting, ImportedOn
<1>2. CASE UNCHANGED vars
  BY <1>1, <1>2 DEF vars
<1>3. CASE Next
  <2>1. CASE Open
    BY <1>1, <2>1, KeysListed DEF Open, Listed
  <2>2. ASSUME NEW k \in Key, LoadSession(k) PROVE Behind'
    BY <1>1, <2>2 DEF LoadSession
  <2>3. CASE LoadDone
    BY <1>1, <2>3 DEF LoadDone
  <2>4. ASSUME NEW c \in Call, NEW k \in Key, NEW o \in {"chat", "session", "import"},
               Issue(c, o, k)
        PROVE Behind'
    BY <1>1, <2>4 DEF Issue
  <2>5. ASSUME NEW c \in Call, CallStep(c) PROVE Behind'
    <3>1. CASE Send(c) BY <1>1, <3>1 DEF Send
    <3>2. CASE GoTurn(c) BY <1>1, <3>2 DEF GoTurn
    <3>3. CASE ReadTerminal(c) BY <1>1, <3>3 DEF ReadTerminal
    <3>4. CASE PersistStart(c) BY <1>1, <3>4 DEF PersistStart, Acks
    <3>5. CASE GoExport(c) BY <1>1, <3>5 DEF GoExport
    <3>6. CASE GoCreate(c) BY <1>1, <3>6 DEF GoCreate
    <3>7. CASE GoImport(c) BY <1>1, <3>7 DEF GoImport
    <3>8. CASE Flush(c) BY <1>1, <3>8 DEF Flush, Acks, BeeOpen
    <3>9. CASE ChannelFail(c) BY <1>1, <3>9 DEF ChannelFail
    <3> QED BY <2>5, <3>1, <3>2, <3>3, <3>4, <3>5, <3>6, <3>7, <3>8, <3>9 DEF CallStep
  <2>6. ASSUME NEW c \in Call, Break(c) PROVE Behind'
    BY <1>1, <2>6 DEF Break
  <2>7. CASE Close
    BY <1>1, <2>7 DEF Close
  <2>8. ASSUME NEW k \in Key, CloseNext(k) PROVE Behind'
    BY <1>1, <2>8 DEF CloseNext
  <2>9. CASE GoExport(Closer)
    BY <1>1, <2>9 DEF GoExport
  <2>10. CASE CloseFlush
    BY <1>1, <2>10 DEF CloseFlush
  <2>11. CASE CloseFail
    BY <1>1, <2>11 DEF CloseFail
  <2>12. CASE CloseBee
    BY <1>1, <2>12 DEF CloseBee
  <2>13. CASE Exit
    BY <1>1, <2>13 DEF Exit, LoseTurns
  <2>14. CASE GoDies
    BY <1>1, <2>14 DEF GoDies, LoseTurns
  <2>15. CASE Crash
    BY <1>1, <2>15 DEF Crash, LoseTurns
  <2> HIDE DEF TypeOK, Behind, Active
  <2> QED BY <1>3, <2>1, <2>2, <2>3, <2>4, <2>5, <2>6, <2>7, <2>8,
             <2>9, <2>10, <2>11, <2>12, <2>13, <2>14, <2>15 DEF Next, InstanceStep, GoEof, Kill9
<1> QED BY <1>2, <1>3

\* Whatever calls overlap each other and a close, an open agent has what the bee has.
THEOREM AgentNeverBehind ==
  ASSUME PlainKeys
  PROVE  Spec => []BeeBehindAgent
<1>1. Init => Behind
  BY ConstantsAssumption DEF Init, PcMatchesOp, Behind, Loaded, Putting, Active, Persister
<1>2. TypeOK /\ Behind => BeeBehindAgent
  BY DEF TypeOK, Behind, Loaded, BeeBehindAgent
<1> QED
  BY <1>1, <1>2, TypeCorrect, BehindInductive, PTL DEF Spec

==============================================================================
