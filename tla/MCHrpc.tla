------------------------------- MODULE MCHrpc -------------------------------
(* Instances of Hrpc for TLC. *)
EXTENDS Hrpc

\* Texts: none, one byte that is also a flags byte, and one too long for a one-byte length.
MCText == {<<>>, <<1>>, [i \in 1..253 |-> 2]}
MCData == {<<>>, <<3, 1>>}
\* A tool's input may also be too long for a two-byte length.
MCLong == [i \in 1..(256 * 256) |-> 7]

\* What a side's code can put in a field: a JavaScript optional may be null, a Go slice nil.
\* With MaxArrayLength = 2, an array of three elements is one that no reader takes.
FieldValues(s, f) ==
  IF f.kind = "text" THEN IF s = "js" /\ f.bit # 0 THEN MCText \cup {None} ELSE MCText
  ELSE IF f.name = "input" THEN MCData \cup {None, MCLong}
  ELSE IF f.kind = "data" THEN MCData \cup {None}
  ELSE IF f.kind = "texts" THEN {<<>>} \cup {<<a>> : a \in MCText}
                                \cup {<<a, b>> : a \in MCText, b \in MCText}
                                \cup {<<a, a, a>> : a \in MCText}
  ELSE IF f.kind = "flags" THEN {None}
  ELSE {Enum(s, f.kind)[i] : i \in DOMAIN Enum(s, f.kind)}

Flat(s, type) ==
  LET fs == Fields(s, type)
      M[i \in 0..Len(fs)] ==
        IF i = 0 THEN {<<>>}
        ELSE IF fs[i].kind = "flags" THEN M[i - 1]
        ELSE {[n \in DOMAIN m \cup {fs[i].name} |-> IF n = fs[i].name THEN v ELSE m[n]] :
                m \in M[i - 1], v \in FieldValues(s, fs[i])}
  IN M[Len(fs)]

MCValues(s, type) ==
  IF type = "toolCall"
    THEN {m \in Flat(s, type) : m.input = MCLong => m.callId = <<1>> /\ m.name = <<1>>}
  ELSE IF type # "stateBlob" THEN Flat(s, type)
  ELSE LET B == {b \in Flat(s, "sessionBlob") : Len(b.key) < 253}
       IN {[sessions |-> bs] : bs \in {<<>>} \cup {<<a>> : a \in B}
                                       \cup {<<a, b>> : a \in B, b \in B}
                                       \cup {<<a, a, a>> : a \in B}}
=============================================================================
