---------------------------- MODULE MCP2PTools ------------------------------
(* Instances of P2PTools for TLC. *)
EXTENDS P2PTools

CONSTANT topic

MCTopic    == {topic}
\* A key with a character beyond the class, as nearly every key of 52 characters has.
MCKey      == {{"y", "8"}}
MCMessage  == {[from |-> <<97>>, text |-> <<98, 99>>]}
\* "hi": 104 is more bytes than follow.
MCRawText  == {<<104, 105>>}
=============================================================================
