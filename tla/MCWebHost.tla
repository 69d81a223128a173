----------------------------- MODULE MCWebHost ------------------------------
(* Two messages of one browser session, and a session of a conversation    *)
(* with a command and a cached reply.                                      *)
EXTENDS WebHost

CONSTANTS a, b, chat, m1, m2, m3, m4

MCRootOf == [m \in Rows |-> IF m \in {m1, m2} THEN a ELSE b]
MCChatOf == [m \in Rows |-> IF m \in {m1, m2} THEN NoChat ELSE chat]
MCKindOf == [m \in Rows |-> CASE m = m2 -> "skill"
                              [] m = m3 -> "compact"
                              [] m = m4 -> "ack"
                              [] OTHER -> "input"]
=============================================================================
