----------------------------- MODULE ToolLedger -----------------------------
(***************************************************************************)
(* What a session promises about the tool calls its model asks for: a call *)
(* is issued, started at most once, and answered at most once - with what  *)
(* the tool said, or with "unknown" when nobody can tell.  An answer is    *)
(* final, and an answered call is never started.                           *)
(***************************************************************************)
EXTENDS Naturals

CONSTANT Calls        \* whatever identifies a call for good

VARIABLES issued, started, known, unknown

ledger == <<issued, started, known, unknown>>

answered == known \cup unknown

Init == issued = {} /\ started = {} /\ known = {} /\ unknown = {}

\* A response is accepted with all the calls it asks for.
Issue ==
    /\ issued' \subseteq Calls
    /\ issued \subseteq issued'
    /\ UNCHANGED <<started, known, unknown>>

Start(c) ==
    /\ c \in issued \ (started \cup answered)
    /\ started' = started \cup {c}
    /\ UNCHANGED <<issued, known, unknown>>

Learn(c) ==
    /\ c \in started \ answered
    /\ known' = known \cup {c}
    /\ UNCHANGED <<issued, started, unknown>>

Disown(c) ==
    /\ c \in issued \ answered
    /\ unknown' = unknown \cup {c}
    /\ UNCHANGED <<issued, started, known>>

Next == Issue \/ \E c \in issued : Start(c) \/ Learn(c) \/ Disown(c)

Spec == Init /\ [][Next]_ledger

=============================================================================
