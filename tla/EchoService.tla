---------------------------- MODULE EchoService ----------------------------
(***************************************************************************)
(* What the echo server promises one client: every chunk it sends comes    *)
(* back once, in the order of sending if the server answers one message at *)
(* a time, in any order otherwise.  When the connection ends, an ordered   *)
(* service has answered a prefix of what was sent.                         *)
(***************************************************************************)
EXTENDS Naturals, Sequences

VARIABLES
    ordered,       \* one message is answered at a time
    connected,     \* the server has not closed, the client has not aborted
    sent,          \* how many chunks the client has sent
    pending,       \* the chunks whose answer the client may still get
    received       \* the answers, oldest first

vars == <<ordered, connected, sent, pending, received>>

Init ==
    /\ ordered \in BOOLEAN
    /\ connected = TRUE
    /\ sent = 0 /\ pending = {} /\ received = <<>>

Send ==
    /\ connected
    /\ sent' = sent + 1
    /\ pending' = pending \cup {sent + 1}
    /\ UNCHANGED <<ordered, connected, received>>

Return(n) ==
    /\ ordered => \A m \in pending : n <= m
    /\ received' = Append(received, n)
    /\ pending' = pending \ {n}
    /\ UNCHANGED <<ordered, connected, sent>>

\* The end of the connection; some answers are still delivered.
Cut ==
    /\ connected' = FALSE
    /\ pending' \in SUBSET pending
    /\ ordered => \A n \in pending', m \in pending \ pending' : n < m
    /\ UNCHANGED <<ordered, sent, received>>

Next == Send \/ Cut \/ \E n \in pending : Return(n)

Spec == Init /\ [][Next]_vars
=============================================================================
