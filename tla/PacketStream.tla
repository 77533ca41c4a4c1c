---------------------------- MODULE PacketStream ----------------------------
(***************************************************************************)
(* What the socket layer promises its callers about one connection each:   *)
(* the packets Socket_putdatas accepted reach the wire whole and in the    *)
(* order they were accepted, and at most one of them is still unfinished.  *)
(***************************************************************************)
EXTENDS Naturals, Sequences

CONSTANTS Sockets, Packets

VARIABLES
    accepted,   \* accepted[s]: packets putdatas did not refuse
    finished    \* finished[s]: how many of them are completely on the wire

streamVars == <<accepted, finished>>

Init ==
    /\ accepted = [s \in Sockets |-> <<>>]
    /\ finished = [s \in Sockets |-> 0]

\* A packet is accepted only after all before it are finished; it may be
\* finished at once (TCPSOCKET_COMPLETE) or not (TCPSOCKET_INTERRUPTED).
Accept(s, p) ==
    /\ finished[s] = Len(accepted[s])
    /\ accepted' = [accepted EXCEPT ![s] = Append(@, p)]
    /\ finished' \in {finished, [finished EXCEPT ![s] = @ + 1]}

\* The unfinished packet is finished.
Finish(s) ==
    /\ finished[s] < Len(accepted[s])
    /\ finished' = [finished EXCEPT ![s] = @ + 1]
    /\ UNCHANGED accepted

Next == \E s \in Sockets : Finish(s) \/ \E p \in Packets : Accept(s, p)

Spec == Init /\ [][Next]_streamVars
=============================================================================
