------------------------------ MODULE MCRelay ------------------------------
(* Two forwarders that draw the same token, one that draws token 0, the     *)
(* token of a wiped payload, and PULL_RESPs of every kind between the       *)
(* acknowledgements.                                                        *)
EXTENDS Relay

Up(c, sock, type, t) == [from |-> <<c, sock>>, type |-> type, token |-> t]

MCUpMsgs == {Up(0, "push", "PUSH_DATA", 1), Up(1, "push", "PUSH_DATA", 1),
             Up(0, "pull", "TX_ACK", 2), Up(1, "pull", "PULL_DATA", 0)}

\* Two channels each, 200 kHz apart.
MCPlan == [c \in Conc |-> IF c = 0 THEN <<470300, 470500>>
                          ELSE <<470700, 470900>>]

\* A channel of each, the second window, one of neither, and no frequency.
MCRespFreqs == {500300, 500900, 505300, 510000, NoFreq}
=============================================================================
