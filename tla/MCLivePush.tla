----------------------------- MODULE MCLivePush -----------------------------
(* A stream of two channels beside the WebSocket hub and its client.  The    *)
(* channel of the hub has two publishers.                                    *)
EXTENDS LivePush

CONSTANTS s1, price, protocol, first, second

\* the stream asks for "protocol,price" and names no symbol
MCStreamChannels == [q \in {s1} \X {s1} |-> <<protocol, price>>]

MCHubChannels == <<protocol>>

MCTopic == [p \in Publishers |-> protocol]

MCMaxMessages == [p \in Publishers |-> IF p = first THEN 2 ELSE 1]
=============================================================================
