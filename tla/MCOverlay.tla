------------------------------ MODULE MCOverlay ------------------------------
(* Overlay for TLC, and a comment of the code as a property.               *)
EXTENDS Overlay

\* The node that fetches has room for every call, the other one may refuse.
MCMaxPeers == [n \in Nodes |-> IF n = Wanter THEN 3 ELSE 2]

\* Floodgate.h: "for each broadcast message M and for each peer P, we either send
\* M to P once (and only once), or receive M _from_ P".
ToldIsTrue ==
    \A n \in Nodes : \A c \in told[n] \cap Conn :
        e[c][n].state = "GOT_HELLO" => e[c][n].sent > 0 \/ e[c][n].took

=============================================================================
