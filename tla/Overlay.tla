------------------------------- MODULE Overlay -------------------------------
(***************************************************************************)
(* Two nodes that connect to each other (overlay/OverlayManagerImpl.cpp,   *)
(* PeerDoor.cpp, TCPPeer.cpp, Peer.cpp, PeerRecord.cpp), flood one         *)
(* transaction over the connections (Floodgate.cpp) and let one of them    *)
(* fetch a transaction set from the other (ItemFetcher.cpp).               *)
(*                                                                         *)
(* A connection has two ends, one Peer object at each node.  What a node   *)
(* sends is on the wire until the other one reads it.  drop() only marks   *)
(* the Peer; the shutdown it posts closes the socket and takes the Peer    *)
(* off the list later.  A connection whose two ends are gone is forgotten  *)
(* and its name used again.                                                *)
(***************************************************************************)
EXTENDS Integers, Sequences, SequencesExt, FiniteSets

CONSTANTS
    Nodes,       \* two
    Origin,      \* the node the transaction is submitted to
    Wanter,      \* the node that fetches the set; the other one will have it
    MaxConns,    \* bound: connections at a time
    Target,      \* TARGET_PEER_CONNECTIONS
    MaxPeers,    \* per node: MAX_PEER_CONNECTIONS
    MaxWire,     \* bound: unread messages of a connection when the fetcher's timer expires
    MaxFaults    \* bound: timeouts, refused connects, questions before HELLO

ASSUME OverlayAssumption ==
    /\ IsFiniteSet(Nodes) /\ Cardinality(Nodes) = 2 /\ {Origin, Wanter} \subseteq Nodes
    /\ "none" \notin Nodes
    /\ {MaxConns, Target, MaxWire, MaxFaults} \subseteq Nat
    /\ MaxPeers \in [Nodes -> Nat \ {0}]

Conn == 1 .. MaxConns
Other(n) == CHOOSE m \in Nodes : m # n
Message == {"HELLO", "PEERS", "GET_TX_SET", "TX_SET", "DONT_HAVE", "TRANSACTION", "EOF"}
NoRecord == {0}
NoConn == 0

VARIABLES
    dialer,   \* per connection: the node that called, or "none"
    e,        \* the ends: [Conn -> [Nodes -> End]]
    mPeers,   \* per node: its list of connections
    record,   \* per node: the other's PeerRecord, by what nextAttempt says
    has,      \* the nodes whose Herder took the transaction
    told,     \* per node: the flood record's mPeersTold, or NoRecord
    cached,   \* the nodes whose fetcher has the set
    tracker,  \* the Wanter's: mPeersAsked and mLastAskedPeer
    faults

vars == <<dialer, e, mPeers, record, has, told, cached, tracker, faults>>

End == [
    state  : {"none", "CONNECTING", "CONNECTED", "GOT_HELLO", "CLOSING"},
    port   : BOOLEAN,       \* mRemoteListeningPort is known
    dial   : BOOLEAN,       \* async_connect has not reported
    open   : BOOLEAN,       \* the socket was not closed
    posted : BOOLEAN,       \* drop's shutdown is in the io_service's queue
    wire   : Seq(Message),  \* sent to this end, not read
    sent   : 0 .. 2,        \* how often the transaction was sent from this end
    took   : BOOLEAN,       \* the Herder took the transaction from this end
    early  : BOOLEAN]       \* asked for the set before HELLO
NoEnd == [state |-> "none", port |-> FALSE, dial |-> FALSE, open |-> TRUE, posted |-> FALSE,
          wire |-> <<>>, sent |-> 0, took |-> FALSE, early |-> FALSE]

-----------------------------------------------------------------------------
(* What handlers do to the ends, as functions of them.                     *)

send(f, c, n, msgs) ==
    IF f[c][n].open /\ f[c][Other(n)].open
    THEN [f EXCEPT ![c][Other(n)].wire = @ \o msgs] ELSE f

drop(f, c, n) ==
    IF f[c][n].state = "CLOSING" THEN f
    ELSE [f EXCEPT ![c][n].state = "CLOSING", ![c][n].posted = TRUE]

Listed(n) == {mPeers[n][i] : i \in DOMAIN mPeers[n]}

\* Floodgate::broadcast, not forced: those the record does not name, if they
\* said HELLO.  A new record names everyone connected, said HELLO or not.
\* Deviations: those told are sent it again; it is sent before HELLO.
receiversForgetful(n) == {c \in Listed(n) : e[c][n].state = "GOT_HELLO"}
receiversUnheard(n) == Listed(n) \ (told[n] \ NoRecord)
receivers(n) == {c \in Listed(n) \ (told[n] \ NoRecord) : e[c][n].state = "GOT_HELLO"}

broadcast(f, n, to) ==
    [c \in Conn |-> IF c \in to
                    THEN send([f EXCEPT ![c][n].sent = IF @ = 2 THEN 2 ELSE @ + 1],
                              c, n, <<"TRANSACTION">>)[c]
                    ELSE f[c]]
\* Deviation: the names are added to the mark of no record.
toldAfterKept(n, to) == told[n] \cup Listed(n) \cup to
toldAfter(n, to) == IF told[n] = NoRecord THEN Listed(n) ELSE told[n] \cup to

-----------------------------------------------------------------------------
(* Connecting.                                                             *)

\* getConnectedPeer: the port of one who called is unknown until its HELLO.
getConnectedPeer(n) == {c \in Listed(n) : e[c][n].port}

\* tick, connectToMorePeers, connectTo and TCPPeer::initiate.
tick(n) ==
    /\ Len(mPeers[n]) < Target
    /\ record[n] = "ready"
    /\ getConnectedPeer(n) = {}
    /\ \E c \in Conn :
          /\ dialer[c] = "none" /\ \A d \in 1 .. c - 1 : dialer[d] # "none"
          /\ dialer' = [dialer EXCEPT ![c] = n]
          /\ e' = [e EXCEPT ![c][n].state = "CONNECTING", ![c][n].port = TRUE,
                            ![c][n].dial = TRUE]
          /\ mPeers' = [mPeers EXCEPT ![n] = Append(@, c)]
    /\ record' = [record EXCEPT ![n] = "waiting"]
    /\ UNCHANGED <<has, told, cached, tracker, faults>>

\* The time of the next attempt comes.
backOffEnds(n) ==
    /\ record[n] = "waiting"
    /\ record' = [record EXCEPT ![n] = "ready"]
    /\ UNCHANGED <<dialer, e, mPeers, has, told, cached, tracker, faults>>

\* connectHandler does not look at the state drop() may have set.
connected(c) ==
    LET n == dialer[c] IN
    /\ n \in Nodes
    /\ e[c][n].dial /\ e[c][n].open
    /\ e' = send([e EXCEPT ![c][n].dial = FALSE, ![c][n].state = "CONNECTED"],
                 c, n, <<"HELLO">>)
    /\ UNCHANGED <<dialer, mPeers, record, has, told, cached, tracker, faults>>

connectFails(c) ==
    LET n == dialer[c] IN
    /\ n \in Nodes
    /\ e[c][n].dial /\ e[c][n].open
    /\ e[c][Other(n)].state = "none"
    /\ faults < MaxFaults
    /\ faults' = faults + 1
    /\ e' = drop([e EXCEPT ![c][n].dial = FALSE], c, n)
    /\ UNCHANGED <<dialer, mPeers, record, has, told, cached, tracker>>

\* PeerDoor::handleKnock.  A caller that gave up before is not accepted.
\* Deviation: the new Peer is not put on the list.
handleKnockUnlisted(c) ==
    LET n == Other(dialer[c]) IN
    /\ dialer[c] \in Nodes
    /\ e[c][n].state = "none"
    /\ e[c][dialer[c]].open /\ e[c][dialer[c]].state # "CLOSING"
    /\ e' = [e EXCEPT ![c][n].state = "CONNECTED"]
    /\ UNCHANGED <<dialer, mPeers, record, has, told, cached, tracker, faults>>
handleKnock(c) ==
    LET n == Other(dialer[c]) IN
    /\ dialer[c] \in Nodes
    /\ e[c][n].state = "none"
    /\ e[c][dialer[c]].open /\ e[c][dialer[c]].state # "CLOSING"
    /\ e' = [e EXCEPT ![c][n].state = "CONNECTED"]
    /\ mPeers' = [mPeers EXCEPT ![n] = Append(@, c)]
    /\ UNCHANGED <<dialer, record, has, told, cached, tracker, faults>>

-----------------------------------------------------------------------------
(* Messages: the handlers of Peer::recvMessage.  f is e with the message   *)
(* taken off the wire.                                                     *)

Reading(c, n) == e[c][n].open /\ e[c][n].state \in {"CONNECTED", "GOT_HELLO"}
Read(c, n) == [e EXCEPT ![c][n].wire = Tail(@)]

Receives(c, n, type) ==
    /\ Reading(c, n)
    /\ e[c][n].wire # <<>>
    /\ Head(e[c][n].wire) = type
    /\ type \notin {"HELLO", "PEERS", "EOF"} => e[c][n].state = "GOT_HELLO"

recvBeforeHello(c, n) ==
    /\ Reading(c, n)
    /\ e[c][n].wire # <<>>
    /\ Head(e[c][n].wire) \notin {"HELLO", "PEERS", "EOF"}
    /\ e[c][n].state = "CONNECTED"
    /\ e' = drop(Read(c, n), c, n)
    /\ UNCHANGED <<dialer, mPeers, record, has, told, cached, tracker, faults>>

\* isPeerAccepted: the new Peer is on the list already, and nobody is preferred:
\* storePeerList stores every peer with rank 1.
\* Deviations: the limit itself is accepted; the other limit is used.
isPeerAcceptedAtLimit(n) == Len(mPeers[n]) <= MaxPeers[n]
isPeerAcceptedTarget(n) == Len(mPeers[n]) < Target
isPeerAccepted(n) == Len(mPeers[n]) < MaxPeers[n]

\* recvHello of the node that called, which forgets its failures, ...
recvHelloBack(c, n) ==
    /\ dialer[c] = n
    /\ Receives(c, n, "HELLO")
    /\ e' = [Read(c, n) EXCEPT ![c][n].state = "GOT_HELLO"]
    /\ record' = [record EXCEPT ![n] = "ready"]
    /\ UNCHANGED <<dialer, mPeers, has, told, cached, tracker, faults>>

\* ... and of the one that was called.
recvHello(c, n) ==
    LET f == [Read(c, n) EXCEPT ![c][n].state = "GOT_HELLO", ![c][n].port = TRUE] IN
    /\ dialer[c] = Other(n)
    /\ Receives(c, n, "HELLO")
    /\ e' = IF isPeerAccepted(n) THEN send(f, c, n, <<"HELLO", "PEERS">>)
                                 ELSE drop(send(f, c, n, <<"PEERS">>), c, n)
    /\ record' = [record EXCEPT ![n] = IF @ = "unknown" THEN "ready" ELSE @]
    /\ UNCHANGED <<dialer, mPeers, has, told, cached, tracker, faults>>

\* insertIfNew: the one that called has the record already.
recvPeers(c, n) ==
    /\ Receives(c, n, "PEERS")
    /\ e' = Read(c, n)
    /\ UNCHANGED <<dialer, mPeers, record, has, told, cached, tracker, faults>>

recvGetTxSet(c, n) ==
    /\ Receives(c, n, "GET_TX_SET")
    /\ e' = send(Read(c, n), c, n, IF n \in cached THEN <<"TX_SET">> ELSE <<"DONT_HAVE">>)
    /\ UNCHANGED <<dialer, mPeers, record, has, told, cached, tracker, faults>>

recvTxSet(c, n) ==
    /\ Receives(c, n, "TX_SET")
    /\ e' = Read(c, n)
    /\ cached' = cached \cup {n}
    /\ tracker' = [asked |-> <<>>, last |-> NoConn]
    /\ UNCHANGED <<dialer, mPeers, record, has, told, faults>>

\* Only a transaction the Herder takes is recorded as received.
recvTransaction(c, n) ==
    /\ Receives(c, n, "TRANSACTION")
    /\ IF n \in has THEN e' = Read(c, n) /\ UNCHANGED <<has, told>>
       ELSE LET f == [Read(c, n) EXCEPT ![c][n].took = TRUE]
                record1 == (told[n] \ NoRecord) \cup {c}
                to == {d \in Listed(n) \ record1 : e[d][n].state = "GOT_HELLO"}
            IN  /\ has' = has \cup {n}
                /\ e' = broadcast(f, n, to)
                /\ told' = [told EXCEPT ![n] = record1 \cup to]
    /\ UNCHANGED <<dialer, mPeers, record, cached, tracker, faults>>

\* The other end closed, or an operation on a closed socket reports.
recvEOF(c, n) ==
    /\ Receives(c, n, "EOF")
    /\ e' = drop(Read(c, n), c, n)
    /\ UNCHANGED <<dialer, mPeers, record, has, told, cached, tracker, faults>>

ioError(c, n) ==
    /\ ~e[c][n].open
    /\ e[c][n].state \notin {"none", "CLOSING"}
    /\ e' = drop(e, c, n)
    /\ UNCHANGED <<dialer, mPeers, record, has, told, cached, tracker, faults>>

\* timeoutRead, timeoutWrite: nothing is timed before the first read or write,
\* and the first write may be a question before HELLO, counted when asked.
timeout(c, n) ==
    LET counted == e[c][n].state = "CONNECTING" IN
    /\ e[c][n].state \notin {"none", "CLOSING"}
    /\ counted => e[c][n].early
    /\ counted \/ faults < MaxFaults
    /\ faults' = IF counted THEN faults ELSE faults + 1
    /\ e' = drop(e, c, n)
    /\ UNCHANGED <<dialer, mPeers, record, has, told, cached, tracker>>

\* dropPeer's find and erase.
Erase(list, c) ==
    IF \E i \in DOMAIN list : list[i] = c
    THEN RemoveAt(list, CHOOSE i \in DOMAIN list : list[i] = c)
    ELSE list

\* The shutdown drop() posted.  What the other end has not read may be lost.
Gone(end) == end.state \in {"none", "CLOSING"} /\ ~end.posted /\ (end.state = "none" \/ ~end.open)
shutdown(c, n) ==
    LET o == Other(n)
        closed == [e EXCEPT ![c][n].posted = FALSE, ![c][n].open = FALSE, ![c][n].dial = FALSE,
                            ![c][n].wire = <<>>]
    IN  /\ e[c][n].posted
        /\ mPeers' = [mPeers EXCEPT ![n] = Erase(@, c)]
        /\ IF Gone(closed[c][n]) /\ Gone(closed[c][o])
           THEN /\ e' = [e EXCEPT ![c] = [m \in Nodes |-> NoEnd]]
                /\ dialer' = [dialer EXCEPT ![c] = "none"]
                /\ told' = [m \in Nodes |-> told[m] \ {c}]
                /\ tracker' = [asked |-> Erase(tracker.asked, c),
                               last |-> IF tracker.last = c THEN NoConn ELSE tracker.last]
           ELSE /\ \E lost \in BOOLEAN :
                      e' = IF ~closed[c][o].open THEN closed
                           ELSE [closed EXCEPT ![c][o].wire = IF lost THEN <<"EOF">>
                                                              ELSE Append(@, "EOF")]
                /\ UNCHANGED <<dialer, told, tracker>>
        /\ UNCHANGED <<record, has, cached, faults>>

-----------------------------------------------------------------------------
(* Flooding and fetching.                                                  *)

\* A transaction is submitted to a node, or sent again after a ledger closed
\* without it (HerderImpl::valueExternalized).
broadcastMessage(n) ==
    /\ n \in has \cup {Origin}
    /\ told[n] # NoRecord => receivers(n) # {}
    /\ has' = has \cup {n}
    /\ e' = broadcast(e, n, receivers(n))
    /\ told' = [told EXCEPT ![n] = toldAfter(n, receivers(n))]
    /\ UNCHANGED <<dialer, mPeers, record, cached, tracker, faults>>

\* The other node gets the set.
cache ==
    /\ Other(Wanter) \notin cached
    /\ cached' = cached \cup {Other(Wanter)}
    /\ UNCHANGED <<dialer, e, mPeers, record, has, told, tracker, faults>>

\* getNextPeer.
getNextPeer(c) ==
    LET list == mPeers[Wanter]
        i == CHOOSE j \in DOMAIN list : list[j] = c
    IN  IF i = Len(list) THEN list[1] ELSE list[i + 1]

\* mPeersAsked without those at its end that are no longer connected.
StillAsked ==
    LET keep == {i \in DOMAIN tracker.asked : tracker.asked[i] \in Listed(Wanter)}
    IN  SubSeq(tracker.asked, 1, CHOOSE i \in keep \cup {0} : \A j \in keep : j <= i)

\* Whom tryNextPeer asks: nobody when all were asked.
Candidates ==
    IF tracker.asked = <<>> THEN Listed(Wanter)
    ELSE IF StillAsked = <<>> THEN {}
    ELSE {getNextPeer(Last(StillAsked))} \ {StillAsked[i] : i \in DOMAIN StillAsked}

\* Tracker::tryNextPeer; f is what e is before it asks.  The Peer it asks may
\* not have said HELLO, or not even be connected.
tryNextPeer(f) ==
    \/ /\ Candidates = {}
       /\ tracker' = [tracker EXCEPT !.asked = <<>>]
       /\ e' = f
       /\ UNCHANGED faults
    \/ \E c \in Candidates :
          LET late == f[c][Wanter].state = "GOT_HELLO" IN
          /\ late \/ faults < MaxFaults
          /\ faults' = IF late THEN faults ELSE faults + 1
          /\ e' = send([f EXCEPT ![c][Wanter].early = @ \/ ~late], c, Wanter, <<"GET_TX_SET">>)
          /\ tracker' = [asked |-> Append(StillAsked, c), last |-> c]

\* Deviation: asking a Peer does not set the timer again.
FetchingOnce == Wanter \notin cached /\ tracker.last = NoConn
Fetching == Wanter \notin cached

fetchTimer ==
    /\ Fetching
    /\ \A c \in Conn : Len(e[c][Wanter].wire) + Len(e[c][Other(Wanter)].wire) < MaxWire
    /\ tryNextPeer(e)
    /\ UNCHANGED <<dialer, mPeers, record, has, told, cached>>

\* Tracker::doesntHave.
recvDontHave(c, n) ==
    /\ n = Wanter
    /\ Receives(c, n, "DONT_HAVE")
    /\ IF Fetching /\ tracker.last = c THEN tryNextPeer(Read(c, Wanter))
       ELSE e' = Read(c, Wanter) /\ UNCHANGED <<tracker, faults>>
    /\ UNCHANGED <<dialer, mPeers, record, has, told, cached>>

-----------------------------------------------------------------------------

Init ==
    /\ dialer = [c \in Conn |-> "none"]
    /\ e = [c \in Conn |-> [n \in Nodes |-> NoEnd]]
    /\ mPeers = [n \in Nodes |-> <<>>]
    /\ record \in [Nodes -> {"unknown", "ready"}]
    /\ \E n \in Nodes : record[n] = "ready"
    /\ has = {}
    /\ told = [n \in Nodes |-> NoRecord]
    /\ cached = {}
    /\ tracker = [asked |-> <<>>, last |-> NoConn]
    /\ faults = 0

Handler(c, n) ==
    \/ recvBeforeHello(c, n) \/ recvHelloBack(c, n) \/ recvHello(c, n) \/ recvPeers(c, n)
    \/ recvGetTxSet(c, n) \/ recvTxSet(c, n) \/ recvDontHave(c, n) \/ recvTransaction(c, n)
    \/ recvEOF(c, n) \/ ioError(c, n) \/ shutdown(c, n)

Next ==
    \/ \E n \in Nodes : tick(n) \/ backOffEnds(n) \/ broadcastMessage(n)
    \/ \E c \in Conn : connected(c) \/ connectFails(c) \/ handleKnock(c)
    \/ \E c \in Conn, n \in Nodes : Handler(c, n) \/ timeout(c, n)
    \/ cache
    \/ fetchTimer

\* The io_service runs what is queued and the timers expire; TCP connects and
\* delivers; the other node gets the set.
Fairness ==
    /\ \A n \in Nodes : WF_vars(tick(n) \/ backOffEnds(n))
    /\ \A c \in Conn : WF_vars(connected(c)) /\ WF_vars(handleKnock(c))
    /\ \A c \in Conn, n \in Nodes : WF_vars(Handler(c, n))
    /\ WF_vars(cache)
    /\ WF_vars(fetchTimer)

Spec == Init /\ [][Next]_vars /\ Fairness

-----------------------------------------------------------------------------
(* Properties.                                                             *)

\* The variables have the types their declarations allow.
TypeOK ==
    /\ dialer \in [Conn -> Nodes \cup {"none"}]
    /\ e \in [Conn -> [Nodes -> End]]
    /\ mPeers \in [Nodes -> Seq(Conn)]
    /\ record \in [Nodes -> {"unknown", "ready", "waiting"}]
    /\ has \subseteq Nodes /\ cached \subseteq Nodes
    /\ told \in [Nodes -> (SUBSET Conn) \cup {NoRecord}]
    /\ tracker \in [asked : Seq(Conn), last : Conn \cup {NoConn}]
    /\ faults \in 0 .. MaxFaults

\* A Peer with an open socket is on the list once, so that it counts against the
\* limit and gets what is flooded, whatever raced with its drop; and the list
\* names no Peer that is gone.
OpenIsListed ==
    \A n \in Nodes :
        /\ IsInjective(mPeers[n])
        /\ Listed(n) = {c \in Conn : e[c][n].state # "none" /\ e[c][n].open}

\* Floodgate: over one connection a node sends a transaction at most once, and
\* not at all if it took it from there.
SentOnce ==
    \A c \in Conn, n \in Nodes : e[c][n].sent + (IF e[c][n].took THEN 1 ELSE 0) <= 1

\* A node hears something before HELLO only if the other one's fetcher asked a
\* Peer that had not said HELLO: flooding never does that.
CleanHandshake ==
    \A c \in Conn, n \in Nodes :
        e[c][n].state = "CONNECTED" /\ e[c][n].wire # <<>>
        /\ Head(e[c][n].wire) \notin {"HELLO", "PEERS", "EOF"} => e[c][Other(n)].early

\* A node keeps fewer callers than MAX_PEER_CONNECTIONS, however many knock at
\* a time.
AcceptBound ==
    \A n \in Nodes :
        Cardinality({c \in Conn : dialer[c] = Other(n) /\ e[c][n].state = "GOT_HELLO"}) < MaxPeers[n]

\* In the end the nodes are connected for good, whoever called whom and however
\* the handshakes crossed.
StayConnected ==
    <>[](\E c \in Conn : \A n \in Nodes : e[c][n].state = "GOT_HELLO" /\ e[c][n].open)

\* The set is fetched, though it was asked for too early, of Peers that had
\* gone, or of one that did not have it yet.
FetchCompletes == <>(Wanter \in cached)

\* The list of Peers is right whatever raced with what: it names the open sockets,
\* each once, and keeps to the limit.
PeersInOrder == TypeOK /\ OpenIsListed /\ AcceptBound

\* In the end the nodes are connected and have what they asked each other for.
ConnectsAndFetches == StayConnected /\ FetchCompletes

\* Flooding reaches a connection once and only after its HELLO.
FloodsOnce == SentOnce /\ CleanHandshake

=============================================================================
