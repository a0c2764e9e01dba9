-------------------------------- MODULE WanLinks --------------------------------
(***************************************************************************)
(* The WAN link between two gateways (src/src/router/mod.rs): a spoke's    *)
(* router dials the hub's (`wan_connect_loop`), each end of a connection   *)
(* is a task (`handle_wan_connection`), and each router tells the other    *)
(* its nodes in LSAs (`broadcast_lsa`, `apply_lsa_payload`).  Both routers *)
(* run the same code; only the spoke dials and only the hub keeps a        *)
(* registry of hives.                                                      *)
(*                                                                         *)
(* A connection carries frames in order and both ends learn of its end in  *)
(* their own time.  A hive's nodes are the number of times they changed.   *)
(* Left out: WAN_ACCEPT, which its receiver ignores; the frames of nodes;  *)
(* TLS; the reachability that a hub with several spokes adds; and what is  *)
(* made of lsa_state (its staleness marks and the LSA region, written      *)
(* after each LSA and by the beacon), which no step here reads back.       *)
(***************************************************************************)
EXTENDS Integers, Sequences

CONSTANTS
    Conns,              \* connections the spoke makes, each once
    NoConn,             \* no connection
    Senders,            \* bound: the routers whose LSAs are followed
    MaxSeq,             \* bound: LSAs of one run of a router
    MaxChanges,         \* bound: changes of a hive's nodes
    MaxFaults           \* bound: restarts, cuts and removals together

ASSUME LinksAssumption ==
    /\ NoConn \notin Conns
    /\ Conns \cap {"beacon", "node"} = {}
    /\ Senders \subseteq {"hub", "spoke"}
    /\ MaxSeq \in Nat /\ MaxChanges \in Nat /\ MaxFaults \in Nat

Routers == {"hub", "spoke"}

Other(e) == IF e = "hub" THEN "spoke" ELSE "hub"

\* A connection's handle_wan_connection, lsa_broadcast_loop, the handle_node of
\* the node that came or went.
Tasks == Conns \cup {"beacon", "node"}

VARIABLES
    pc,                 \* per router: where each of its tasks is
    wire,               \* per connection: frames on their way to each router
    cut,                \* connections the network lost
    wan_peers,          \* per router: the connection it sends to its peer over
    wan_session_epochs, \* per router: the sessions it opened with its peer
    epoch,              \* per router and connection: the task's session_epoch
    lsa_seq,            \* per router: its last LSA
    nodes,              \* per router: its hive's nodes
    cast,               \* per router and task: the LSA it is sending
    lsa_state,          \* per router: what it knows of its peer
    registered,         \* the hub's registry lists the spoke
    faults,
    accepted,           \* history, per router and connection: the last seq applied
    rejected,           \* history, per router and connection: the last seq rejected
    heard               \* history, per router: nodes of its peer an LSA told it of, see LsaSettled

linkVars == <<wire, cut>>
lsaVars == <<lsa_state, accepted, rejected, heard>>
peerVars == <<wan_peers, wan_session_epochs, epoch>>
sendVars == <<lsa_seq, nodes, cast>>
vars == <<pc, linkVars, peerVars, sendVars, lsaVars, registered, faults>>

Goto(e, t, place) == pc' = [pc EXCEPT ![e][t] = place]

NoCast == [peer |-> NoConn, seq |-> 0, since |-> -1, nodes |-> 0]
NoLsa == [session_epoch |-> 0, last_seq |-> 0, nodes |-> 0]

Hello == [kind |-> "hello"]
Reject == [kind |-> "reject"]

Sent(c, to, frame) ==
    IF c \in cut THEN wire ELSE [wire EXCEPT ![c][to] = Append(@, frame)]

Received(e, c) == wire' = [wire EXCEPT ![c][e] = Tail(@)]

Ended(e, c) == pc[e][c] \in {"none", "closed"}

----------------------------------------------------------------------------
(* From the dial to the session. *)

\* Mutant: an uplink that dials again before its last link is done.
UplinkNever == TRUE

UplinkDone == \A d \in Conns : Ended("spoke", d)

\* wan_connect_loop, and the hub's wan_listen_loop.  The spoke sends its HELLO.
Dial(c) ==
    /\ pc["spoke"][c] = "none"
    /\ UplinkDone
    /\ pc' = [e \in Routers |-> [pc[e] EXCEPT ![c] = "hello"]]
    /\ wire' = Sent(c, "hub", Hello)
    /\ UNCHANGED <<cut, peerVars, sendVars, lsaVars, registered, faults>>

\* The peer's HELLO: the hub checks its registry and answers with its own.
ReadHello(e, c) ==
    /\ pc[e][c] = "hello"
    /\ wire[c][e] # <<>> /\ Head(wire[c][e]) = Hello
    /\ e = "hub" => registered
    /\ IF e = "hub"
       THEN wire' = [Sent(c, "spoke", Hello) EXCEPT ![c][e] = Tail(@)]
       ELSE Received(e, c)
    /\ Goto(e, c, "epoch")
    /\ UNCHANGED <<cut, peerVars, sendVars, lsaVars, registered, faults>>

RejectHello(c) ==
    /\ pc["hub"][c] = "hello"
    /\ wire[c]["hub"] # <<>>
    /\ ~registered
    /\ wire' = [Sent(c, "spoke", Reject) EXCEPT ![c]["hub"] = Tail(@)]
    /\ Goto("hub", c, "closed")
    /\ UNCHANGED <<cut, peerVars, sendVars, lsaVars, registered, faults>>

\* WAN_REJECT, or a link that ends before the HELLO.
HandshakeFails(e, c) ==
    /\ pc[e][c] = "hello"
    /\ \/ wire[c][e] = <<>> /\ pc[Other(e)][c] = "closed"
       \/ wire[c][e] # <<>> /\ Head(wire[c][e]) = Reject
       \/ c \in cut
    /\ wire' = [wire EXCEPT ![c][e] = <<>>]
    /\ Goto(e, c, "closed")
    /\ UNCHANGED <<cut, peerVars, sendVars, lsaVars, registered, faults>>

\* Mutant: a reconnected peer keeps its epoch.
SameEpoch(e) == 1

NextEpoch(e) == wan_session_epochs[e] + 1

TakeEpoch(e, c) ==
    /\ pc[e][c] = "epoch"
    /\ wan_session_epochs' = [wan_session_epochs EXCEPT ![e] = NextEpoch(e)]
    /\ epoch' = [epoch EXCEPT ![e][c] = NextEpoch(e)]
    /\ heard' = [heard EXCEPT ![e] = -1]
    /\ Goto(e, c, "insert")
    /\ UNCHANGED <<linkVars, wan_peers, sendVars, lsa_state, accepted, rejected, registered, faults>>

\* The connection becomes the peer's, and the first LSA is sent.
InsertPeer(e, c) ==
    /\ pc[e][c] = "insert"
    /\ wan_peers' = [wan_peers EXCEPT ![e] = c]
    /\ Goto(e, c, "cast")
    /\ UNCHANGED <<linkVars, wan_session_epochs, epoch, sendVars, lsaVars, registered,
                   faults>>

----------------------------------------------------------------------------
(* broadcast_lsa and broadcast_lsa_direct: the peers are copied and a seq is taken, the
   payload is built from the nodes there are then, and the LSA is queued. *)

AfterCast(t) == IF t \in Conns THEN "serve" ELSE "idle"

CastSeq(e, t) ==
    /\ pc[e][t] = "cast"
    /\ IF wan_peers[e] = NoConn \/ e \notin Senders
       THEN Goto(e, t, AfterCast(t)) /\ UNCHANGED <<lsa_seq, cast>>
       ELSE /\ lsa_seq[e] < MaxSeq
            /\ lsa_seq' = [lsa_seq EXCEPT ![e] = @ + 1]
            /\ cast' = [cast EXCEPT ![e][t] =
                          [peer |-> wan_peers[e], seq |-> lsa_seq[e] + 1, nodes |-> 0,
                           since |-> nodes[e]]]
            /\ Goto(e, t, "build")
    /\ UNCHANGED <<linkVars, peerVars, nodes, lsaVars, registered, faults>>

CastBuild(e, t) ==
    /\ pc[e][t] = "build"
    /\ cast' = [cast EXCEPT ![e][t].nodes = nodes[e]]
    /\ Goto(e, t, "send")
    /\ UNCHANGED <<linkVars, peerVars, lsa_seq, nodes, lsaVars, registered, faults>>

\* What is queued for a link that ended is lost, and nobody is told.
CastSend(e, t) ==
    /\ pc[e][t] = "send"
    /\ LET m == cast[e][t]
       IN  wire' = IF Ended(e, m.peer) THEN wire
                   ELSE Sent(m.peer, Other(e),
                             [kind |-> "lsa", seq |-> m.seq, nodes |-> m.nodes, since |-> m.since])
    /\ cast' = [cast EXCEPT ![e][t] = NoCast]
    /\ Goto(e, t, AfterCast(t))
    /\ UNCHANGED <<cut, peerVars, lsa_seq, nodes, lsaVars, registered, faults>>

\* A node connects or disconnects; its task then sends an LSA.
NodeChange(e) ==
    /\ e \in Senders
    /\ pc[e]["node"] = "idle"
    /\ nodes[e] < MaxChanges
    /\ nodes' = [nodes EXCEPT ![e] = @ + 1]
    /\ Goto(e, "node", "cast")
    /\ UNCHANGED <<linkVars, peerVars, lsa_seq, cast, lsaVars, registered, faults>>

\* lsa_broadcast_loop: every hello_interval.
Beacon(e) ==
    /\ e \in Senders
    /\ pc[e]["beacon"] = "idle"
    /\ Goto(e, "beacon", "cast")
    /\ UNCHANGED <<linkVars, peerVars, sendVars, lsaVars, registered, faults>>

----------------------------------------------------------------------------
(* The session: apply_lsa_payload. *)

\* Mutant: an LSA that was overtaken is applied.
NeverStale(known, m) == FALSE

StaleSeq(known, m) == m.seq <= known.last_seq

\* Whether no other session of the peer is up.
OnlySession(e, c) == \A d \in Conns \ {c} : Ended(e, d)

Higher(a, b) == IF a > b THEN a ELSE b

ReceiveLsa(e, c) ==
    /\ pc[e][c] = "serve"
    /\ wire[c][e] # <<>>
    /\ LET m == Head(wire[c][e])
           known == IF lsa_state[e].session_epoch = epoch[e][c] THEN lsa_state[e]
                    ELSE [lsa_state[e] EXCEPT !.session_epoch = epoch[e][c], !.last_seq = 0]
       IN  /\ heard' = [heard EXCEPT ![e] = IF OnlySession(e, c) THEN Higher(@, m.since) ELSE @]
           /\ IF StaleSeq(known, m)
              THEN /\ lsa_state' = [lsa_state EXCEPT ![e] = known]
                   /\ rejected' = [rejected EXCEPT ![e][c] = Higher(@, m.seq)]
                   /\ UNCHANGED accepted
              ELSE /\ lsa_state' = [lsa_state EXCEPT ![e] =
                                      [known EXCEPT !.last_seq = m.seq, !.nodes = m.nodes]]
                   /\ accepted' = [accepted EXCEPT ![e][c] = Higher(@, m.seq)]
                   /\ UNCHANGED rejected
    /\ Received(e, c)
    /\ UNCHANGED <<pc, cut, peerVars, sendVars, registered, faults>>

----------------------------------------------------------------------------
(* The end of a link. *)

\* The peer closed and everything it sent was read, or the registry stopped listing it.
LinkEnds(e, c) ==
    /\ pc[e][c] = "serve"
    /\ \/ pc[Other(e)][c] = "closed" /\ wire[c][e] = <<>> /\ c \notin cut
       \/ e = "hub" /\ ~registered
    /\ Goto(e, c, "remove")
    /\ UNCHANGED <<linkVars, peerVars, sendVars, lsaVars, registered, faults>>

\* The entry goes, whatever connection it names.
RemovePeer(e, c) ==
    /\ pc[e][c] = "remove"
    /\ wan_peers' = [wan_peers EXCEPT ![e] = NoConn]
    /\ Goto(e, c, "closed")
    /\ UNCHANGED <<linkVars, wan_session_epochs, epoch, sendVars, lsaVars, registered,
                   faults>>

\* A read or a message's handler that fails (`frame?`, `.await?`) returns at once and leaves
\* the entry: the other end is gone, or an oversized frame or an error came over a link that is up.
ReadFails(e, c) ==
    /\ pc[e][c] = "serve"
    /\ \/ (pc[Other(e)][c] = "closed" \/ c \in cut) /\ UNCHANGED faults
       \/ faults < MaxFaults /\ faults' = faults + 1
    /\ wire' = [wire EXCEPT ![c][e] = <<>>]
    /\ Goto(e, c, "closed")
    /\ UNCHANGED <<cut, peerVars, sendVars, lsaVars, registered>>

Cut(c) ==
    /\ faults < MaxFaults
    /\ c \notin cut
    /\ \E e \in Routers : ~Ended(e, c)
    /\ cut' = cut \cup {c}
    /\ faults' = faults + 1
    /\ UNCHANGED <<pc, wire, peerVars, sendVars, lsaVars, registered>>

\* The router stops and starts again, with nothing in memory and no node connected.
Restart(e) ==
    /\ faults < MaxFaults
    /\ faults' = faults + 1
    /\ pc' = [pc EXCEPT ![e] = [t \in Tasks |->
                IF t \notin Conns THEN "idle"
                ELSE IF pc[e][t] = "none" THEN "none" ELSE "closed"]]
    /\ wan_peers' = [wan_peers EXCEPT ![e] = NoConn]
    /\ wan_session_epochs' = [wan_session_epochs EXCEPT ![e] = 0]
    /\ epoch' = [epoch EXCEPT ![e] = [c \in Conns |-> 0]]
    /\ lsa_seq' = [lsa_seq EXCEPT ![e] = 0]
    /\ cast' = [cast EXCEPT ![e] = [t \in Tasks |-> NoCast]]
    /\ lsa_state' = [lsa_state EXCEPT ![e] = NoLsa]
    /\ nodes' = [nodes EXCEPT ![e] = @ + 1]
    /\ heard' = [heard EXCEPT ![e] = -1]
    /\ UNCHANGED <<linkVars, accepted, rejected, registered>>

\* remove_hive deletes the spoke's entry of the registry.
Unregister ==
    /\ faults < MaxFaults
    /\ registered
    /\ registered' = FALSE
    /\ faults' = faults + 1
    /\ UNCHANGED <<pc, linkVars, peerVars, sendVars, lsaVars>>

----------------------------------------------------------------------------

Init ==
    /\ pc = [e \in Routers |-> [t \in Tasks |-> IF t \in Conns THEN "none" ELSE "idle"]]
    /\ wire = [c \in Conns |-> [e \in Routers |-> <<>>]]
    /\ cut = {}
    /\ wan_peers = [e \in Routers |-> NoConn]
    /\ wan_session_epochs = [e \in Routers |-> 0]
    /\ epoch = [e \in Routers |-> [c \in Conns |-> 0]]
    /\ lsa_seq = [e \in Routers |-> 0]
    /\ nodes = [e \in Routers |-> 0]
    /\ cast = [e \in Routers |-> [t \in Tasks |-> NoCast]]
    /\ lsa_state = [e \in Routers |-> NoLsa]
    /\ registered = TRUE
    /\ faults = 0
    /\ accepted = [e \in Routers |-> [c \in Conns |-> 0]]
    /\ rejected = [e \in Routers |-> [c \in Conns |-> 0]]
    /\ heard = [e \in Routers |-> -1]

SessionStep(e, c) ==
    \/ ReadHello(e, c)
    \/ HandshakeFails(e, c)
    \/ TakeEpoch(e, c)
    \/ InsertPeer(e, c)
    \/ ReceiveLsa(e, c)
    \/ LinkEnds(e, c)
    \/ RemovePeer(e, c)
    \/ ReadFails(e, c)

TaskStep(e, t) ==
    \/ CastSeq(e, t)
    \/ CastBuild(e, t)
    \/ CastSend(e, t)

Next ==
    \/ \E c \in Conns : Dial(c)
    \/ \E c \in Conns : RejectHello(c)
    \/ \E e \in Routers, c \in Conns : SessionStep(e, c)
    \/ \E e \in Routers, t \in Tasks : TaskStep(e, t)
    \/ \E e \in Routers : NodeChange(e)
    \/ \E e \in Routers : Beacon(e)
    \/ \E c \in Conns : Cut(c)
    \/ \E e \in Routers : Restart(e)
    \/ Unregister

Spec == Init /\ [][Next]_vars

----------------------------------------------------------------------------
(* Properties. *)

Serving(e, c) == pc[e][c] \in {"cast", "build", "send", "serve"}

\* An LSA is rejected for its seq only when a later one of the same connection
\* was applied: a restarted peer, whose seqs begin again, is heard at once.
OnlyOvertakenRejected ==
    \A e \in Routers, c \in Conns : rejected[e][c] <= accepted[e][c]

\* Concurrent broadcasts settle: once a router received an LSA whose seq was taken
\* after its peer's last change of nodes, with no other session of that peer up,
\* it knows those nodes, and nothing on its way undoes that before the next session
\* (a late LSA of an earlier session may: it brings that session's epoch back).
LsaSettled ==
    \A e \in Routers : heard[e] = nodes[Other(e)] => lsa_state[e].nodes = nodes[Other(e)]

\* A spoke whose uplink is up sends over it: the dial loop runs one link at a
\* time, so no earlier link's exit takes the entry of the next.
UplinkListed ==
    \A c \in Conns : Serving("spoke", c) => wan_peers["spoke"] = c

\* "on the gateway, the WAN link to that hive (wan_peers, keyed by hive)": a peer
\* whose newest link is up at both ends is reached over it.
PeerListed ==
    \A c \in Conns :
        Serving("hub", c) /\ Serving("spoke", c) => wan_peers["hub"] # NoConn

================================================================================
