----------------------------- MODULE WanLinksProofs -----------------------------
(***************************************************************************)
(* The WAN link between two gateways, for every number of connections,     *)
(* LSAs, changes and faults: proofs about WanLinks.                        *)
(***************************************************************************)
EXTENDS WanLinks, TLAPS

----------------------------------------------------------------------------
(* The inductive invariant. *)

\* Where a connection's task is: past the peer's HELLO, with its session's epoch, and
\* after it was listed.
Greeted == {"epoch", "insert", "cast", "build", "send", "serve", "remove"}
Opened == Greeted \ {"epoch"}
Listed == (Opened \ {"insert"}) \cup {"closed"}

Places == {"none", "hello", "closed", "idle"} \cup Greeted

Lsas == [kind : {"lsa"}, seq : Nat \ {0}, nodes : Nat, since : Nat]

AnyFrame == Lsas \cup {Hello, Reject}

Casts == [peer : Conns \cup {NoConn}, seq : Nat, nodes : Nat, since : Nat \cup {-1}]

LinkTypes ==
    /\ pc \in [Routers -> [Tasks -> Places]]
    /\ wire \in [Conns -> [Routers -> Seq(AnyFrame)]]
    /\ wan_peers \in [Routers -> Conns \cup {NoConn}]
    /\ wan_session_epochs \in [Routers -> Nat]
    /\ epoch \in [Routers -> [Conns -> Nat]]
    /\ lsa_seq \in [Routers -> Nat]
    /\ nodes \in [Routers -> Nat]
    /\ cast \in [Routers -> [Tasks -> Casts]]
    /\ lsa_state \in [Routers -> [session_epoch : Nat, last_seq : Nat, nodes : Nat]]
    /\ accepted \in [Routers -> [Conns -> Nat]]
    /\ rejected \in [Routers -> [Conns -> Nat]]
    /\ heard \in [Routers -> Nat \cup {-1}]

\* The spoke runs one link at a time, and sends over it.
OneUplink == \A c, d \in Conns : ~Ended("spoke", c) /\ ~Ended("spoke", d) => c = d

\* An LSA a task is sending, over a connection that was listed.
Casting(e, t) == pc[e][t] \in {"build", "send"}

CastOk(e, t) ==
    Casting(e, t) =>
        /\ cast[e][t].peer \in Conns /\ pc[e][cast[e][t].peer] \in Listed
        /\ cast[e][t].seq # 0 /\ cast[e][t].since \in Nat /\ cast[e][t].since <= nodes[e]
        /\ pc[e][t] = "send" => /\ cast[e][t].since <= cast[e][t].nodes
                                /\ cast[e][t].nodes <= nodes[e]

CastsOk ==
    /\ \A e \in Routers, c \in Conns : wan_peers[e] = c => pc[e][c] \in Listed
    /\ \A e \in Routers, t \in Tasks : CastOk(e, t)

Frames(c, e) == {wire[c][e][i] : i \in 1..Len(wire[c][e])}
Behind(c, e) == {wire[c][e][i] : i \in 2..Len(wire[c][e])}

\* The frames on a connection: nothing before it is dialled, the HELLOs first, and
\* then LSAs, which tell of no more nodes than there are.
WireFor(c) ==
    /\ \A e \in Routers : pc[e][c] = "none" => pc[Other(e)][c] = "none" /\ wire[c][e] = <<>>
    /\ pc["hub"][c] = "hello" => wire[c]["spoke"] = <<>> /\ pc["spoke"][c] \notin Greeted
    /\ \A e \in Routers :
          /\ pc[e][c] = "hello" => Behind(c, e) \subseteq Lsas
          /\ pc[e][c] \in Greeted => Frames(c, e) \subseteq Lsas
          /\ \A f \in Frames(c, e) : f.kind = "lsa" => f.since <= f.nodes /\ f.nodes <= nodes[Other(e)]

WireOk == \A c \in Conns : WireFor(c)

\* A router's sessions have epochs of their own, and what it knows of its peer is
\* from one of them: no LSA of that session above last_seq was applied.
EpochsFor(e) ==
    /\ lsa_state[e].session_epoch <= wan_session_epochs[e]
    /\ lsa_state[e].nodes <= nodes[Other(e)]
    /\ \A c \in Conns :
          /\ epoch[e][c] <= wan_session_epochs[e]
          /\ pc[e][c] \in Opened => epoch[e][c] # 0
          /\ epoch[e][c] # 0 /\ lsa_state[e].session_epoch = epoch[e][c]
                => lsa_state[e].last_seq <= accepted[e][c]
    /\ \A c, d \in Conns : epoch[e][c] # 0 /\ epoch[e][c] = epoch[e][d] => c = d

EpochsOk == \A e \in Routers : EpochsFor(e)

\* The LSAs on their way to a router over a connection: on the wire, or being sent.
Stamp(f) == [seq |-> f.seq, since |-> f.since]

OnWay(e, c) ==
    {Stamp(f) : f \in {g \in Frames(c, e) : g.kind = "lsa"}}
      \cup {Stamp(cast[Other(e)][t]) :
              t \in {u \in Tasks : Casting(Other(e), u) /\ cast[Other(e)][u].peer = c
                                   /\ ~Ended(Other(e), c)}}

\* The session whose LSAs the router follows.
Followed(e, c) == pc[e][c] \in Opened /\ lsa_state[e].session_epoch = epoch[e][c]

\* On a connection a later seq was taken after no fewer changes, so what a session
\* knows covers every LSA it will reject, and what comes next covers what was heard.
WayFor(e, c) ==
    /\ \A x, y \in OnWay(e, c) : x.seq <= y.seq => x.since <= y.since
    /\ \A x \in OnWay(e, c) : x.since <= nodes[Other(e)]
    /\ ~Ended(Other(e), c) => \A x \in OnWay(e, c) : x.seq <= lsa_seq[Other(e)]
    /\ Followed(e, c) =>
          /\ \A x \in OnWay(e, c) : x.seq <= lsa_state[e].last_seq => x.since <= lsa_state[e].nodes
          /\ ~Ended(Other(e), c) => lsa_state[e].last_seq <= lsa_seq[Other(e)]

HeardFor(e) ==
    heard[e] # -1 =>
        /\ heard[e] <= lsa_state[e].nodes
        /\ \A c \in Conns : pc[e][c] \in Opened =>
              /\ lsa_state[e].session_epoch = epoch[e][c]
              /\ \A x \in OnWay(e, c) : x.seq > lsa_state[e].last_seq => heard[e] <= x.since

OrderOk == \A e \in Routers : HeardFor(e) /\ \A c \in Conns : WayFor(e, c)

LinkInv ==
    /\ LinkTypes
    /\ OneUplink /\ UplinkListed
    /\ CastsOk
    /\ WireOk
    /\ EpochsOk /\ OnlyOvertakenRejected
    /\ OrderOk

----------------------------------------------------------------------------
(* What the operators of the steps do, point by point. *)

\* The routers, and the tasks of each.
LEMMA TwoRouters ==
    /\ Routers = {"hub", "spoke"} /\ "hub" # "spoke"
    /\ Other("hub") = "spoke" /\ Other("spoke") = "hub"
    /\ \A e \in Routers : Other(e) \in Routers /\ Other(e) # e /\ Other(Other(e)) = e
    /\ \A c \in Conns : c \in Tasks
BY DEF Routers, Other, Tasks

\* A task moves and no other does.
LEMMA GotoMoves ==
    ASSUME LinkTypes, NEW e \in Routers, NEW t \in Tasks, NEW place \in Places, Goto(e, t, place)
    PROVE  /\ pc' \in [Routers -> [Tasks -> Places]]
           /\ pc'[e][t] = place
           /\ \A f \in Routers, u \in Tasks : <<f, u>> # <<e, t>> => pc'[f][u] = pc[f][u]
BY DEF LinkTypes, Goto

\* One wire changes.
LEMMA WireSet ==
    ASSUME NEW w \in [Conns -> [Routers -> Seq(AnyFrame)]], NEW c \in Conns, NEW e \in Routers,
           NEW s \in Seq(AnyFrame)
    PROVE  /\ [w EXCEPT ![c][e] = s] \in [Conns -> [Routers -> Seq(AnyFrame)]]
           /\ [w EXCEPT ![c][e] = s][c][e] = s
           /\ \A d \in Conns, f \in Routers :
                 <<d, f>> # <<c, e>> => [w EXCEPT ![c][e] = s][d][f] = w[d][f]
OBVIOUS

\* A sequence of frames with one more, and with the first gone.
LEMMA FrameSeqs ==
    ASSUME NEW s \in Seq(AnyFrame)
    PROVE  /\ <<>> \in Seq(AnyFrame)
           /\ \A f \in AnyFrame : Append(s, f) \in Seq(AnyFrame)
           /\ s # <<>> => Tail(s) \in Seq(AnyFrame)
OBVIOUS

\* A frame goes to the end of a wire, or is lost with the link.
LEMMA SentMoves ==
    ASSUME LinkTypes, NEW c \in Conns, NEW to \in Routers, NEW frame \in AnyFrame
    PROVE  /\ Sent(c, to, frame) \in [Conns -> [Routers -> Seq(AnyFrame)]]
           /\ Sent(c, to, frame)[c][to] \in {wire[c][to], Append(wire[c][to], frame)}
           /\ \A d \in Conns, e \in Routers :
                 <<d, e>> # <<c, to>> => Sent(c, to, frame)[d][e] = wire[d][e]
<1>1. wire \in [Conns -> [Routers -> Seq(AnyFrame)]] /\ wire[c][to] \in Seq(AnyFrame)
  BY DEF LinkTypes
<1>2. PICK s \in Seq(AnyFrame) : s = Append(wire[c][to], frame)
  BY <1>1, FrameSeqs
<1>3. CASE c \in cut
  BY <1>1, <1>3 DEF Sent
<1>4. CASE c \notin cut
  <2>1. Sent(c, to, frame) = [wire EXCEPT ![c][to] = s]
    BY <1>2, <1>4 DEF Sent
  <2> QED BY <1>1, <1>2, <2>1, WireSet
<1> QED BY <1>3, <1>4

\* The hub reads a frame and answers.
LEMMA AnsweredMoves ==
    ASSUME LinkTypes, NEW c \in Conns, NEW frame \in AnyFrame, wire[c]["hub"] # <<>>,
           wire' = [Sent(c, "spoke", frame) EXCEPT ![c]["hub"] = Tail(@)]
    PROVE  /\ wire' \in [Conns -> [Routers -> Seq(AnyFrame)]]
           /\ wire'[c]["hub"] = Tail(wire[c]["hub"])
           /\ wire'[c]["spoke"] \in {wire[c]["spoke"], Append(wire[c]["spoke"], frame)}
           /\ \A d \in Conns \ {c}, e \in Routers : wire'[d][e] = wire[d][e]
<1>1. PICK h \in Routers, k \in Routers : h = "hub" /\ k = "spoke" /\ h # k
  BY DEF Routers
<1>2. PICK w : w = Sent(c, k, frame)
  OBVIOUS
<1>3. /\ w \in [Conns -> [Routers -> Seq(AnyFrame)]]
      /\ w[c][k] \in {wire[c][k], Append(wire[c][k], frame)}
      /\ \A d \in Conns, e \in Routers : <<d, e>> # <<c, k>> => w[d][e] = wire[d][e]
  BY <1>2, SentMoves
<1>4. w[c][h] = wire[c][h] /\ w[c][h] \in Seq(AnyFrame)
  BY <1>1, <1>3
<1>5. PICK r \in Seq(AnyFrame) : r = Tail(wire[c][h])
  BY <1>1, <1>4, FrameSeqs
<1>6. wire' = [w EXCEPT ![c][h] = r]
  BY <1>1, <1>2, <1>4, <1>5
<1>7. /\ wire' \in [Conns -> [Routers -> Seq(AnyFrame)]]
      /\ wire'[c][h] = r
      /\ \A d \in Conns, e \in Routers : <<d, e>> # <<c, h>> => wire'[d][e] = w[d][e]
  <2>1. w \in [Conns -> [Routers -> Seq(AnyFrame)]]
    BY <1>3
  <2>2. PICK v : v = [w EXCEPT ![c][h] = r]
    OBVIOUS
  <2>3. /\ v \in [Conns -> [Routers -> Seq(AnyFrame)]]
        /\ v[c][h] = r
        /\ \A d \in Conns, e \in Routers : <<d, e>> # <<c, h>> => v[d][e] = w[d][e]
    BY <2>1, <2>2, WireSet
  <2>4. wire' = v
    BY <1>6, <2>2, Zenon
  <2> QED BY <2>3, <2>4
<1>8. wire'[c][k] = w[c][k]
  BY <1>1, <1>7
<1>9. \A d \in Conns \ {c}, e \in Routers : wire'[d][e] = wire[d][e]
  BY <1>3, <1>7
<1> QED BY <1>1, <1>3, <1>5, <1>7, <1>8, <1>9

\* A frame is read.
LEMMA ReceivedMoves ==
    ASSUME LinkTypes, NEW c \in Conns, NEW e \in Routers, wire[c][e] # <<>>, Received(e, c)
    PROVE  /\ wire' \in [Conns -> [Routers -> Seq(AnyFrame)]]
           /\ wire'[c][e] = Tail(wire[c][e])
           /\ \A d \in Conns, f \in Routers : <<d, f>> # <<c, e>> => wire'[d][f] = wire[d][f]
<1>1. wire \in [Conns -> [Routers -> Seq(AnyFrame)]] /\ wire[c][e] \in Seq(AnyFrame)
  BY DEF LinkTypes
<1>2. PICK r \in Seq(AnyFrame) : r = Tail(wire[c][e])
  BY <1>1, FrameSeqs
<1>3. wire' = [wire EXCEPT ![c][e] = r]
  BY <1>1, <1>2 DEF Received
<1> QED BY <1>1, <1>2, <1>3, WireSet

\* What a wire is left with is forgotten.
LEMMA ClearedMoves ==
    ASSUME LinkTypes, NEW c \in Conns, NEW e \in Routers, wire' = [wire EXCEPT ![c][e] = <<>>]
    PROVE  /\ wire' \in [Conns -> [Routers -> Seq(AnyFrame)]]
           /\ wire'[c][e] = <<>>
           /\ \A d \in Conns, f \in Routers : <<d, f>> # <<c, e>> => wire'[d][f] = wire[d][f]
<1>1. <<>> \in Seq(AnyFrame)
  OBVIOUS
<1> QED BY <1>1 DEF LinkTypes

\* The frames of a wire with one more, with the first gone, and of an empty one.
LEMMA FramesMove ==
    ASSUME LinkTypes, NEW c \in Conns, NEW e \in Routers,
           NEW frame \in AnyFrame
    PROVE  /\ wire'[c][e] = Append(wire[c][e], frame) =>
                 /\ Frames(c, e)' = Frames(c, e) \cup {frame}
                 /\ Behind(c, e)' \subseteq Behind(c, e) \cup {frame}
                 /\ wire[c][e] = <<>> => Behind(c, e)' = {} /\ Frames(c, e)' = {frame}
           /\ wire[c][e] # <<>> /\ wire'[c][e] = Tail(wire[c][e]) =>
                 Frames(c, e)' = Behind(c, e) /\ Behind(c, e)' \subseteq Behind(c, e)
           /\ wire'[c][e] = <<>> => Frames(c, e)' = {} /\ Behind(c, e)' = {}
           /\ wire'[c][e] = wire[c][e] => Frames(c, e)' = Frames(c, e) /\ Behind(c, e)' = Behind(c, e)
           /\ Behind(c, e) \subseteq Frames(c, e)
           /\ wire[c][e] # <<>> => Head(wire[c][e]) \in Frames(c, e)
<1>1. PICK s \in Seq(AnyFrame) : s = wire[c][e]
  BY DEF LinkTypes
<1>2. Frames(c, e) = {s[i] : i \in 1..Len(s)} /\ Behind(c, e) = {s[i] : i \in 2..Len(s)}
  BY <1>1 DEF Frames, Behind
<1>3. Len(s) \in Nat
  OBVIOUS
<1>4. ASSUME wire'[c][e] = Append(s, frame)
      PROVE  /\ Frames(c, e)' = Frames(c, e) \cup {frame}
             /\ Behind(c, e)' \subseteq Behind(c, e) \cup {frame}
             /\ s = <<>> => Behind(c, e)' = {} /\ Frames(c, e)' = {frame}
  <2>1. /\ Len(Append(s, frame)) = Len(s) + 1
        /\ Append(s, frame)[Len(s) + 1] = frame
        /\ \A i \in 1..Len(s) : Append(s, frame)[i] = s[i]
    OBVIOUS
  <2>2. PICK r : r = Append(s, frame)
    OBVIOUS
  <2>3. Frames(c, e)' = {r[i] : i \in 1..Len(r)} /\ Behind(c, e)' = {r[i] : i \in 2..Len(r)}
    BY <1>4, <2>2 DEF Frames, Behind
  <2>4. /\ Len(r) = Len(s) + 1 /\ r[Len(s) + 1] = frame
        /\ \A i \in 1..Len(s) : r[i] = s[i]
    BY <2>1, <2>2
  <2>5. {r[i] : i \in 1..Len(r)} = {s[i] : i \in 1..Len(s)} \cup {frame}
    <3>1. 1..Len(r) = 1..Len(s) \cup {Len(s) + 1}
      BY <1>3, <2>4
    <3> QED BY <2>4, <3>1
  <2>6. {r[i] : i \in 2..Len(r)} \subseteq {s[i] : i \in 2..Len(s)} \cup {frame}
    <3>1. \A i \in 2..Len(r) : i \in 2..Len(s) \/ i = Len(s) + 1
      BY <1>3, <2>4
    <3>2. \A i \in 2..Len(s) : r[i] = s[i]
      BY <1>3, <2>4
    <3> QED BY <2>4, <3>1, <3>2
  <2>7. ASSUME s = <<>> PROVE {r[i] : i \in 2..Len(r)} = {} /\ {r[i] : i \in 1..Len(r)} = {frame}
    <3>1. Len(r) = 1 /\ r[1] = frame
      BY <2>4, <2>7
    <3> QED BY <3>1
  <2> QED BY <1>2, <2>3, <2>5, <2>6, <2>7
<1>5. ASSUME s # <<>>, wire'[c][e] = Tail(s)
      PROVE  Frames(c, e)' = Behind(c, e) /\ Behind(c, e)' \subseteq Behind(c, e)
  <2>1. /\ Len(Tail(s)) = Len(s) - 1 /\ Len(s) # 0
        /\ \A i \in 1..(Len(s) - 1) : Tail(s)[i] = s[i + 1]
    BY <1>5
  <2>2. PICK r : r = Tail(s)
    OBVIOUS
  <2>3. Frames(c, e)' = {r[i] : i \in 1..Len(r)} /\ Behind(c, e)' = {r[i] : i \in 2..Len(r)}
    BY <1>5, <2>2 DEF Frames, Behind
  <2>4. Len(r) = Len(s) - 1 /\ \A i \in 1..Len(r) : r[i] = s[i + 1]
    BY <2>1, <2>2
  <2>5. \A i \in 1..Len(r) : i + 1 \in 2..Len(s)
    BY <1>3, <2>1, <2>4
  <2>6. \A i \in 2..Len(s) : i - 1 \in 1..Len(r) /\ r[i - 1] = s[i]
    BY <1>3, <2>1, <2>4
  <2>7. {r[i] : i \in 1..Len(r)} = {s[i] : i \in 2..Len(s)}
    BY <2>4, <2>5, <2>6
  <2>8. {r[i] : i \in 2..Len(r)} \subseteq {r[i] : i \in 1..Len(r)}
    BY <1>3, <2>4
  <2> QED BY <1>2, <2>3, <2>7, <2>8
<1>6. ASSUME wire'[c][e] = <<>> PROVE Frames(c, e)' = {} /\ Behind(c, e)' = {}
  BY <1>6 DEF Frames, Behind
<1>7. ASSUME wire'[c][e] = wire[c][e]
      PROVE  Frames(c, e)' = Frames(c, e) /\ Behind(c, e)' = Behind(c, e)
  BY <1>7 DEF Frames, Behind
<1>8. Behind(c, e) \subseteq Frames(c, e)
  <2>1. 2..Len(s) \subseteq 1..Len(s)
    BY <1>3
  <2> QED BY <1>2, <2>1
<1>9. s # <<>> => Head(s) \in Frames(c, e)
  <2>1. s # <<>> => Head(s) = s[1] /\ 1 \in 1..Len(s)
    BY <1>3
  <2> QED BY <1>2, <2>1
<1> QED BY <1>1, <1>4, <1>5, <1>6, <1>7, <1>8, <1>9


----------------------------------------------------------------------------
(* What each step changes, and that the types hold after it. *)

\* Steps that move alike: the answer to a HELLO, the entry of a peer, a task that
\* only moves on, a broadcast that takes its seq, and what leaves a link as it is.
Greets(e, c) == ReadHello(e, c) \/ HandshakeFails(e, c) \/ (e = "hub" /\ RejectHello(c))
Lists(e, c) == InsertPeer(e, c) \/ RemovePeer(e, c)
Waits(e, t) ==
    \/ t \in Conns /\ LinkEnds(e, t)
    \/ t = "beacon" /\ Beacon(e)
    \/ CastSeq(e, t) /\ (wan_peers[e] = NoConn \/ e \notin Senders)
TakesSeq(e, t) == CastSeq(e, t) /\ wan_peers[e] # NoConn /\ e \in Senders
Stands == (\E c \in Conns : Cut(c)) \/ Unregister \/ UNCHANGED vars

\* Every step is one of these.
LEMMA LinkSteps ==
    ASSUME [Next]_vars
    PROVE  \/ \E c \in Conns : Dial(c)
           \/ \E e \in Routers, c \in Conns :
                 Greets(e, c) \/ TakeEpoch(e, c) \/ Lists(e, c) \/ ReceiveLsa(e, c) \/ ReadFails(e, c)
           \/ \E e \in Routers, t \in Tasks :
                 Waits(e, t) \/ TakesSeq(e, t) \/ CastBuild(e, t) \/ CastSend(e, t)
           \/ \E e \in Routers : NodeChange(e) \/ Restart(e)
           \/ Stands
<1>1. "hub" \in Routers /\ "beacon" \in Tasks /\ Conns \subseteq Tasks
  BY DEF Routers, Tasks
<1>2. CASE \E e \in Routers, c \in Conns : SessionStep(e, c)
  BY <1>1, <1>2 DEF SessionStep, Greets, Lists, Waits
<1>3. CASE \E e \in Routers, t \in Tasks : TaskStep(e, t)
  BY <1>3 DEF TaskStep, Waits, TakesSeq
<1>4. CASE \E c \in Conns : RejectHello(c)
  BY <1>1, <1>4 DEF Greets
<1>5. CASE \E e \in Routers : Beacon(e)
  BY <1>1, <1>5 DEF Waits
<1> QED BY <1>2, <1>3, <1>4, <1>5 DEF Next, Stands

\* The HELLO and a rejection are no LSAs.
LEMMA FrameKinds ==
    /\ Hello \in AnyFrame /\ Reject \in AnyFrame /\ Lsas \subseteq AnyFrame
    /\ Hello.kind # "lsa" /\ Reject.kind # "lsa" /\ Hello # Reject
    /\ \A f \in Lsas : f.kind = "lsa" /\ f.seq \in Nat \ {0} /\ f.nodes \in Nat /\ f.since \in Nat
BY DEF AnyFrame, Lsas, Hello, Reject

\* A new connection.
LEMMA DialMoves ==
    ASSUME LinkTypes, NEW c \in Conns, Dial(c)
    PROVE  /\ LinkTypes'
           /\ pc["spoke"][c] = "none" /\ \A d \in Conns : Ended("spoke", d)
           /\ \A e \in Routers : pc'[e][c] = "hello"
           /\ \A e \in Routers, t \in Tasks \ {c} : pc'[e][t] = pc[e][t]
           /\ wire'[c]["hub"] \in {wire[c]["hub"], Append(wire[c]["hub"], Hello)}
           /\ \A d \in Conns, e \in Routers : <<d, e>> # <<c, "hub">> => wire'[d][e] = wire[d][e]
           /\ UNCHANGED <<wan_peers, wan_session_epochs, epoch, lsa_seq, nodes, cast, lsa_state,
                          accepted, rejected, heard>>
<1>1. "hub" \in Routers /\ c \in Tasks /\ "hello" \in Places
  BY DEF Routers, Tasks, Places
<1>2. /\ pc' \in [Routers -> [Tasks -> Places]]
      /\ \A e \in Routers : pc'[e][c] = "hello"
      /\ \A e \in Routers, t \in Tasks \ {c} : pc'[e][t] = pc[e][t]
  BY <1>1 DEF LinkTypes, Dial
<1>3. /\ wire' \in [Conns -> [Routers -> Seq(AnyFrame)]]
      /\ wire'[c]["hub"] \in {wire[c]["hub"], Append(wire[c]["hub"], Hello)}
      /\ \A d \in Conns, e \in Routers : <<d, e>> # <<c, "hub">> => wire'[d][e] = wire[d][e]
  <2>1. wire' = Sent(c, "hub", Hello)
    BY DEF Dial
  <2>2. PICK w : w = Sent(c, "hub", Hello)
    OBVIOUS
  <2>3. /\ w \in [Conns -> [Routers -> Seq(AnyFrame)]]
        /\ w[c]["hub"] \in {wire[c]["hub"], Append(wire[c]["hub"], Hello)}
        /\ \A d \in Conns, e \in Routers : <<d, e>> # <<c, "hub">> => w[d][e] = wire[d][e]
    BY <1>1, <2>2, SentMoves, FrameKinds
  <2> QED BY <2>1, <2>2, <2>3
<1>4. UNCHANGED <<wan_peers, wan_session_epochs, epoch, lsa_seq, nodes, cast, lsa_state,
                  accepted, rejected, heard>>
  BY DEF Dial, peerVars, sendVars, lsaVars
<1>5. pc["spoke"][c] = "none" /\ \A d \in Conns : Ended("spoke", d)
  BY DEF Dial, UplinkDone
<1>6. LinkTypes'
  BY <1>2, <1>3, <1>4 DEF LinkTypes
<1> QED BY <1>2, <1>3, <1>4, <1>5, <1>6

\* The steps of a connection's task that read its peer's first frame: where it goes,
\* and what is left of the wires.
LEMMA HandshakeMoves ==
    ASSUME LinkTypes, NEW e \in Routers, NEW c \in Conns,
           Greets(e, c)
    PROVE  /\ LinkTypes'
           /\ pc[e][c] = "hello"
           /\ \/ pc'[e][c] = "epoch" /\ wire[c][e] # <<>> /\ wire'[c][e] = Tail(wire[c][e])
              \/ pc'[e][c] = "closed" /\ wire'[c][e] = <<>>
              \/ pc'[e][c] = "closed" /\ wire[c][e] # <<>> /\ wire'[c][e] = Tail(wire[c][e])
           /\ \A f \in Routers, t \in Tasks : <<f, t>> # <<e, c>> => pc'[f][t] = pc[f][t]
           /\ \/ wire'[c][Other(e)] = wire[c][Other(e)]
              \/ /\ e = "hub"
                 /\ \E f \in {Hello, Reject} : wire'[c][Other(e)] = Append(wire[c][Other(e)], f)
           /\ \A d \in Conns \ {c}, f \in Routers : wire'[d][f] = wire[d][f]
           /\ UNCHANGED <<wan_peers, wan_session_epochs, epoch, lsa_seq, nodes, cast, lsa_state,
                          accepted, rejected, heard>>
<1> USE DEF Greets
<1>1. c \in Tasks /\ "epoch" \in Places /\ "closed" \in Places
  BY DEF Tasks, Places, Greeted
<1>2. UNCHANGED <<wan_peers, wan_session_epochs, epoch, lsa_seq, nodes, cast, lsa_state,
                  accepted, rejected, heard>>
  BY DEF ReadHello, HandshakeFails, RejectHello, peerVars, sendVars, lsaVars
<1>3. pc[e][c] = "hello"
  BY DEF ReadHello, HandshakeFails, RejectHello
<1>4. PICK place \in {"epoch", "closed"} : Goto(e, c, place) /\ (ReadHello(e, c) <=> place = "epoch")
  <2>1. CASE ReadHello(e, c)
    BY <2>1 DEF ReadHello
  <2>2. CASE ~ReadHello(e, c)
    <3>1. Goto(e, c, "closed")
      BY <2>2 DEF HandshakeFails, RejectHello
    <3> QED BY <2>2, <3>1
  <2> QED BY <2>1, <2>2
<1>5. /\ pc' \in [Routers -> [Tasks -> Places]]
      /\ pc'[e][c] = place
      /\ \A f \in Routers, u \in Tasks : <<f, u>> # <<e, c>> => pc'[f][u] = pc[f][u]
  BY <1>1, <1>4, GotoMoves
<1>6. /\ wire' \in [Conns -> [Routers -> Seq(AnyFrame)]]
      /\ \/ wire[c][e] # <<>> /\ wire'[c][e] = Tail(wire[c][e])
         \/ ~ReadHello(e, c) /\ wire'[c][e] = <<>>
      /\ \/ wire'[c][Other(e)] = wire[c][Other(e)]
         \/ /\ e = "hub"
            /\ \E f \in {Hello, Reject} : wire'[c][Other(e)] = Append(wire[c][Other(e)], f)
      /\ \A d \in Conns \ {c}, f \in Routers : wire'[d][f] = wire[d][f]
  <2>1. CASE ReadHello(e, c) /\ e = "hub"
    <3>1. wire[c]["hub"] # <<>> /\ wire' = [Sent(c, "spoke", Hello) EXCEPT ![c]["hub"] = Tail(@)]
      BY <2>1 DEF ReadHello
    <3>2. /\ wire' \in [Conns -> [Routers -> Seq(AnyFrame)]]
          /\ wire'[c]["hub"] = Tail(wire[c]["hub"])
          /\ wire'[c]["spoke"] \in {wire[c]["spoke"], Append(wire[c]["spoke"], Hello)}
          /\ \A d \in Conns \ {c}, f \in Routers : wire'[d][f] = wire[d][f]
      BY <3>1, AnsweredMoves, FrameKinds
    <3> QED BY <2>1, <3>1, <3>2, TwoRouters
  <2>2. CASE e = "hub" /\ RejectHello(c)
    <3>1. wire[c]["hub"] # <<>> /\ wire' = [Sent(c, "spoke", Reject) EXCEPT ![c]["hub"] = Tail(@)]
      BY <2>2 DEF RejectHello
    <3>2. /\ wire' \in [Conns -> [Routers -> Seq(AnyFrame)]]
          /\ wire'[c]["hub"] = Tail(wire[c]["hub"])
          /\ wire'[c]["spoke"] \in {wire[c]["spoke"], Append(wire[c]["spoke"], Reject)}
          /\ \A d \in Conns \ {c}, f \in Routers : wire'[d][f] = wire[d][f]
      BY <3>1, AnsweredMoves, FrameKinds
    <3> QED BY <2>2, <3>1, <3>2, TwoRouters
  <2>3. CASE ReadHello(e, c) /\ e # "hub"
    <3>1. wire[c][e] # <<>> /\ Received(e, c)
      BY <2>3 DEF ReadHello
    <3>2. /\ wire' \in [Conns -> [Routers -> Seq(AnyFrame)]]
          /\ wire'[c][e] = Tail(wire[c][e])
          /\ \A d \in Conns, f \in Routers : <<d, f>> # <<c, e>> => wire'[d][f] = wire[d][f]
      BY <3>1, ReceivedMoves
    <3> QED BY <3>1, <3>2, TwoRouters
  <2>4. CASE HandshakeFails(e, c) /\ ~ReadHello(e, c)
    <3>1. wire' = [wire EXCEPT ![c][e] = <<>>]
      BY <2>4 DEF HandshakeFails
    <3>2. /\ wire' \in [Conns -> [Routers -> Seq(AnyFrame)]]
          /\ wire'[c][e] = <<>>
          /\ \A d \in Conns, f \in Routers : <<d, f>> # <<c, e>> => wire'[d][f] = wire[d][f]
      BY <3>1, ClearedMoves
    <3> QED BY <2>4, <3>2, TwoRouters
  <2> QED BY <2>1, <2>2, <2>3, <2>4
<1>7. LinkTypes'
  BY <1>2, <1>5, <1>6 DEF LinkTypes
<1> QED BY <1>2, <1>3, <1>4, <1>5, <1>6, <1>7

\* A session takes its epoch.
LEMMA TakeEpochMoves ==
    ASSUME LinkTypes, NEW e \in Routers, NEW c \in Conns, TakeEpoch(e, c)
    PROVE  /\ LinkTypes'
           /\ pc[e][c] = "epoch" /\ pc'[e][c] = "insert"
           /\ \A f \in Routers, t \in Tasks : <<f, t>> # <<e, c>> => pc'[f][t] = pc[f][t]
           /\ wan_session_epochs'[e] = wan_session_epochs[e] + 1
           /\ wan_session_epochs'[Other(e)] = wan_session_epochs[Other(e)]
           /\ epoch'[e][c] = wan_session_epochs[e] + 1
           /\ \A f \in Routers, d \in Conns : <<f, d>> # <<e, c>> => epoch'[f][d] = epoch[f][d]
           /\ heard'[e] = -1 /\ heard'[Other(e)] = heard[Other(e)]
           /\ UNCHANGED <<wire, wan_peers, lsa_seq, nodes, cast, lsa_state, accepted, rejected>>
<1>1. c \in Tasks /\ "insert" \in Places /\ Other(e) \in Routers /\ Other(e) # e
  BY TwoRouters DEF Places, Greeted
<1>2. pc[e][c] = "epoch" /\ Goto(e, c, "insert")
  BY DEF TakeEpoch
<1>3. /\ pc' \in [Routers -> [Tasks -> Places]]
      /\ pc'[e][c] = "insert"
      /\ \A f \in Routers, u \in Tasks : <<f, u>> # <<e, c>> => pc'[f][u] = pc[f][u]
  BY <1>1, <1>2, GotoMoves
<1>4. PICK n \in Nat : n = wan_session_epochs[e] + 1
  BY DEF LinkTypes
<1>5. /\ wan_session_epochs' \in [Routers -> Nat]
      /\ wan_session_epochs'[e] = n
      /\ wan_session_epochs'[Other(e)] = wan_session_epochs[Other(e)]
  BY <1>1, <1>4 DEF TakeEpoch, NextEpoch, LinkTypes
<1>6. /\ epoch' \in [Routers -> [Conns -> Nat]]
      /\ epoch'[e][c] = n
      /\ \A f \in Routers, d \in Conns : <<f, d>> # <<e, c>> => epoch'[f][d] = epoch[f][d]
  <2>1. epoch' = [epoch EXCEPT ![e][c] = n]
    BY <1>4 DEF TakeEpoch, NextEpoch
  <2> QED BY <2>1 DEF LinkTypes
<1>7. heard' \in [Routers -> Nat \cup {-1}] /\ heard'[e] = -1 /\ heard'[Other(e)] = heard[Other(e)]
  BY <1>1 DEF TakeEpoch, LinkTypes
<1>8. UNCHANGED <<wire, wan_peers, lsa_seq, nodes, cast, lsa_state, accepted, rejected>>
  BY DEF TakeEpoch, linkVars, sendVars
<1>9. LinkTypes'
  BY <1>3, <1>5, <1>6, <1>7, <1>8 DEF LinkTypes
<1> QED BY <1>2, <1>3, <1>4, <1>5, <1>6, <1>7, <1>8, <1>9

\* A connection is listed, and a listed one ends: its task moves on and the entry changes.
LEMMA EntryMoves ==
    ASSUME LinkTypes, NEW e \in Routers, NEW c \in Conns, Lists(e, c)
    PROVE  /\ LinkTypes'
           /\ \/ pc[e][c] = "insert" /\ pc'[e][c] = "cast" /\ wan_peers'[e] = c
              \/ pc[e][c] = "remove" /\ pc'[e][c] = "closed" /\ wan_peers'[e] = NoConn
           /\ \A f \in Routers, t \in Tasks : <<f, t>> # <<e, c>> => pc'[f][t] = pc[f][t]
           /\ wan_peers'[Other(e)] = wan_peers[Other(e)]
           /\ UNCHANGED <<wire, wan_session_epochs, epoch, lsa_seq, nodes, cast, lsa_state,
                          accepted, rejected, heard>>
<1> USE DEF Lists
<1>1. c \in Tasks /\ "cast" \in Places /\ "closed" \in Places /\ Other(e) \in Routers /\ Other(e) # e
  BY TwoRouters DEF Places, Greeted
<1>2. UNCHANGED <<wire, wan_session_epochs, epoch, lsa_seq, nodes, cast, lsa_state,
                  accepted, rejected, heard>>
  BY DEF InsertPeer, RemovePeer, linkVars, sendVars, lsaVars
<1>3. CASE InsertPeer(e, c)
  <2>1. Goto(e, c, "cast") /\ pc[e][c] = "insert"
    BY <1>3 DEF InsertPeer
  <2>2. /\ pc' \in [Routers -> [Tasks -> Places]]
        /\ pc'[e][c] = "cast"
        /\ \A f \in Routers, u \in Tasks : <<f, u>> # <<e, c>> => pc'[f][u] = pc[f][u]
    BY <1>1, <2>1, GotoMoves
  <2>3. /\ wan_peers' \in [Routers -> Conns \cup {NoConn}]
        /\ wan_peers'[e] = c /\ wan_peers'[Other(e)] = wan_peers[Other(e)]
    BY <1>1, <1>3 DEF InsertPeer, LinkTypes
  <2>4. LinkTypes'
    BY <1>2, <2>2, <2>3 DEF LinkTypes
  <2> QED BY <1>2, <2>1, <2>2, <2>3, <2>4
<1>4. CASE RemovePeer(e, c)
  <2>1. Goto(e, c, "closed") /\ pc[e][c] = "remove"
    BY <1>4 DEF RemovePeer
  <2>2. /\ pc' \in [Routers -> [Tasks -> Places]]
        /\ pc'[e][c] = "closed"
        /\ \A f \in Routers, u \in Tasks : <<f, u>> # <<e, c>> => pc'[f][u] = pc[f][u]
    BY <1>1, <2>1, GotoMoves
  <2>3. /\ wan_peers' \in [Routers -> Conns \cup {NoConn}]
        /\ wan_peers'[e] = NoConn /\ wan_peers'[Other(e)] = wan_peers[Other(e)]
    BY <1>1, <1>4 DEF RemovePeer, LinkTypes
  <2>4. LinkTypes'
    BY <1>2, <2>2, <2>3 DEF LinkTypes
  <2> QED BY <1>2, <2>1, <2>2, <2>3, <2>4
<1> QED BY <1>3, <1>4

\* A task that only moves on: a link that ends, the beacon, and a broadcast with no peer.
LEMMA WaitMoves ==
    ASSUME LinkTypes, NEW e \in Routers, NEW t \in Tasks, Waits(e, t)
    PROVE  /\ LinkTypes'
           /\ \/ t \in Conns /\ pc[e][t] \in {"serve", "cast"} /\ pc'[e][t] \in {"serve", "remove"}
              \/ t \notin Conns /\ pc[e][t] \in {"idle", "cast"} /\ pc'[e][t] \in {"idle", "cast"}
           /\ \A f \in Routers, u \in Tasks : <<f, u>> # <<e, t>> => pc'[f][u] = pc[f][u]
           /\ UNCHANGED <<wire, wan_peers, wan_session_epochs, epoch, lsa_seq, nodes, cast, lsa_state,
                          accepted, rejected, heard>>
<1> USE DEF Waits
<1>1. {"remove", "cast", "serve", "idle"} \subseteq Places
  BY DEF Places, Greeted
<1>2. UNCHANGED <<wire, wan_peers, wan_session_epochs, epoch, lsa_seq, nodes, cast, lsa_state,
                  accepted, rejected, heard>>
  BY DEF LinkEnds, Beacon, CastSeq, linkVars, peerVars, sendVars, lsaVars
<1>3. PICK place \in Places :
        /\ Goto(e, t, place)
        /\ \/ t \in Conns /\ pc[e][t] \in {"serve", "cast"} /\ place \in {"serve", "remove"}
           \/ t \notin Conns /\ pc[e][t] \in {"idle", "cast"} /\ place \in {"idle", "cast"}
  <2>1. CASE t \in Conns /\ LinkEnds(e, t)
    BY <1>1, <2>1 DEF LinkEnds
  <2>2. CASE t = "beacon" /\ Beacon(e)
    BY <1>1, <2>2, LinksAssumption DEF Beacon
  <2>3. CASE CastSeq(e, t) /\ (wan_peers[e] = NoConn \/ e \notin Senders)
    BY <1>1, <2>3 DEF CastSeq, AfterCast
  <2> QED BY <2>1, <2>2, <2>3
<1>4. /\ pc' \in [Routers -> [Tasks -> Places]]
      /\ pc'[e][t] = place
      /\ \A f \in Routers, u \in Tasks : <<f, u>> # <<e, t>> => pc'[f][u] = pc[f][u]
  BY <1>3, GotoMoves
<1>5. LinkTypes'
  BY <1>2, <1>4 DEF LinkTypes
<1> QED BY <1>2, <1>3, <1>4, <1>5

\* A broadcast takes its seq.
LEMMA CastSeqMoves ==
    ASSUME LinkTypes, NEW e \in Routers, NEW t \in Tasks, TakesSeq(e, t)
    PROVE  /\ LinkTypes'
           /\ pc[e][t] = "cast" /\ pc'[e][t] = "build"
           /\ \A f \in Routers, u \in Tasks : <<f, u>> # <<e, t>> => pc'[f][u] = pc[f][u]
           /\ wan_peers[e] \in Conns
           /\ lsa_seq'[e] = lsa_seq[e] + 1 /\ lsa_seq'[Other(e)] = lsa_seq[Other(e)]
           /\ cast'[e][t].peer = wan_peers[e] /\ cast'[e][t].seq = lsa_seq[e] + 1
           /\ cast'[e][t].since = nodes[e]
           /\ \A f \in Routers, u \in Tasks : <<f, u>> # <<e, t>> => cast'[f][u] = cast[f][u]
           /\ UNCHANGED <<wire, wan_peers, wan_session_epochs, epoch, nodes, lsa_state,
                          accepted, rejected, heard>>
<1> USE DEF TakesSeq
<1>1. "build" \in Places /\ Other(e) \in Routers /\ Other(e) # e
  BY TwoRouters DEF Places, Greeted
<1>2. UNCHANGED <<wire, wan_peers, wan_session_epochs, epoch, nodes, lsa_state,
                  accepted, rejected, heard>>
  BY DEF CastSeq, linkVars, peerVars, lsaVars
<1>3. pc[e][t] = "cast" /\ Goto(e, t, "build") /\ lsa_seq' = [lsa_seq EXCEPT ![e] = @ + 1]
  BY DEF CastSeq
<1>4. /\ pc' \in [Routers -> [Tasks -> Places]]
      /\ pc'[e][t] = "build"
      /\ \A f \in Routers, u \in Tasks : <<f, u>> # <<e, t>> => pc'[f][u] = pc[f][u]
  BY <1>1, <1>3, GotoMoves
<1>5. /\ lsa_seq' \in [Routers -> Nat]
      /\ lsa_seq'[e] = lsa_seq[e] + 1 /\ lsa_seq'[Other(e)] = lsa_seq[Other(e)]
  <2>1. PICK n \in Nat : n = lsa_seq[e] + 1
    BY DEF LinkTypes
  <2>2. lsa_seq' = [lsa_seq EXCEPT ![e] = n]
    BY <1>3, <2>1 DEF LinkTypes
  <2> QED BY <1>1, <2>1, <2>2 DEF LinkTypes
<1>6. wan_peers[e] \in Conns
  BY DEF LinkTypes
<1>7. PICK m : m = [peer |-> wan_peers[e], seq |-> lsa_seq[e] + 1, nodes |-> 0, since |-> nodes[e]]
  OBVIOUS
<1>8. m \in Casts /\ m.peer = wan_peers[e] /\ m.seq = lsa_seq[e] + 1 /\ m.since = nodes[e]
  BY <1>6, <1>7 DEF Casts, LinkTypes
<1>9. cast' = [cast EXCEPT ![e][t] = m]
  BY <1>7 DEF CastSeq
<1>10. /\ cast' \in [Routers -> [Tasks -> Casts]]
       /\ cast'[e][t] = m
       /\ \A f \in Routers, u \in Tasks : <<f, u>> # <<e, t>> => cast'[f][u] = cast[f][u]
  BY <1>8, <1>9 DEF LinkTypes
<1>11. LinkTypes'
  BY <1>2, <1>4, <1>5, <1>10 DEF LinkTypes
<1> QED BY <1>2, <1>3, <1>4, <1>5, <1>6, <1>8, <1>10, <1>11

\* A broadcast builds its payload.
LEMMA CastBuildMoves ==
    ASSUME LinkTypes, NEW e \in Routers, NEW t \in Tasks, CastBuild(e, t)
    PROVE  /\ LinkTypes'
           /\ pc[e][t] = "build" /\ pc'[e][t] = "send"
           /\ \A f \in Routers, u \in Tasks : <<f, u>> # <<e, t>> => pc'[f][u] = pc[f][u]
           /\ cast'[e][t].peer = cast[e][t].peer /\ cast'[e][t].seq = cast[e][t].seq
           /\ cast'[e][t].since = cast[e][t].since /\ cast'[e][t].nodes = nodes[e]
           /\ \A f \in Routers, u \in Tasks : <<f, u>> # <<e, t>> => cast'[f][u] = cast[f][u]
           /\ UNCHANGED <<wire, wan_peers, wan_session_epochs, epoch, lsa_seq, nodes, lsa_state,
                          accepted, rejected, heard>>
<1>1. "send" \in Places
  BY DEF Places, Greeted
<1>2. UNCHANGED <<wire, wan_peers, wan_session_epochs, epoch, lsa_seq, nodes, lsa_state,
                  accepted, rejected, heard>>
  BY DEF CastBuild, linkVars, peerVars, lsaVars
<1>3. pc[e][t] = "build" /\ Goto(e, t, "send")
  BY DEF CastBuild
<1>4. /\ pc' \in [Routers -> [Tasks -> Places]]
      /\ pc'[e][t] = "send"
      /\ \A f \in Routers, u \in Tasks : <<f, u>> # <<e, t>> => pc'[f][u] = pc[f][u]
  BY <1>1, <1>3, GotoMoves
<1>5. PICK m : m = [cast[e][t] EXCEPT !.nodes = nodes[e]]
  OBVIOUS
<1>6. /\ m \in Casts /\ m.peer = cast[e][t].peer /\ m.seq = cast[e][t].seq
      /\ m.since = cast[e][t].since /\ m.nodes = nodes[e]
  <2>1. cast[e][t] \in Casts /\ nodes[e] \in Nat
    BY DEF LinkTypes
  <2> QED BY <1>5, <2>1 DEF Casts
<1>7. cast' = [cast EXCEPT ![e][t] = m]
  BY <1>5 DEF CastBuild
<1>8. /\ cast' \in [Routers -> [Tasks -> Casts]]
      /\ cast'[e][t] = m
      /\ \A f \in Routers, u \in Tasks : <<f, u>> # <<e, t>> => cast'[f][u] = cast[f][u]
  BY <1>6, <1>7 DEF LinkTypes
<1>9. LinkTypes'
  BY <1>2, <1>4, <1>8 DEF LinkTypes
<1> QED BY <1>2, <1>3, <1>4, <1>6, <1>8, <1>9

\* A broadcast queues its LSA for a link that is up.
LEMMA CastSendMoves ==
    ASSUME LinkTypes, CastsOk, NEW e \in Routers, NEW t \in Tasks, CastSend(e, t)
    PROVE  /\ LinkTypes'
           /\ pc[e][t] = "send"
           /\ IF t \in Conns THEN pc'[e][t] = "serve" ELSE pc'[e][t] = "idle"
           /\ \A f \in Routers, u \in Tasks : <<f, u>> # <<e, t>> => pc'[f][u] = pc[f][u]
           /\ \E m \in Lsas :
                 /\ m.seq = cast[e][t].seq /\ m.nodes = cast[e][t].nodes /\ m.since = cast[e][t].since
                 /\ \A c \in Conns, f \in Routers :
                       \/ wire'[c][f] = wire[c][f]
                       \/ /\ c = cast[e][t].peer /\ f = Other(e) /\ ~Ended(e, c)
                          /\ wire'[c][f] = Append(wire[c][f], m)
           /\ \A f \in Routers, u \in Tasks : <<f, u>> # <<e, t>> => cast'[f][u] = cast[f][u]
           /\ UNCHANGED <<wan_peers, wan_session_epochs, epoch, lsa_seq, nodes, lsa_state,
                          accepted, rejected, heard>>
<1>1. AfterCast(t) \in Places /\ (IF t \in Conns THEN AfterCast(t) = "serve" ELSE AfterCast(t) = "idle")
  BY DEF Places, Greeted, AfterCast
<1>2. UNCHANGED <<wan_peers, wan_session_epochs, epoch, lsa_seq, nodes, lsa_state,
                  accepted, rejected, heard>>
  BY DEF CastSend, peerVars, lsaVars
<1>3. pc[e][t] = "send" /\ Goto(e, t, AfterCast(t)) /\ cast' = [cast EXCEPT ![e][t] = NoCast]
  BY DEF CastSend
<1>4. /\ pc' \in [Routers -> [Tasks -> Places]]
      /\ pc'[e][t] = AfterCast(t)
      /\ \A f \in Routers, u \in Tasks : <<f, u>> # <<e, t>> => pc'[f][u] = pc[f][u]
  BY <1>1, <1>3, GotoMoves
<1>5. /\ cast' \in [Routers -> [Tasks -> Casts]]
      /\ \A f \in Routers, u \in Tasks : <<f, u>> # <<e, t>> => cast'[f][u] = cast[f][u]
  <2>1. NoCast \in Casts
    BY DEF NoCast, Casts
  <2> QED BY <1>3, <2>1 DEF LinkTypes
<1>6. PICK m : m = [kind |-> "lsa", seq |-> cast[e][t].seq, nodes |-> cast[e][t].nodes,
                    since |-> cast[e][t].since]
  OBVIOUS
<1>7. PICK p : p = cast[e][t].peer
  OBVIOUS
<1>8. p \in Conns /\ m \in Lsas
  <2>1. /\ cast[e][t].peer \in Conns /\ cast[e][t].seq # 0 /\ cast[e][t].since \in Nat
    BY <1>3 DEF CastsOk, CastOk, Casting
  <2>2. cast[e][t].seq \in Nat /\ cast[e][t].nodes \in Nat
    BY DEF LinkTypes, Casts
  <2> QED BY <1>6, <1>7, <2>1, <2>2 DEF Lsas
<1>9. wire' = IF Ended(e, p) THEN wire ELSE Sent(p, Other(e), m)
  BY <1>6, <1>7 DEF CastSend
<1>10. /\ wire' \in [Conns -> [Routers -> Seq(AnyFrame)]]
       /\ \A c \in Conns, f \in Routers :
             \/ wire'[c][f] = wire[c][f]
             \/ /\ c = p /\ f = Other(e) /\ ~Ended(e, c)
                /\ wire'[c][f] = Append(wire[c][f], m)
  <2>1. CASE Ended(e, p)
    <3>1. wire' = wire
      BY <1>9, <2>1
    <3> QED BY <3>1 DEF LinkTypes
  <2>2. CASE ~Ended(e, p)
    <3>1. wire' = Sent(p, Other(e), m)
      BY <1>9, <2>2
    <3>2. m \in AnyFrame /\ Other(e) \in Routers
      BY <1>8, FrameKinds, TwoRouters
    <3>3. PICK w : w = Sent(p, Other(e), m)
      OBVIOUS
    <3>4. /\ w \in [Conns -> [Routers -> Seq(AnyFrame)]]
          /\ w[p][Other(e)] \in {wire[p][Other(e)], Append(wire[p][Other(e)], m)}
          /\ \A d \in Conns, f \in Routers : <<d, f>> # <<p, Other(e)>> => w[d][f] = wire[d][f]
      BY <1>8, <3>2, <3>3, SentMoves
    <3> QED BY <2>2, <3>1, <3>3, <3>4
  <2> QED BY <2>1, <2>2
<1>11. LinkTypes'
  BY <1>2, <1>4, <1>5, <1>10 DEF LinkTypes
<1>12. m.seq = cast[e][t].seq /\ m.nodes = cast[e][t].nodes /\ m.since = cast[e][t].since
  BY <1>6
<1> QED BY <1>1, <1>2, <1>3, <1>4, <1>5, <1>7, <1>8, <1>10, <1>11, <1>12

\* A node comes or goes.
LEMMA NodeChangeMoves ==
    ASSUME LinkTypes, NEW e \in Routers, NodeChange(e)
    PROVE  /\ LinkTypes'
           /\ "node" \notin Conns /\ pc[e]["node"] = "idle" /\ pc'[e]["node"] = "cast"
           /\ \A f \in Routers, u \in Tasks : <<f, u>> # <<e, "node">> => pc'[f][u] = pc[f][u]
           /\ nodes'[e] = nodes[e] + 1 /\ nodes'[Other(e)] = nodes[Other(e)]
           /\ UNCHANGED <<wire, wan_peers, wan_session_epochs, epoch, lsa_seq, cast, lsa_state,
                          accepted, rejected, heard>>
<1>1. "node" \in Tasks /\ "cast" \in Places /\ "node" \notin Conns
  BY LinksAssumption DEF Tasks, Places, Greeted
<1>2. UNCHANGED <<wire, wan_peers, wan_session_epochs, epoch, lsa_seq, cast, lsa_state,
                  accepted, rejected, heard>>
  BY DEF NodeChange, linkVars, peerVars, lsaVars
<1>3. pc[e]["node"] = "idle" /\ Goto(e, "node", "cast")
  BY DEF NodeChange
<1>4. /\ pc' \in [Routers -> [Tasks -> Places]]
      /\ pc'[e]["node"] = "cast"
      /\ \A f \in Routers, u \in Tasks : <<f, u>> # <<e, "node">> => pc'[f][u] = pc[f][u]
  BY <1>1, <1>3, GotoMoves
<1>5. /\ nodes' \in [Routers -> Nat]
      /\ nodes'[e] = nodes[e] + 1 /\ nodes'[Other(e)] = nodes[Other(e)]
  <2>1. PICK n \in Nat : n = nodes[e] + 1
    BY DEF LinkTypes
  <2>2. nodes' = [nodes EXCEPT ![e] = n]
    BY <2>1 DEF NodeChange, LinkTypes
  <2>3. Other(e) \in Routers /\ Other(e) # e
    BY TwoRouters
  <2> QED BY <2>1, <2>2, <2>3 DEF LinkTypes
<1>6. LinkTypes'
  BY <1>2, <1>4, <1>5 DEF LinkTypes
<1> QED BY <1>1, <1>2, <1>3, <1>4, <1>5, <1>6

\* A read fails.
LEMMA ReadFailsMoves ==
    ASSUME LinkTypes, NEW e \in Routers, NEW c \in Conns, ReadFails(e, c)
    PROVE  /\ LinkTypes'
           /\ pc[e][c] = "serve" /\ pc'[e][c] = "closed"
           /\ \A f \in Routers, u \in Tasks : <<f, u>> # <<e, c>> => pc'[f][u] = pc[f][u]
           /\ wire'[c][e] = <<>>
           /\ \A d \in Conns, f \in Routers : <<d, f>> # <<c, e>> => wire'[d][f] = wire[d][f]
           /\ UNCHANGED <<wan_peers, wan_session_epochs, epoch, lsa_seq, nodes, cast, lsa_state,
                          accepted, rejected, heard>>
<1>1. c \in Tasks /\ "closed" \in Places
  BY DEF Tasks, Places
<1>2. UNCHANGED <<wan_peers, wan_session_epochs, epoch, lsa_seq, nodes, cast, lsa_state,
                  accepted, rejected, heard>>
  BY DEF ReadFails, peerVars, sendVars, lsaVars
<1>3. pc[e][c] = "serve" /\ Goto(e, c, "closed") /\ wire' = [wire EXCEPT ![c][e] = <<>>]
  BY DEF ReadFails
<1>4. /\ pc' \in [Routers -> [Tasks -> Places]]
      /\ pc'[e][c] = "closed"
      /\ \A f \in Routers, u \in Tasks : <<f, u>> # <<e, c>> => pc'[f][u] = pc[f][u]
  BY <1>1, <1>3, GotoMoves
<1>5. /\ wire' \in [Conns -> [Routers -> Seq(AnyFrame)]]
      /\ wire'[c][e] = <<>>
      /\ \A d \in Conns, f \in Routers : <<d, f>> # <<c, e>> => wire'[d][f] = wire[d][f]
  BY <1>3, ClearedMoves
<1>6. LinkTypes'
  BY <1>2, <1>4, <1>5 DEF LinkTypes
<1> QED BY <1>2, <1>3, <1>4, <1>5, <1>6

\* Whether apply_lsa_payload takes an LSA: of another session, or of a higher seq.
Fresh(e, c, m) == lsa_state[e].session_epoch = epoch[e][c] => m.seq > lsa_state[e].last_seq

\* The LSA a session reads is applied or, being overtaken, rejected.
LEMMA ReceiveLsaMoves ==
    ASSUME LinkTypes, WireOk, NEW e \in Routers, NEW c \in Conns, ReceiveLsa(e, c)
    PROVE  /\ LinkTypes'
           /\ pc[e][c] = "serve" /\ pc' = pc
           /\ wire[c][e] # <<>> /\ wire'[c][e] = Tail(wire[c][e])
           /\ \A d \in Conns, f \in Routers : <<d, f>> # <<c, e>> => wire'[d][f] = wire[d][f]
           /\ \E m \in Lsas :
                 /\ m = Head(wire[c][e])
                 /\ IF Fresh(e, c, m)
                    THEN /\ lsa_state'[e] =
                              [session_epoch |-> epoch[e][c], last_seq |-> m.seq, nodes |-> m.nodes]
                         /\ accepted'[e][c] >= accepted[e][c] /\ accepted'[e][c] >= m.seq
                         /\ rejected' = rejected
                    ELSE /\ lsa_state'[e] = lsa_state[e]
                         /\ rejected'[e][c] \in {rejected[e][c], m.seq}
                         /\ accepted' = accepted
                 /\ heard'[e] = IF OnlySession(e, c) THEN Higher(heard[e], m.since) ELSE heard[e]
           /\ lsa_state'[Other(e)] = lsa_state[Other(e)]
           /\ \A f \in Routers, d \in Conns : <<f, d>> # <<e, c>> =>
                 accepted'[f][d] = accepted[f][d] /\ rejected'[f][d] = rejected[f][d]
           /\ heard'[Other(e)] = heard[Other(e)]
           /\ UNCHANGED <<wan_peers, wan_session_epochs, epoch, lsa_seq, nodes, cast>>
<1>1. Other(e) \in Routers /\ Other(e) # e
  BY TwoRouters
<1>2. UNCHANGED <<wan_peers, wan_session_epochs, epoch, lsa_seq, nodes, cast, pc>>
  BY DEF ReceiveLsa, peerVars, sendVars
<1>3. pc[e][c] = "serve" /\ wire[c][e] # <<>> /\ Received(e, c)
  BY DEF ReceiveLsa
<1>4. /\ wire' \in [Conns -> [Routers -> Seq(AnyFrame)]]
      /\ wire'[c][e] = Tail(wire[c][e])
      /\ \A d \in Conns, f \in Routers : <<d, f>> # <<c, e>> => wire'[d][f] = wire[d][f]
  BY <1>3, ReceivedMoves
<1>5. PICK m \in Lsas : m = Head(wire[c][e])
  <2>1. Hello \in AnyFrame
    BY FrameKinds
  <2>2. Head(wire[c][e]) \in Frames(c, e)
    BY <1>3, <2>1, FramesMove
  <2>3. Frames(c, e) \subseteq Lsas
    BY <1>3 DEF WireOk, WireFor, Greeted
  <2> QED BY <2>2, <2>3
<1>6. m.seq \in Nat /\ m.seq # 0 /\ m.nodes \in Nat /\ m.since \in Nat
  BY FrameKinds
<1>7. PICK known : known = IF lsa_state[e].session_epoch = epoch[e][c] THEN lsa_state[e]
                           ELSE [lsa_state[e] EXCEPT !.session_epoch = epoch[e][c], !.last_seq = 0]
  OBVIOUS
<1>8. /\ known \in [session_epoch : Nat, last_seq : Nat, nodes : Nat]
      /\ known.session_epoch = epoch[e][c]
      /\ known.last_seq = (IF lsa_state[e].session_epoch = epoch[e][c] THEN lsa_state[e].last_seq ELSE 0)
      /\ lsa_state[e].session_epoch = epoch[e][c] => known = lsa_state[e]
  <2>1. lsa_state[e] \in [session_epoch : Nat, last_seq : Nat, nodes : Nat] /\ epoch[e][c] \in Nat
    BY DEF LinkTypes
  <2> QED BY <1>7, <2>1
<1>9. StaleSeq(known, m) <=> ~Fresh(e, c, m)
  BY <1>6, <1>8 DEF StaleSeq, Fresh
<1>10. heard' = [heard EXCEPT ![e] = IF OnlySession(e, c) THEN Higher(@, m.since) ELSE @]
  BY <1>5 DEF ReceiveLsa
<1>11. /\ heard' \in [Routers -> Nat \cup {-1}]
       /\ heard'[e] = IF OnlySession(e, c) THEN Higher(heard[e], m.since) ELSE heard[e]
       /\ heard'[Other(e)] = heard[Other(e)]
  <2>1. PICK h : h = IF OnlySession(e, c) THEN Higher(heard[e], m.since) ELSE heard[e]
    OBVIOUS
  <2>2. h \in Nat \cup {-1}
    BY <1>6, <2>1 DEF LinkTypes, Higher
  <2>3. heard' = [heard EXCEPT ![e] = h]
    BY <1>10, <2>1 DEF LinkTypes
  <2> QED BY <1>1, <2>1, <2>2, <2>3 DEF LinkTypes
<1>12. CASE Fresh(e, c, m)
  <2>1. PICK new : new = [known EXCEPT !.last_seq = m.seq, !.nodes = m.nodes]
    OBVIOUS
  <2>2. /\ new \in [session_epoch : Nat, last_seq : Nat, nodes : Nat]
        /\ new = [session_epoch |-> epoch[e][c], last_seq |-> m.seq, nodes |-> m.nodes]
    BY <1>6, <1>8, <2>1
  <2>3. lsa_state' = [lsa_state EXCEPT ![e] = new]
    BY <1>5, <1>7, <1>9, <1>12, <2>1 DEF ReceiveLsa
  <2>4. /\ lsa_state' \in [Routers -> [session_epoch : Nat, last_seq : Nat, nodes : Nat]]
        /\ lsa_state'[e] = new /\ lsa_state'[Other(e)] = lsa_state[Other(e)]
    BY <1>1, <2>2, <2>3 DEF LinkTypes
  <2>5. accepted' = [accepted EXCEPT ![e][c] = Higher(@, m.seq)] /\ rejected' = rejected
    BY <1>5, <1>7, <1>9, <1>12 DEF ReceiveLsa
  <2>6. PICK h : h = Higher(accepted[e][c], m.seq)
    OBVIOUS
  <2>7. h \in Nat /\ h >= accepted[e][c] /\ h >= m.seq
    BY <1>6, <2>6 DEF LinkTypes, Higher
  <2>8. accepted' = [accepted EXCEPT ![e][c] = h]
    BY <2>5, <2>6 DEF LinkTypes
  <2>9. /\ accepted' \in [Routers -> [Conns -> Nat]] /\ accepted'[e][c] = h
        /\ \A f \in Routers, d \in Conns : <<f, d>> # <<e, c>> => accepted'[f][d] = accepted[f][d]
    BY <2>7, <2>8 DEF LinkTypes
  <2>10. LinkTypes'
    BY <1>2, <1>4, <1>11, <2>4, <2>5, <2>9 DEF LinkTypes
  <2> QED BY <1>2, <1>3, <1>4, <1>5, <1>11, <1>12, <2>2, <2>4, <2>5, <2>7, <2>9, <2>10
<1>13. CASE ~Fresh(e, c, m)
  <2>1. known = lsa_state[e]
    BY <1>8, <1>13 DEF Fresh
  <2>2. lsa_state' = [lsa_state EXCEPT ![e] = known]
    BY <1>5, <1>7, <1>9, <1>13 DEF ReceiveLsa
  <2>3. /\ lsa_state' \in [Routers -> [session_epoch : Nat, last_seq : Nat, nodes : Nat]]
        /\ lsa_state'[e] = lsa_state[e] /\ lsa_state'[Other(e)] = lsa_state[Other(e)]
    BY <1>1, <2>1, <2>2 DEF LinkTypes
  <2>4. rejected' = [rejected EXCEPT ![e][c] = Higher(@, m.seq)] /\ accepted' = accepted
    BY <1>5, <1>7, <1>9, <1>13 DEF ReceiveLsa
  <2>5. PICK h : h = Higher(rejected[e][c], m.seq)
    OBVIOUS
  <2>6. h \in Nat /\ h \in {rejected[e][c], m.seq}
    BY <1>6, <2>5 DEF LinkTypes, Higher
  <2>7. rejected' = [rejected EXCEPT ![e][c] = h]
    BY <2>4, <2>5 DEF LinkTypes
  <2>8. /\ rejected' \in [Routers -> [Conns -> Nat]] /\ rejected'[e][c] = h
        /\ \A f \in Routers, d \in Conns : <<f, d>> # <<e, c>> => rejected'[f][d] = rejected[f][d]
    BY <2>6, <2>7 DEF LinkTypes
  <2>9. LinkTypes'
    BY <1>2, <1>4, <1>11, <2>3, <2>4, <2>8 DEF LinkTypes
  <2> QED BY <1>2, <1>3, <1>4, <1>5, <1>11, <1>13, <2>3, <2>4, <2>6, <2>8, <2>9
<1> QED BY <1>12, <1>13

\* A router starts again.
LEMMA RestartMoves ==
    ASSUME LinkTypes, NEW e \in Routers, Restart(e)
    PROVE  /\ LinkTypes'
           /\ \A c \in Conns : pc'[e][c] \in {"none", "closed"} /\ (pc'[e][c] = "none" <=> pc[e][c] = "none")
           /\ \A t \in Tasks : ~Casting(e, t)'
           /\ \A t \in Tasks : pc'[Other(e)][t] = pc[Other(e)][t] /\ cast'[Other(e)][t] = cast[Other(e)][t]
           /\ wan_peers'[e] = NoConn /\ wan_peers'[Other(e)] = wan_peers[Other(e)]
           /\ wan_session_epochs'[e] = 0 /\ wan_session_epochs'[Other(e)] = wan_session_epochs[Other(e)]
           /\ \A c \in Conns : epoch'[e][c] = 0 /\ epoch'[Other(e)][c] = epoch[Other(e)][c]
           /\ lsa_seq'[Other(e)] = lsa_seq[Other(e)]
           /\ lsa_state'[e] = NoLsa /\ lsa_state'[Other(e)] = lsa_state[Other(e)]
           /\ nodes'[e] = nodes[e] + 1 /\ nodes'[Other(e)] = nodes[Other(e)]
           /\ heard'[e] = -1 /\ heard'[Other(e)] = heard[Other(e)]
           /\ UNCHANGED <<wire, accepted, rejected>>
<1>1. Other(e) \in Routers /\ Other(e) # e
  BY TwoRouters
<1>2. PICK places : places = [t \in Tasks |->
                IF t \notin Conns THEN "idle"
                ELSE IF pc[e][t] = "none" THEN "none" ELSE "closed"]
  OBVIOUS
<1>3. /\ places \in [Tasks -> Places]
      /\ \A c \in Conns : places[c] \in {"none", "closed"} /\ (places[c] = "none" <=> pc[e][c] = "none")
      /\ \A t \in Tasks : places[t] \notin {"build", "send"}
  BY <1>2 DEF Places, Tasks
<1>4. pc' = [pc EXCEPT ![e] = places]
  BY <1>2 DEF Restart
<1>5. /\ pc' \in [Routers -> [Tasks -> Places]]
      /\ pc'[e] = places /\ pc'[Other(e)] = pc[Other(e)]
  BY <1>1, <1>3, <1>4 DEF LinkTypes
<1>6. /\ wan_peers' \in [Routers -> Conns \cup {NoConn}]
      /\ wan_peers'[e] = NoConn /\ wan_peers'[Other(e)] = wan_peers[Other(e)]
  BY <1>1 DEF Restart, LinkTypes
<1>7. /\ wan_session_epochs' \in [Routers -> Nat]
      /\ wan_session_epochs'[e] = 0 /\ wan_session_epochs'[Other(e)] = wan_session_epochs[Other(e)]
  BY <1>1 DEF Restart, LinkTypes
<1>8. /\ epoch' \in [Routers -> [Conns -> Nat]]
      /\ \A c \in Conns : epoch'[e][c] = 0 /\ epoch'[Other(e)][c] = epoch[Other(e)][c]
  BY <1>1 DEF Restart, LinkTypes
<1>9. lsa_seq' \in [Routers -> Nat] /\ lsa_seq'[Other(e)] = lsa_seq[Other(e)]
  BY <1>1 DEF Restart, LinkTypes
<1>10. cast' \in [Routers -> [Tasks -> Casts]] /\ cast'[Other(e)] = cast[Other(e)]
  <2>1. [t \in Tasks |-> NoCast] \in [Tasks -> Casts]
    BY DEF NoCast, Casts
  <2> QED BY <1>1, <2>1 DEF Restart, LinkTypes
<1>11. /\ lsa_state' \in [Routers -> [session_epoch : Nat, last_seq : Nat, nodes : Nat]]
       /\ lsa_state'[e] = NoLsa /\ lsa_state'[Other(e)] = lsa_state[Other(e)]
  <2>1. NoLsa \in [session_epoch : Nat, last_seq : Nat, nodes : Nat]
    BY DEF NoLsa
  <2> QED BY <1>1, <2>1 DEF Restart, LinkTypes
<1>12. /\ nodes' \in [Routers -> Nat]
       /\ nodes'[e] = nodes[e] + 1 /\ nodes'[Other(e)] = nodes[Other(e)]
  <2>1. PICK n \in Nat : n = nodes[e] + 1
    BY DEF LinkTypes
  <2>2. nodes' = [nodes EXCEPT ![e] = n]
    BY <2>1 DEF Restart, LinkTypes
  <2> QED BY <1>1, <2>1, <2>2 DEF LinkTypes
<1>13. heard' \in [Routers -> Nat \cup {-1}] /\ heard'[e] = -1 /\ heard'[Other(e)] = heard[Other(e)]
  BY <1>1 DEF Restart, LinkTypes
<1>14. UNCHANGED <<wire, accepted, rejected>>
  BY DEF Restart, linkVars
<1>15. LinkTypes'
  BY <1>5, <1>6, <1>7, <1>8, <1>9, <1>10, <1>11, <1>12, <1>13, <1>14 DEF LinkTypes
<1>16. \A t \in Tasks : ~Casting(e, t)'
  BY <1>3, <1>5 DEF Casting
<1> QED BY <1>3, <1>5, <1>6, <1>7, <1>8, <1>9, <1>10, <1>11, <1>12, <1>13, <1>14, <1>15, <1>16

\* A cut, a removal from the registry and a step that does nothing leave all of this alone.
LEMMA StillMoves ==
    ASSUME LinkTypes, Stands
    PROVE  /\ LinkTypes'
           /\ UNCHANGED <<pc, wire, wan_peers, wan_session_epochs, epoch, lsa_seq, nodes, cast, lsa_state,
                          accepted, rejected, heard>>
<1>1. UNCHANGED <<pc, wire, wan_peers, wan_session_epochs, epoch, lsa_seq, nodes, cast, lsa_state,
                  accepted, rejected, heard>>
  BY DEF Stands, Cut, Unregister, vars, linkVars, peerVars, sendVars, lsaVars
<1> QED BY <1>1 DEF LinkTypes

----------------------------------------------------------------------------
(* The types, the uplink, and the LSAs being sent. *)

\* Every step keeps the types.
LEMMA TypesKept ==
    ASSUME LinkTypes, CastsOk, WireOk, [Next]_vars
    PROVE  LinkTypes'
BY LinkSteps, DialMoves, HandshakeMoves, TakeEpochMoves, EntryMoves, ReceiveLsaMoves, ReadFailsMoves,
   WaitMoves, CastSeqMoves, CastBuildMoves, CastSendMoves, NodeChangeMoves, RestartMoves, StillMoves, Zenon

\* The uplink is kept by a step that opens no link at the spoke and keeps the entry there.
LEMMA UplinkFrame ==
    ASSUME OneUplink, UplinkListed,
           \A c \in Conns : Ended("spoke", c) => Ended("spoke", c)',
           \A c \in Conns : Serving("spoke", c)' => Serving("spoke", c),
           wan_peers'["spoke"] = wan_peers["spoke"]
    PROVE  OneUplink' /\ UplinkListed'
BY DEF OneUplink, UplinkListed

\* One link at a time, and it is the one that is listed.
LEMMA UplinkKept ==
    ASSUME LinkTypes, CastsOk, WireOk, OneUplink, UplinkListed, [Next]_vars
    PROVE  OneUplink' /\ UplinkListed'
<1>0. "spoke" \in Routers /\ Conns \subseteq Tasks /\ Other("hub") = "spoke"
      /\ \A e \in Routers : e # "spoke" => Other(e) = "spoke"
  BY DEF Routers, Tasks, Other
<1>1. ASSUME NEW c \in Conns, Dial(c) PROVE OneUplink' /\ UplinkListed'
  <2>1. /\ \A d \in Conns : Ended("spoke", d)
        /\ \A d \in Conns \ {c} : pc'["spoke"][d] = pc["spoke"][d]
        /\ pc'["spoke"][c] = "hello"
    BY <1>0, <1>1, DialMoves
  <2>2. \A d \in Conns \ {c} : Ended("spoke", d)'
    BY <2>1 DEF Ended
  <2>3. \A d \in Conns : ~Serving("spoke", d)'
    BY <2>1, <2>2 DEF Ended, Serving
  <2> QED BY <2>2, <2>3 DEF OneUplink, UplinkListed
<1>2. ASSUME NEW e \in Routers, NEW c \in Conns, Greets(e, c) \/ TakeEpoch(e, c) \/ ReadFails(e, c)
      PROVE  OneUplink' /\ UplinkListed'
  <2>1. /\ pc[e][c] \in {"hello", "epoch", "serve"} /\ pc'[e][c] \in {"epoch", "closed", "insert"}
        /\ \A f \in Routers, t \in Tasks : <<f, t>> # <<e, c>> => pc'[f][t] = pc[f][t]
        /\ wan_peers' = wan_peers
    BY <1>2, HandshakeMoves, TakeEpochMoves, ReadFailsMoves
  <2>2. /\ \A d \in Conns : Ended("spoke", d) => Ended("spoke", d)'
        /\ \A d \in Conns : Serving("spoke", d)' => Serving("spoke", d)
    BY <1>0, <2>1 DEF Ended, Serving
  <2> QED BY <2>1, <2>2, UplinkFrame
<1>3. ASSUME NEW e \in Routers, NEW c \in Conns, Lists(e, c) PROVE OneUplink' /\ UplinkListed'
  <2>1. /\ \/ pc[e][c] = "insert" /\ pc'[e][c] = "cast" /\ wan_peers'[e] = c
           \/ pc[e][c] = "remove" /\ pc'[e][c] = "closed" /\ wan_peers'[e] = NoConn
        /\ \A f \in Routers, t \in Tasks : <<f, t>> # <<e, c>> => pc'[f][t] = pc[f][t]
        /\ wan_peers'[Other(e)] = wan_peers[Other(e)]
    BY <1>3, EntryMoves
  <2>2. CASE e = "spoke"
    <3>1. \A d \in Conns \ {c} : Ended("spoke", d) /\ pc'["spoke"][d] = pc["spoke"][d]
      BY <1>0, <2>1, <2>2 DEF OneUplink, Ended
    <3>2. \A d \in Conns \ {c} : Ended("spoke", d)' /\ ~Serving("spoke", d)'
      BY <3>1 DEF Ended, Serving
    <3>3. Serving("spoke", c)' => wan_peers'["spoke"] = c
      BY <2>1, <2>2 DEF Serving
    <3> QED BY <3>2, <3>3 DEF OneUplink, UplinkListed
  <2>3. CASE e # "spoke"
    <3>1. wan_peers'["spoke"] = wan_peers["spoke"] /\ \A d \in Conns : pc'["spoke"][d] = pc["spoke"][d]
      BY <1>0, <2>1, <2>3
    <3>2. /\ \A d \in Conns : Ended("spoke", d) => Ended("spoke", d)'
          /\ \A d \in Conns : Serving("spoke", d)' => Serving("spoke", d)
      BY <3>1 DEF Ended, Serving
    <3> QED BY <3>1, <3>2, UplinkFrame
  <2> QED BY <2>2, <2>3
<1>4. ASSUME NEW e \in Routers, NEW t \in Tasks,
             Waits(e, t) \/ TakesSeq(e, t) \/ CastBuild(e, t) \/ CastSend(e, t)
      PROVE  OneUplink' /\ UplinkListed'
  <2>1. /\ t \in Conns => /\ pc[e][t] \in {"serve", "cast", "build", "send"}
                          /\ pc'[e][t] \in {"serve", "remove", "build", "send"}
        /\ \A f \in Routers, u \in Tasks : <<f, u>> # <<e, t>> => pc'[f][u] = pc[f][u]
        /\ wan_peers' = wan_peers
    BY <1>4, WaitMoves, CastSeqMoves, CastBuildMoves, CastSendMoves
  <2>2. /\ \A d \in Conns : Ended("spoke", d) => Ended("spoke", d)'
        /\ \A d \in Conns : Serving("spoke", d)' => Serving("spoke", d)
    BY <1>0, <2>1 DEF Ended, Serving
  <2> QED BY <2>1, <2>2, UplinkFrame
<1>5. ASSUME NEW e \in Routers, NodeChange(e) PROVE OneUplink' /\ UplinkListed'
  <2>1. /\ \A d \in Conns : pc'["spoke"][d] = pc["spoke"][d]
        /\ wan_peers' = wan_peers
    BY <1>0, <1>5, NodeChangeMoves
  <2>2. /\ \A d \in Conns : Ended("spoke", d) => Ended("spoke", d)'
        /\ \A d \in Conns : Serving("spoke", d)' => Serving("spoke", d)
    BY <2>1 DEF Ended, Serving
  <2> QED BY <2>1, <2>2, UplinkFrame
<1>6. ASSUME NEW e \in Routers, Restart(e) PROVE OneUplink' /\ UplinkListed'
  <2>1. CASE e = "spoke"
    <3>1. \A c \in Conns : Ended("spoke", c)' /\ ~Serving("spoke", c)'
      BY <1>6, <2>1, RestartMoves DEF Ended, Serving
    <3> QED BY <3>1 DEF OneUplink, UplinkListed
  <2>2. CASE e # "spoke"
    <3>1. wan_peers'["spoke"] = wan_peers["spoke"] /\ \A d \in Conns : pc'["spoke"][d] = pc["spoke"][d]
      BY <1>0, <1>6, <2>2, RestartMoves
    <3>2. /\ \A d \in Conns : Ended("spoke", d) => Ended("spoke", d)'
          /\ \A d \in Conns : Serving("spoke", d)' => Serving("spoke", d)
      BY <3>1 DEF Ended, Serving
    <3> QED BY <3>1, <3>2, UplinkFrame
  <2> QED BY <2>1, <2>2
<1>7. ASSUME (\E e \in Routers, c \in Conns : ReceiveLsa(e, c)) \/ Stands
      PROVE  OneUplink' /\ UplinkListed'
  <2>1. pc' = pc /\ wan_peers' = wan_peers
    BY <1>7, ReceiveLsaMoves, StillMoves
  <2> QED BY <2>1 DEF OneUplink, UplinkListed, Serving, Ended
<1> QED BY <1>1, <1>2, <1>3, <1>4, <1>5, <1>6, <1>7, LinkSteps

\* A link that was listed is listed, or ended, for good.
LEMMA ListedKept ==
    ASSUME LinkTypes, CastsOk, WireOk, [Next]_vars
    PROVE  \A e \in Routers, c \in Conns : pc[e][c] \in Listed => pc'[e][c] \in Listed
<1>0. Conns \subseteq Tasks /\ {"cast", "build", "send", "serve", "remove", "closed"} = Listed
  BY DEF Tasks, Listed, Opened, Greeted
<1> DEFINE Goal == \A e \in Routers, c \in Conns : pc[e][c] \in Listed => pc'[e][c] \in Listed
<1>1. ASSUME NEW c \in Conns, Dial(c) PROVE Goal
  <2>1. /\ pc["spoke"][c] = "none"
        /\ \A e \in Routers, t \in Tasks \ {c} : pc'[e][t] = pc[e][t]
    BY <1>1, DialMoves
  <2>2. \A e \in Routers : pc[e][c] = "none"
    BY <2>1, TwoRouters DEF WireOk, WireFor
  <2> QED BY <1>0, <2>1, <2>2
<1>2. ASSUME NEW e \in Routers, NEW c \in Conns,
             Greets(e, c) \/ TakeEpoch(e, c) \/ ReadFails(e, c) \/ Lists(e, c)
      PROVE  Goal
  <2>1. /\ pc[e][c] \in {"hello", "epoch"} \/ pc'[e][c] \in {"closed", "cast"}
        /\ \A f \in Routers, t \in Tasks : <<f, t>> # <<e, c>> => pc'[f][t] = pc[f][t]
    BY <1>2, HandshakeMoves, TakeEpochMoves, ReadFailsMoves, EntryMoves
  <2> QED BY <1>0, <2>1
<1>3. ASSUME NEW e \in Routers, NEW t \in Tasks,
             Waits(e, t) \/ TakesSeq(e, t) \/ CastBuild(e, t) \/ CastSend(e, t)
      PROVE  Goal
  <2>1. /\ t \in Conns => pc'[e][t] \in {"serve", "remove", "build", "send"}
        /\ \A f \in Routers, u \in Tasks : <<f, u>> # <<e, t>> => pc'[f][u] = pc[f][u]
    BY <1>3, WaitMoves, CastSeqMoves, CastBuildMoves, CastSendMoves
  <2> QED BY <1>0, <2>1
<1>4. ASSUME NEW e \in Routers, NodeChange(e) PROVE Goal
  BY <1>0, <1>4, NodeChangeMoves
<1>5. ASSUME NEW e \in Routers, Restart(e) PROVE Goal
  <2>1. \A c \in Conns : /\ pc'[e][c] \in {"none", "closed"} /\ (pc'[e][c] = "none" <=> pc[e][c] = "none")
                         /\ pc'[Other(e)][c] = pc[Other(e)][c]
    BY <1>0, <1>5, RestartMoves
  <2>2. \A f \in Routers : f = e \/ f = Other(e)
    BY DEF Routers, Other
  <2> QED BY <1>0, <2>1, <2>2
<1>6. ASSUME (\E e \in Routers, c \in Conns : ReceiveLsa(e, c)) \/ Stands PROVE Goal
  <2>1. pc' = pc
    BY <1>6, ReceiveLsaMoves, StillMoves
  <2> QED BY <2>1
<1> QED BY <1>1, <1>2, <1>3, <1>4, <1>5, <1>6, LinkSteps

\* A task that goes on sending the same LSA, or sends none.
LEMMA CastFrame ==
    ASSUME LinkTypes, LinkTypes', NEW e \in Routers, NEW t \in Tasks, CastOk(e, t),
           \A c \in Conns : pc[e][c] \in Listed => pc'[e][c] \in Listed,
           Casting(e, t)' => pc'[e][t] = pc[e][t] /\ cast'[e][t] = cast[e][t],
           nodes[e] <= nodes'[e]
    PROVE  CastOk(e, t)'
<1>1. nodes[e] \in Nat /\ nodes'[e] \in Nat /\ cast[e][t].nodes \in Nat
  BY DEF LinkTypes, Casts
<1>2. SUFFICES ASSUME Casting(e, t)'
               PROVE  /\ cast'[e][t].peer \in Conns /\ pc'[e][cast'[e][t].peer] \in Listed
                      /\ cast'[e][t].seq # 0 /\ cast'[e][t].since \in Nat /\ cast'[e][t].since <= nodes'[e]
                      /\ pc'[e][t] = "send" => /\ cast'[e][t].since <= cast'[e][t].nodes
                                               /\ cast'[e][t].nodes <= nodes'[e]
  BY DEF CastOk
<1>3. Casting(e, t) /\ pc'[e][t] = pc[e][t] /\ cast'[e][t] = cast[e][t]
  BY <1>2 DEF Casting
<1>4. /\ cast[e][t].peer \in Conns /\ pc[e][cast[e][t].peer] \in Listed
      /\ cast[e][t].seq # 0 /\ cast[e][t].since \in Nat /\ cast[e][t].since <= nodes[e]
      /\ pc[e][t] = "send" => /\ cast[e][t].since <= cast[e][t].nodes
                              /\ cast[e][t].nodes <= nodes[e]
  BY <1>3 DEF CastOk
<1> QED BY <1>1, <1>3, <1>4

\* What is being sent, and over what.
LEMMA CastsKept ==
    ASSUME LinkTypes, CastsOk, WireOk, [Next]_vars
    PROVE  CastsOk'
<1>0. Conns \subseteq Tasks /\ {"cast", "build", "send", "serve", "remove", "closed"} = Listed
  BY DEF Tasks, Listed, Opened, Greeted
<1>1. /\ LinkTypes'
      /\ \A e \in Routers, c \in Conns : pc[e][c] \in Listed => pc'[e][c] \in Listed
      /\ \A e \in Routers, t \in Tasks : CastOk(e, t)
      /\ \A e \in Routers : nodes[e] \in Nat /\ nodes'[e] \in Nat
  <2>1. LinkTypes'
    BY TypesKept
  <2> QED BY <2>1, ListedKept DEF CastsOk, LinkTypes
<1>2. ASSUME \A e \in Routers, c \in Conns : wan_peers'[e] = c => wan_peers[e] = c \/ pc'[e][c] \in Listed,
             \A e \in Routers, t \in Tasks :
                 Casting(e, t)' => pc'[e][t] = pc[e][t] /\ cast'[e][t] = cast[e][t],
             \A e \in Routers : nodes[e] <= nodes'[e]
      PROVE  CastsOk'
  <2>1. \A e \in Routers, c \in Conns : wan_peers'[e] = c => pc'[e][c] \in Listed
    BY <1>1, <1>2 DEF CastsOk
  <2>2. \A e \in Routers, t \in Tasks : CastOk(e, t)'
    BY <1>1, <1>2, CastFrame
  <2> QED BY <2>1, <2>2 DEF CastsOk
<1>3. ASSUME NEW c \in Conns, Dial(c) PROVE CastsOk'
  <2>1. /\ \A e \in Routers, t \in Tasks \ {c} : pc'[e][t] = pc[e][t]
        /\ \A e \in Routers : pc'[e][c] = "hello"
        /\ wan_peers' = wan_peers /\ nodes' = nodes /\ cast' = cast
    BY <1>3, DialMoves
  <2> QED BY <1>1, <1>2, <2>1 DEF Casting
<1>4. ASSUME NEW e \in Routers, NEW c \in Conns,
             Greets(e, c) \/ TakeEpoch(e, c) \/ ReadFails(e, c) \/ Lists(e, c)
      PROVE  CastsOk'
  <2>1. /\ pc'[e][c] \in {"epoch", "insert", "closed", "cast"}
        /\ \A f \in Routers, t \in Tasks : <<f, t>> # <<e, c>> => pc'[f][t] = pc[f][t]
        /\ nodes' = nodes /\ cast' = cast
        /\ wan_peers' = wan_peers \/ /\ wan_peers'[Other(e)] = wan_peers[Other(e)]
                                     /\ \/ pc'[e][c] = "cast" /\ wan_peers'[e] = c
                                        \/ wan_peers'[e] = NoConn
    BY <1>4, HandshakeMoves, TakeEpochMoves, ReadFailsMoves, EntryMoves
  <2>2. \A f \in Routers : f = e \/ f = Other(e)
    BY DEF Routers, Other
  <2>3. \A f \in Routers, d \in Conns : wan_peers'[f] = d => wan_peers[f] = d \/ pc'[f][d] \in Listed
    BY <1>0, <2>1, <2>2, LinksAssumption
  <2>4. \A f \in Routers, t \in Tasks : Casting(f, t)' => pc'[f][t] = pc[f][t] /\ cast'[f][t] = cast[f][t]
    BY <2>1 DEF Casting
  <2> QED BY <1>1, <1>2, <2>1, <2>3, <2>4
<1>5. ASSUME NEW e \in Routers, NEW t \in Tasks, Waits(e, t) \/ CastSend(e, t) PROVE CastsOk'
  <2>1. /\ pc'[e][t] \in {"serve", "remove", "idle", "cast"}
        /\ \A f \in Routers, u \in Tasks : <<f, u>> # <<e, t>> =>
              pc'[f][u] = pc[f][u] /\ cast'[f][u] = cast[f][u]
        /\ nodes' = nodes /\ wan_peers' = wan_peers
    BY <1>5, WaitMoves, CastSendMoves
  <2>2. \A f \in Routers, u \in Tasks : Casting(f, u)' => pc'[f][u] = pc[f][u] /\ cast'[f][u] = cast[f][u]
    BY <2>1 DEF Casting
  <2> QED BY <1>1, <1>2, <2>1, <2>2
<1>6. ASSUME NEW e \in Routers, NEW t \in Tasks, TakesSeq(e, t) PROVE CastsOk'
  <2>1. /\ pc'[e][t] = "build" /\ wan_peers[e] \in Conns
        /\ \A f \in Routers, u \in Tasks : <<f, u>> # <<e, t>> =>
              pc'[f][u] = pc[f][u] /\ cast'[f][u] = cast[f][u]
        /\ nodes' = nodes /\ wan_peers' = wan_peers
        /\ cast'[e][t].peer = wan_peers[e] /\ cast'[e][t].seq = lsa_seq[e] + 1
        /\ cast'[e][t].since = nodes[e]
    BY <1>6, CastSeqMoves
  <2>2. \A f \in Routers, u \in Tasks : <<f, u>> # <<e, t>> => CastOk(f, u)'
    BY <1>1, <2>1, CastFrame
  <2>3. CastOk(e, t)'
    <3>1. pc'[e][wan_peers[e]] \in Listed
      BY <1>1, <2>1 DEF CastsOk
    <3>2. lsa_seq[e] + 1 # 0
      BY DEF LinkTypes
    <3> QED BY <1>1, <2>1, <3>1, <3>2 DEF CastOk
  <2>4. \A f \in Routers, c \in Conns : wan_peers'[f] = c => pc'[f][c] \in Listed
    BY <1>1, <2>1 DEF CastsOk
  <2> QED BY <2>2, <2>3, <2>4 DEF CastsOk
<1>7. ASSUME NEW e \in Routers, NEW t \in Tasks, CastBuild(e, t) PROVE CastsOk'
  <2>1. /\ pc[e][t] = "build" /\ pc'[e][t] = "send"
        /\ \A f \in Routers, u \in Tasks : <<f, u>> # <<e, t>> =>
              pc'[f][u] = pc[f][u] /\ cast'[f][u] = cast[f][u]
        /\ nodes' = nodes /\ wan_peers' = wan_peers
        /\ cast'[e][t].peer = cast[e][t].peer /\ cast'[e][t].seq = cast[e][t].seq
        /\ cast'[e][t].since = cast[e][t].since /\ cast'[e][t].nodes = nodes[e]
    BY <1>7, CastBuildMoves
  <2>2. \A f \in Routers, u \in Tasks : <<f, u>> # <<e, t>> => CastOk(f, u)'
    BY <1>1, <2>1, CastFrame
  <2>3. CastOk(e, t)'
    <3>1. /\ cast[e][t].peer \in Conns /\ pc[e][cast[e][t].peer] \in Listed
          /\ cast[e][t].seq # 0 /\ cast[e][t].since \in Nat /\ cast[e][t].since <= nodes[e]
      BY <1>1, <2>1 DEF CastOk, Casting
    <3>2. pc'[e][cast[e][t].peer] \in Listed
      BY <1>1, <3>1
    <3> QED BY <1>1, <2>1, <3>1, <3>2 DEF CastOk
  <2>4. \A f \in Routers, c \in Conns : wan_peers'[f] = c => pc'[f][c] \in Listed
    BY <1>1, <2>1 DEF CastsOk
  <2> QED BY <2>2, <2>3, <2>4 DEF CastsOk
<1>8. ASSUME NEW e \in Routers, NodeChange(e) PROVE CastsOk'
  <2>1. /\ pc'[e]["node"] = "cast"
        /\ \A f \in Routers, u \in Tasks : <<f, u>> # <<e, "node">> => pc'[f][u] = pc[f][u]
        /\ nodes'[e] = nodes[e] + 1 /\ nodes'[Other(e)] = nodes[Other(e)]
        /\ wan_peers' = wan_peers /\ cast' = cast
    BY <1>8, NodeChangeMoves
  <2>2. \A f \in Routers : f = e \/ f = Other(e)
    BY DEF Routers, Other
  <2>3. \A f \in Routers : nodes[f] <= nodes'[f]
    BY <1>1, <2>1, <2>2
  <2>4. \A f \in Routers, u \in Tasks : Casting(f, u)' => pc'[f][u] = pc[f][u] /\ cast'[f][u] = cast[f][u]
    BY <2>1 DEF Casting
  <2> QED BY <1>2, <2>1, <2>3, <2>4
<1>9. ASSUME NEW e \in Routers, Restart(e) PROVE CastsOk'
  <2>1. /\ \A t \in Tasks : ~Casting(e, t)'
        /\ \A t \in Tasks : pc'[Other(e)][t] = pc[Other(e)][t] /\ cast'[Other(e)][t] = cast[Other(e)][t]
        /\ wan_peers'[e] = NoConn /\ wan_peers'[Other(e)] = wan_peers[Other(e)]
        /\ nodes'[e] = nodes[e] + 1 /\ nodes'[Other(e)] = nodes[Other(e)]
    BY <1>9, RestartMoves
  <2>2. \A f \in Routers : f = e \/ f = Other(e)
    BY DEF Routers, Other
  <2>3. \A f \in Routers : nodes[f] <= nodes'[f]
    BY <1>1, <2>1, <2>2
  <2>4. \A f \in Routers, u \in Tasks : Casting(f, u)' => pc'[f][u] = pc[f][u] /\ cast'[f][u] = cast[f][u]
    BY <2>1, <2>2
  <2>5. \A f \in Routers, d \in Conns : wan_peers'[f] = d => wan_peers[f] = d
    BY <2>1, <2>2, LinksAssumption
  <2> QED BY <1>2, <2>3, <2>4, <2>5
<1>10. ASSUME (\E e \in Routers, c \in Conns : ReceiveLsa(e, c)) \/ Stands PROVE CastsOk'
  <2>1. pc' = pc /\ wan_peers' = wan_peers /\ nodes' = nodes /\ cast' = cast
    BY <1>10, ReceiveLsaMoves, StillMoves
  <2> QED BY <1>1, <1>2, <2>1
<1> QED BY <1>3, <1>4, <1>5, <1>6, <1>7, <1>8, <1>9, <1>10, LinkSteps

----------------------------------------------------------------------------
(* The frames on the wires. *)

\* A connection whose ends go on with it or close it, and whose frames are only read.
LEMMA WireFrame ==
    ASSUME LinkTypes, LinkTypes', NEW c \in Conns, WireFor(c),
           \A e \in Routers : \/ pc'[e][c] = pc[e][c]
                              \/ pc'[e][c] \in Greeted /\ pc[e][c] \in Greeted
                              \/ pc'[e][c] = "closed" /\ pc[e][c] # "none",
           \A e \in Routers : /\ Frames(c, e)' \subseteq Frames(c, e) /\ Behind(c, e)' \subseteq Behind(c, e)
                              /\ wire[c][e] = <<>> => wire'[c][e] = <<>>,
           \A e \in Routers : nodes[e] <= nodes'[e]
    PROVE  WireFor(c)'
<1>0. /\ "hub" \in Routers /\ "spoke" \in Routers
      /\ \A e \in Routers : Other(e) \in Routers
      /\ Greeted \cap {"none", "hello", "closed"} = {}
  BY DEF Routers, Other, Greeted
<1>1. \A e \in Routers : pc'[e][c] = "none" => pc'[Other(e)][c] = "none" /\ wire'[c][e] = <<>>
  BY <1>0 DEF WireFor
<1>2. pc'["hub"][c] = "hello" => wire'[c]["spoke"] = <<>> /\ pc'["spoke"][c] \notin Greeted
  BY <1>0 DEF WireFor
<1>3. ASSUME NEW e \in Routers
      PROVE  /\ pc'[e][c] = "hello" => Behind(c, e)' \subseteq Lsas
             /\ pc'[e][c] \in Greeted => Frames(c, e)' \subseteq Lsas
  BY <1>0, <1>3 DEF WireFor
<1>4. ASSUME NEW e \in Routers, NEW f \in Frames(c, e)', f.kind = "lsa"
      PROVE  f.since <= f.nodes /\ f.nodes <= nodes'[Other(e)]
  <2>1. f \in Frames(c, e) /\ f.since <= f.nodes /\ f.nodes <= nodes[Other(e)]
    BY <1>4 DEF WireFor
  <2>2. f \in AnyFrame
    <3>1. wire[c][e] \in Seq(AnyFrame)
      BY DEF LinkTypes
    <3>2. \A i \in 1..Len(wire[c][e]) : wire[c][e][i] \in AnyFrame
      BY <3>1
    <3> QED BY <2>1, <3>2 DEF Frames
  <2>3. f.nodes \in Nat
    BY <1>4, <2>2, FrameKinds DEF AnyFrame
  <2>4. nodes[Other(e)] \in Nat /\ nodes'[Other(e)] \in Nat /\ nodes[Other(e)] <= nodes'[Other(e)]
    BY <1>0 DEF LinkTypes
  <2> QED BY <2>1, <2>3, <2>4
<1> QED BY <1>1, <1>2, <1>3, <1>4 DEF WireFor

\* A wire that did not change, or was emptied, or read.
LEMMA WireRead ==
    ASSUME LinkTypes, NEW c \in Conns, NEW e \in Routers,
           \/ wire'[c][e] = wire[c][e] \/ wire'[c][e] = <<>>
           \/ wire[c][e] # <<>> /\ wire'[c][e] = Tail(wire[c][e])
    PROVE  /\ Frames(c, e)' \subseteq Frames(c, e) /\ Behind(c, e)' \subseteq Behind(c, e)
           /\ wire[c][e] = <<>> => wire'[c][e] = <<>>
BY FramesMove, FrameKinds

\* The first frame of a wire.
LEMMA FirstFrame ==
    ASSUME LinkTypes, NEW c \in Conns, NEW e \in Routers, NEW frame \in AnyFrame,
           wire[c][e] = <<>>, wire'[c][e] = Append(wire[c][e], frame)
    PROVE  Frames(c, e)' = {frame} /\ Behind(c, e)' = {}
BY FramesMove

\* The HELLOs come first, and then LSAs.
LEMMA WireKept ==
    ASSUME LinkTypes, CastsOk, WireOk, [Next]_vars
    PROVE  WireOk'
<1>0. /\ Conns \subseteq Tasks /\ "hub" \in Routers /\ "spoke" \in Routers
      /\ \A e \in Routers : Other(e) \in Routers /\ Other(e) # e /\ Other(Other(e)) = e
      /\ \A e, f \in Routers : f = e \/ f = Other(e)
      /\ Other("hub") = "spoke" /\ Other("spoke") = "hub"
  BY DEF Tasks, Routers, Other
<1>1. LinkTypes' /\ \A c \in Conns : WireFor(c)
  BY TypesKept DEF WireOk
<1>2. {"epoch", "insert", "cast", "build", "send", "serve", "remove"} = Greeted
  BY DEF Greeted
<1>3. ASSUME NEW c \in Conns, Dial(c) PROVE WireOk'
  <2>1. /\ pc["spoke"][c] = "none"
        /\ \A e \in Routers : pc'[e][c] = "hello"
        /\ \A e \in Routers, t \in Tasks \ {c} : pc'[e][t] = pc[e][t]
        /\ wire'[c]["hub"] \in {wire[c]["hub"], Append(wire[c]["hub"], Hello)}
        /\ \A d \in Conns, e \in Routers : <<d, e>> # <<c, "hub">> => wire'[d][e] = wire[d][e]
        /\ nodes' = nodes
    BY <1>3, DialMoves
  <2>2. ASSUME NEW d \in Conns \ {c} PROVE WireFor(d)'
    <3>1. \A e \in Routers : pc'[e][d] = pc[e][d] /\ wire'[d][e] = wire[d][e] /\ nodes[e] <= nodes'[e]
      BY <1>0, <2>1 DEF LinkTypes
    <3>2. \A e \in Routers : /\ Frames(d, e)' \subseteq Frames(d, e) /\ Behind(d, e)' \subseteq Behind(d, e)
                             /\ wire[d][e] = <<>> => wire'[d][e] = <<>>
      BY <3>1, WireRead
    <3> QED BY <1>1, <3>1, <3>2, WireFrame
  <2>3. WireFor(c)'
    <3>1. \A e \in Routers : pc[e][c] = "none" /\ wire[c][e] = <<>>
      BY <1>0, <1>1, <2>1 DEF WireFor
    <3>2. wire'[c]["spoke"] = <<>>
      BY <1>0, <2>1, <3>1
    <3>3. Frames(c, "spoke")' = {} /\ Behind(c, "spoke")' = {}
      BY <1>0, <3>2, FramesMove, FrameKinds
    <3>4. Frames(c, "hub")' \subseteq {Hello} /\ Behind(c, "hub")' = {}
      <4>1. CASE wire'[c]["hub"] = <<>>
        BY <1>0, <4>1, FramesMove, FrameKinds
      <4>2. CASE wire'[c]["hub"] = Append(wire[c]["hub"], Hello)
        BY <1>0, <3>1, <4>2, FramesMove, FrameKinds
      <4> QED BY <1>0, <2>1, <3>1, <4>1, <4>2
    <3>5. \A e \in Routers : Frames(c, e)' \subseteq {Hello} /\ Behind(c, e)' = {}
      BY <1>0, <3>3, <3>4
    <3>6. Hello.kind # "lsa" /\ "hello" \notin Greeted
      BY <1>2, FrameKinds
    <3> QED BY <1>0, <2>1, <3>2, <3>5, <3>6 DEF WireFor
  <2> QED BY <2>2, <2>3 DEF WireOk
<1>4. ASSUME NEW e \in Routers, NEW c \in Conns, Greets(e, c) PROVE WireOk'
  <2>1. /\ pc[e][c] = "hello"
        /\ \/ pc'[e][c] = "epoch" /\ wire[c][e] # <<>> /\ wire'[c][e] = Tail(wire[c][e])
           \/ pc'[e][c] = "closed" /\ wire'[c][e] = <<>>
           \/ pc'[e][c] = "closed" /\ wire[c][e] # <<>> /\ wire'[c][e] = Tail(wire[c][e])
        /\ \A f \in Routers, t \in Tasks : <<f, t>> # <<e, c>> => pc'[f][t] = pc[f][t]
        /\ \/ wire'[c][Other(e)] = wire[c][Other(e)]
           \/ /\ e = "hub"
              /\ \E f \in {Hello, Reject} : wire'[c][Other(e)] = Append(wire[c][Other(e)], f)
        /\ \A d \in Conns \ {c}, f \in Routers : wire'[d][f] = wire[d][f]
        /\ nodes' = nodes
    BY <1>4, HandshakeMoves
  <2>2. ASSUME NEW d \in Conns \ {c} PROVE WireFor(d)'
    <3>1. \A f \in Routers : pc'[f][d] = pc[f][d] /\ wire'[d][f] = wire[d][f] /\ nodes[f] <= nodes'[f]
      BY <1>0, <2>1 DEF LinkTypes
    <3>2. \A f \in Routers : /\ Frames(d, f)' \subseteq Frames(d, f) /\ Behind(d, f)' \subseteq Behind(d, f)
                             /\ wire[d][f] = <<>> => wire'[d][f] = <<>>
      BY <3>1, WireRead
    <3> QED BY <1>1, <3>1, <3>2, WireFrame
  <2>3. WireFor(c)'
    <3>1. /\ Frames(c, e)' \subseteq Frames(c, e) /\ Behind(c, e)' \subseteq Behind(c, e)
          /\ pc'[e][c] = "epoch" => Frames(c, e)' = Behind(c, e)
      BY <2>1, WireRead, FramesMove, FrameKinds
    <3>2. Behind(c, e) \subseteq Lsas
      BY <1>1, <2>1 DEF WireFor
    <3>3. pc'[Other(e)][c] = pc[Other(e)][c] /\ pc[Other(e)][c] # "none" /\ pc'[e][c] # "none"
      BY <1>0, <1>1, <2>1 DEF WireFor
    <3>4. CASE e = "hub"
      <4>1. wire[c]["spoke"] = <<>> /\ pc["spoke"][c] \notin Greeted
        BY <1>1, <2>1, <3>4 DEF WireFor
      <4>2. Frames(c, "spoke")' \subseteq {Hello, Reject} /\ Behind(c, "spoke")' = {}
        <5>1. CASE wire'[c]["spoke"] = <<>>
          BY <1>0, <5>1, FramesMove, FrameKinds
        <5>2. ASSUME NEW f \in {Hello, Reject}, wire'[c]["spoke"] = Append(wire[c]["spoke"], f)
              PROVE  Frames(c, "spoke")' \subseteq {Hello, Reject} /\ Behind(c, "spoke")' = {}
          <6>1. f \in AnyFrame
            BY <5>2, FrameKinds
          <6>2. Frames(c, "spoke")' = {f} /\ Behind(c, "spoke")' = {}
            BY <1>0, <4>1, <5>2, <6>1, FirstFrame
          <6> QED BY <5>2, <6>2
        <5> QED BY <1>0, <2>1, <3>4, <4>1, <5>1, <5>2
      <4>3. Hello.kind # "lsa" /\ Reject.kind # "lsa"
        BY FrameKinds
      <4>4. \A f \in Routers : pc'[f][c] = "none" => pc'[Other(f)][c] = "none" /\ wire'[c][f] = <<>>
        BY <1>0, <3>3
      <4>5. pc'["hub"][c] # "hello" /\ pc'["spoke"][c] \notin Greeted
        BY <1>0, <2>1, <3>3, <3>4, <4>1
      <4>6. /\ pc'["hub"][c] \in Greeted => Frames(c, "hub")' \subseteq Lsas
            /\ \A f \in Frames(c, "hub")' :
                  f.kind = "lsa" => f.since <= f.nodes /\ f.nodes <= nodes'["spoke"]
        <5>1. pc'["hub"][c] \in Greeted => pc'[e][c] = "epoch"
          BY <1>2, <2>1, <3>4
        <5> QED BY <1>0, <1>1, <2>1, <3>1, <3>2, <3>4, <5>1 DEF WireFor
      <4>7. ASSUME NEW f \in Routers
            PROVE  /\ pc'[f][c] = "hello" => Behind(c, f)' \subseteq Lsas
                   /\ pc'[f][c] \in Greeted => Frames(c, f)' \subseteq Lsas
                   /\ \A g \in Frames(c, f)' :
                         g.kind = "lsa" => g.since <= g.nodes /\ g.nodes <= nodes'[Other(f)]
        <5>1. CASE f = "hub"
          BY <1>0, <4>5, <4>6, <5>1
        <5>2. CASE f = "spoke"
          BY <1>0, <4>2, <4>3, <4>5, <5>2
        <5> QED BY <1>0, <5>1, <5>2
      <4> QED BY <4>4, <4>5, <4>7 DEF WireFor
    <3>5. CASE e = "spoke"
      <4>1. wire'[c]["hub"] = wire[c]["hub"] /\ pc'["hub"][c] = pc["hub"][c]
        BY <1>0, <2>1, <3>3, <3>5
      <4>2. Frames(c, "hub")' = Frames(c, "hub") /\ Behind(c, "hub")' = Behind(c, "hub")
        BY <1>0, <4>1, FramesMove, FrameKinds
      <4>3. \A f \in Routers : pc'[f][c] = "none" => pc'[Other(f)][c] = "none" /\ wire'[c][f] = <<>>
        BY <1>0, <3>3
      <4>4. pc'["hub"][c] = "hello" => wire'[c]["spoke"] = <<>> /\ pc'["spoke"][c] \notin Greeted
        <5>1. pc["hub"][c] = "hello" => wire[c]["spoke"] = <<>>
          BY <1>1 DEF WireFor
        <5> QED BY <1>2, <2>1, <3>5, <4>1, <5>1
      <4>5. ASSUME NEW f \in Routers
            PROVE  /\ pc'[f][c] = "hello" => Behind(c, f)' \subseteq Lsas
                   /\ pc'[f][c] \in Greeted => Frames(c, f)' \subseteq Lsas
                   /\ \A g \in Frames(c, f)' :
                         g.kind = "lsa" => g.since <= g.nodes /\ g.nodes <= nodes'[Other(f)]
        <5>1. CASE f = "hub"
          BY <1>0, <1>1, <2>1, <4>1, <4>2, <5>1 DEF WireFor
        <5>2. CASE f = "spoke"
          <6>1. pc'["spoke"][c] \in Greeted => pc'[e][c] = "epoch"
            BY <1>2, <2>1, <3>5
          <6>2. pc'["spoke"][c] # "hello"
            BY <2>1, <3>5
          <6> QED BY <1>0, <1>1, <2>1, <3>1, <3>2, <3>5, <5>2, <6>1, <6>2 DEF WireFor
        <5> QED BY <1>0, <5>1, <5>2
      <4> QED BY <4>3, <4>4, <4>5 DEF WireFor
    <3> QED BY <1>0, <3>4, <3>5 DEF Routers
  <2> QED BY <2>2, <2>3 DEF WireOk
<1>5. ASSUME \A e \in Routers, c \in Conns :
                 /\ \/ pc'[e][c] = pc[e][c]
                    \/ pc'[e][c] \in Greeted /\ pc[e][c] \in Greeted
                    \/ pc'[e][c] = "closed" /\ pc[e][c] # "none"
                 /\ \/ wire'[c][e] = wire[c][e] \/ wire'[c][e] = <<>>
                    \/ wire[c][e] # <<>> /\ wire'[c][e] = Tail(wire[c][e]),
             \A e \in Routers : nodes[e] <= nodes'[e]
      PROVE  WireOk'
  <2>1. \A c \in Conns, e \in Routers :
           /\ Frames(c, e)' \subseteq Frames(c, e) /\ Behind(c, e)' \subseteq Behind(c, e)
           /\ wire[c][e] = <<>> => wire'[c][e] = <<>>
    BY <1>5, WireRead
  <2>2. \A c \in Conns : WireFor(c)'
    BY <1>1, <1>5, <2>1, WireFrame
  <2> QED BY <2>2 DEF WireOk
<1>6. ASSUME NEW e \in Routers, NEW c \in Conns,
             TakeEpoch(e, c) \/ Lists(e, c) \/ ReadFails(e, c) \/ ReceiveLsa(e, c)
      PROVE  WireOk'
  <2>1. /\ pc[e][c] \in Greeted /\ pc'[e][c] \in Greeted \cup {"closed"}
        /\ \A f \in Routers, t \in Tasks : <<f, t>> # <<e, c>> => pc'[f][t] = pc[f][t]
        /\ \A d \in Conns, f \in Routers :
              \/ wire'[d][f] = wire[d][f] \/ wire'[d][f] = <<>>
              \/ wire[d][f] # <<>> /\ wire'[d][f] = Tail(wire[d][f])
        /\ nodes' = nodes
    BY <1>2, <1>6, TakeEpochMoves, EntryMoves, ReadFailsMoves, ReceiveLsaMoves
  <2>2. \A f \in Routers : nodes[f] <= nodes'[f]
    BY <2>1 DEF LinkTypes
  <2>3. "none" \notin Greeted
    BY <1>2
  <2> QED BY <1>0, <1>5, <2>1, <2>2, <2>3
<1>7. ASSUME NEW e \in Routers, NEW t \in Tasks, Waits(e, t) \/ TakesSeq(e, t) \/ CastBuild(e, t)
      PROVE  WireOk'
  <2>1. /\ t \in Conns => pc[e][t] \in Greeted /\ pc'[e][t] \in Greeted
        /\ \A f \in Routers, u \in Tasks : <<f, u>> # <<e, t>> => pc'[f][u] = pc[f][u]
        /\ wire' = wire /\ nodes' = nodes
    BY <1>2, <1>7, WaitMoves, CastSeqMoves, CastBuildMoves
  <2>2. \A f \in Routers : nodes[f] <= nodes'[f]
    BY <2>1 DEF LinkTypes
  <2> QED BY <1>0, <1>5, <2>1, <2>2
<1>8. ASSUME NEW e \in Routers, NEW t \in Tasks, CastSend(e, t) PROVE WireOk'
  <2>1. /\ pc[e][t] = "send"
        /\ t \in Conns => pc'[e][t] = "serve"
        /\ \A f \in Routers, u \in Tasks : <<f, u>> # <<e, t>> => pc'[f][u] = pc[f][u]
        /\ nodes' = nodes
    BY <1>8, CastSendMoves
  <2>2. PICK m \in Lsas :
           /\ m.seq = cast[e][t].seq /\ m.nodes = cast[e][t].nodes /\ m.since = cast[e][t].since
           /\ \A c \in Conns, f \in Routers :
                 \/ wire'[c][f] = wire[c][f]
                 \/ /\ c = cast[e][t].peer /\ f = Other(e) /\ ~Ended(e, c)
                    /\ wire'[c][f] = Append(wire[c][f], m)
    BY <1>8, CastSendMoves
  <2>3. \A f \in Routers, c \in Conns :
           pc'[f][c] = pc[f][c] \/ (pc'[f][c] \in Greeted /\ pc[f][c] \in Greeted)
    BY <1>0, <1>2, <2>1
  <2>4. \A f \in Routers : nodes[f] <= nodes'[f]
    BY <2>1 DEF LinkTypes
  <2>5. ASSUME NEW c \in Conns, \A f \in Routers : wire'[c][f] = wire[c][f] PROVE WireFor(c)'
    <3>1. \A f \in Routers : /\ Frames(c, f)' \subseteq Frames(c, f) /\ Behind(c, f)' \subseteq Behind(c, f)
                             /\ wire[c][f] = <<>> => wire'[c][f] = <<>>
      BY <2>5, WireRead
    <3> QED BY <1>1, <2>3, <2>4, <3>1, WireFrame
  <2>6. ASSUME NEW c \in Conns, c = cast[e][t].peer, ~Ended(e, c),
               wire'[c][Other(e)] = Append(wire[c][Other(e)], m)
        PROVE  WireFor(c)'
    <3>1. wire'[c][e] = wire[c][e]
      BY <1>0, <2>2
    <3>2. pc[e][c] \in Greeted
      <4>1. pc[e][c] \in Listed
        BY <2>1, <2>6 DEF CastsOk, CastOk, Casting
      <4> QED BY <2>6, <4>1 DEF Listed, Opened, Ended
    <3>3. /\ Frames(c, e)' = Frames(c, e) /\ Behind(c, e)' = Behind(c, e)
          /\ Frames(c, Other(e))' = Frames(c, Other(e)) \cup {m}
          /\ Behind(c, Other(e))' \subseteq Behind(c, Other(e)) \cup {m}
      <4>1. m \in AnyFrame /\ Other(e) \in Routers
        BY <1>0, FrameKinds
      <4>2. Frames(c, e)' = Frames(c, e) /\ Behind(c, e)' = Behind(c, e)
        BY <3>1, <4>1, FramesMove
      <4> QED BY <2>6, <4>1, <4>2, FramesMove
    <3>4. m.since <= m.nodes /\ m.nodes <= nodes'[e]
      BY <2>1, <2>2 DEF CastsOk, CastOk, Casting
    <3>5. "none" \notin Greeted /\ "hello" \notin Greeted
      BY <1>2
    <3>6. pc[e][c] # "none" /\ pc[Other(e)][c] # "none"
      BY <1>0, <1>1, <3>2, <3>5 DEF WireFor
    <3>7. \A f \in Routers : pc'[f][c] # "none"
      BY <1>0, <2>3, <3>5, <3>6
    <3>8. pc["hub"][c] # "hello"
      <4>1. CASE e = "hub"
        BY <3>2, <3>5, <4>1
      <4>2. CASE e = "spoke"
        BY <1>1, <3>2, <4>2 DEF WireFor
      <4> QED BY <4>1, <4>2 DEF Routers
    <3>9. pc'["hub"][c] # "hello"
      BY <1>0, <2>3, <3>5, <3>8
    <3>10. ASSUME NEW f \in Routers
           PROVE  /\ pc'[f][c] = "hello" => Behind(c, f)' \subseteq Lsas
                  /\ pc'[f][c] \in Greeted => Frames(c, f)' \subseteq Lsas
                  /\ \A g \in Frames(c, f)' :
                        g.kind = "lsa" => g.since <= g.nodes /\ g.nodes <= nodes'[Other(f)]
      <4>1. /\ pc[f][c] = "hello" => Behind(c, f) \subseteq Lsas
            /\ pc[f][c] \in Greeted => Frames(c, f) \subseteq Lsas
            /\ \A g \in Frames(c, f) : g.kind = "lsa" => g.since <= g.nodes /\ g.nodes <= nodes[Other(f)]
        BY <1>1, <3>10 DEF WireFor
      <4>2. /\ pc'[f][c] = "hello" => pc[f][c] = "hello"
            /\ pc'[f][c] \in Greeted => pc[f][c] \in Greeted
        BY <2>3, <3>5
      <4>3. CASE f = e
        BY <2>1, <3>3, <4>1, <4>2, <4>3
      <4>4. CASE f = Other(e)
        BY <1>0, <2>1, <3>3, <3>4, <4>1, <4>2, <4>4
      <4> QED BY <1>0, <4>3, <4>4
    <3> QED BY <3>7, <3>9, <3>10 DEF WireFor
  <2>7. ASSUME NEW c \in Conns PROVE WireFor(c)'
    <3>1. CASE \A f \in Routers : wire'[c][f] = wire[c][f]
      BY <2>5, <3>1
    <3>2. CASE ~\A f \in Routers : wire'[c][f] = wire[c][f]
      BY <2>2, <2>6, <3>2
    <3> QED BY <3>1, <3>2
  <2> QED BY <2>7 DEF WireOk
<1>9. ASSUME NEW e \in Routers, NodeChange(e) \/ Restart(e) PROVE WireOk'
  <2>1. /\ \A f \in Routers, c \in Conns : \/ pc'[f][c] = pc[f][c]
                                           \/ pc'[f][c] = "closed" /\ pc[f][c] # "none"
        /\ wire' = wire
        /\ nodes'[e] = nodes[e] + 1 /\ nodes'[Other(e)] = nodes[Other(e)]
    <3>1. CASE NodeChange(e)
      BY <1>0, <3>1, NodeChangeMoves
    <3>2. CASE Restart(e)
      <4>1. /\ \A c \in Conns : /\ pc'[e][c] \in {"none", "closed"}
                                /\ (pc'[e][c] = "none" <=> pc[e][c] = "none")
                                /\ pc'[Other(e)][c] = pc[Other(e)][c]
            /\ wire' = wire
            /\ nodes'[e] = nodes[e] + 1 /\ nodes'[Other(e)] = nodes[Other(e)]
        BY <1>0, <3>2, RestartMoves
      <4> QED BY <1>0, <4>1
    <3> QED BY <1>9, <3>1, <3>2
  <2>2. \A f \in Routers : nodes[f] <= nodes'[f]
    <3>1. nodes[e] \in Nat /\ nodes[Other(e)] \in Nat
      BY <1>0 DEF LinkTypes
    <3>2. nodes[e] <= nodes'[e] /\ nodes[Other(e)] <= nodes'[Other(e)]
      BY <2>1, <3>1
    <3> QED BY <1>0, <3>2
  <2> QED BY <1>5, <2>1, <2>2
<1>10. ASSUME Stands PROVE WireOk'
  <2>1. pc' = pc /\ wire' = wire /\ nodes' = nodes
    BY <1>10, StillMoves
  <2>2. \A f \in Routers : nodes[f] <= nodes'[f]
    BY <2>1 DEF LinkTypes
  <2> QED BY <1>5, <2>1, <2>2
<1> QED BY <1>3, <1>4, <1>6, <1>7, <1>8, <1>9, <1>10, LinkSteps

----------------------------------------------------------------------------
(* Sessions and their epochs. *)

\* A step that opens no session of a router and teaches it nothing.
LEMMA EpochsFrame ==
    ASSUME LinkTypes, LinkTypes', NEW e \in Routers, EpochsFor(e),
           wan_session_epochs'[e] = wan_session_epochs[e], lsa_state'[e] = lsa_state[e],
           \A c \in Conns : /\ epoch'[e][c] = epoch[e][c] /\ accepted'[e][c] = accepted[e][c]
                            /\ pc'[e][c] \in Opened => pc[e][c] \in Opened,
           nodes[Other(e)] <= nodes'[Other(e)]
    PROVE  EpochsFor(e)'
<1>1. /\ lsa_state[e].nodes \in Nat /\ nodes[Other(e)] \in Nat /\ nodes'[Other(e)] \in Nat
      /\ Other(e)' = Other(e)
  BY TwoRouters DEF LinkTypes, Other
<1>2. lsa_state'[e].nodes <= nodes'[Other(e)]
  BY <1>1 DEF EpochsFor
<1> QED BY <1>2 DEF EpochsFor

\* The steps that leave the sessions and what they know alone open none.
LEMMA SessionsQuiet ==
    ASSUME LinkTypes, CastsOk, WireOk, [Next]_vars
    PROVE  \/ \E e \in Routers, c \in Conns : TakeEpoch(e, c) \/ ReceiveLsa(e, c)
           \/ \E e \in Routers : Restart(e)
           \/ /\ UNCHANGED <<wan_session_epochs, epoch, lsa_state, accepted, rejected, heard>>
              /\ \A e \in Routers, c \in Conns : pc'[e][c] \in Opened => pc[e][c] \in Opened
              /\ \A e \in Routers : nodes[e] <= nodes'[e]
<1>0. /\ Conns \subseteq Tasks /\ {"insert", "cast", "build", "send", "serve", "remove"} = Opened
      /\ \A e, f \in Routers : f = e \/ f = Other(e)
      /\ \A e \in Routers : nodes[e] \in Nat /\ Other(e) \in Routers
  BY TwoRouters DEF Tasks, Opened, Greeted, LinkTypes, Routers, Other
<1> DEFINE Goal == /\ UNCHANGED <<wan_session_epochs, epoch, lsa_state, accepted, rejected, heard>>
                   /\ \A e \in Routers, c \in Conns : pc'[e][c] \in Opened => pc[e][c] \in Opened
                   /\ \A e \in Routers : nodes[e] <= nodes'[e]
<1>1. ASSUME NEW c \in Conns, Dial(c) PROVE Goal
  <2>1. /\ \A e \in Routers : pc'[e][c] = "hello"
        /\ \A e \in Routers, t \in Tasks \ {c} : pc'[e][t] = pc[e][t]
        /\ UNCHANGED <<wan_session_epochs, epoch, lsa_state, accepted, rejected, heard, nodes>>
    BY <1>1, DialMoves
  <2> QED BY <1>0, <2>1
<1>2. ASSUME NEW e \in Routers, NEW c \in Conns, Greets(e, c) \/ Lists(e, c) \/ ReadFails(e, c)
      PROVE  Goal
  <2>1. /\ pc'[e][c] \in {"epoch", "closed"} \/ pc[e][c] = "insert"
        /\ \A f \in Routers, t \in Tasks : <<f, t>> # <<e, c>> => pc'[f][t] = pc[f][t]
        /\ UNCHANGED <<wan_session_epochs, epoch, lsa_state, accepted, rejected, heard, nodes>>
    BY <1>2, HandshakeMoves, EntryMoves, ReadFailsMoves
  <2> QED BY <1>0, <2>1
<1>3. ASSUME NEW e \in Routers, NEW t \in Tasks,
             Waits(e, t) \/ TakesSeq(e, t) \/ CastBuild(e, t) \/ CastSend(e, t)
      PROVE  Goal
  <2>1. /\ t \in Conns => pc[e][t] \in {"serve", "cast", "build", "send"}
        /\ \A f \in Routers, u \in Tasks : <<f, u>> # <<e, t>> => pc'[f][u] = pc[f][u]
        /\ UNCHANGED <<wan_session_epochs, epoch, lsa_state, accepted, rejected, heard, nodes>>
    BY <1>3, WaitMoves, CastSeqMoves, CastBuildMoves, CastSendMoves
  <2> QED BY <1>0, <2>1
<1>4. ASSUME NEW e \in Routers, NodeChange(e) PROVE Goal
  <2>1. /\ \A f \in Routers, c \in Conns : pc'[f][c] = pc[f][c]
        /\ UNCHANGED <<wan_session_epochs, epoch, lsa_state, accepted, rejected, heard>>
        /\ nodes'[e] = nodes[e] + 1 /\ nodes'[Other(e)] = nodes[Other(e)]
    BY <1>0, <1>4, NodeChangeMoves
  <2>2. nodes[e] <= nodes'[e] /\ nodes[Other(e)] <= nodes'[Other(e)]
    BY <1>0, <2>1
  <2> QED BY <1>0, <2>1, <2>2
<1>5. ASSUME Stands PROVE Goal
  <2>1. UNCHANGED <<pc, wan_session_epochs, epoch, lsa_state, accepted, rejected, heard, nodes>>
    BY <1>5, StillMoves
  <2> QED BY <1>0, <2>1
<1> QED BY <1>1, <1>2, <1>3, <1>4, <1>5, LinkSteps

\* Each session has an epoch of its own, and rejects only what it has overtaken.
LEMMA EpochsKept ==
    ASSUME LinkTypes, CastsOk, WireOk, EpochsOk, OnlyOvertakenRejected, [Next]_vars
    PROVE  EpochsOk' /\ OnlyOvertakenRejected'
<1>0. /\ LinkTypes' /\ Conns \subseteq Tasks
      /\ \A e \in Routers : Other(e) \in Routers /\ Other(e) # e
      /\ \A e, f \in Routers : f = e \/ f = Other(e)
      /\ {"insert", "cast", "build", "send", "serve", "remove"} = Opened
  BY TypesKept DEF Tasks, Opened, Greeted, Routers, Other
<1>1. /\ \A e \in Routers : EpochsFor(e)
      /\ \A e \in Routers, c \in Conns : rejected[e][c] <= accepted[e][c]
      /\ \A e \in Routers : /\ wan_session_epochs[e] \in Nat /\ nodes[e] \in Nat /\ nodes'[e] \in Nat
                            /\ lsa_state[e].session_epoch \in Nat /\ lsa_state[e].last_seq \in Nat
                            /\ lsa_state[e].nodes \in Nat
      /\ \A e \in Routers, c \in Conns : /\ epoch[e][c] \in Nat /\ accepted[e][c] \in Nat
                                         /\ rejected[e][c] \in Nat /\ accepted'[e][c] \in Nat
  <2>1. /\ \A e \in Routers : EpochsFor(e)
        /\ \A e \in Routers, c \in Conns : rejected[e][c] <= accepted[e][c]
    BY DEF EpochsOk, OnlyOvertakenRejected
  <2>2. /\ \A e \in Routers : nodes'[e] \in Nat
        /\ \A e \in Routers, c \in Conns : accepted'[e][c] \in Nat
    BY <1>0 DEF LinkTypes
  <2>3. \A e \in Routers : lsa_state[e] \in [session_epoch : Nat, last_seq : Nat, nodes : Nat]
    BY DEF LinkTypes
  <2>4. /\ \A e \in Routers : wan_session_epochs[e] \in Nat /\ nodes[e] \in Nat
        /\ \A e \in Routers, c \in Conns :
              epoch[e][c] \in Nat /\ accepted[e][c] \in Nat /\ rejected[e][c] \in Nat
    BY DEF LinkTypes
  <2> QED BY <2>1, <2>2, <2>3, <2>4
<1>2. ASSUME NEW e \in Routers, NEW c \in Conns, TakeEpoch(e, c)
      PROVE  EpochsOk' /\ OnlyOvertakenRejected'
  <2>1. /\ pc[e][c] = "epoch" /\ pc'[e][c] = "insert"
        /\ \A f \in Routers, t \in Tasks : <<f, t>> # <<e, c>> => pc'[f][t] = pc[f][t]
        /\ wan_session_epochs'[e] = wan_session_epochs[e] + 1
        /\ wan_session_epochs'[Other(e)] = wan_session_epochs[Other(e)]
        /\ epoch'[e][c] = wan_session_epochs[e] + 1
        /\ \A f \in Routers, d \in Conns : <<f, d>> # <<e, c>> => epoch'[f][d] = epoch[f][d]
        /\ UNCHANGED <<nodes, lsa_state, accepted, rejected>>
    BY <1>2, TakeEpochMoves
  <2>2. EpochsFor(Other(e))'
    <3>1. \A d \in Conns : /\ epoch'[Other(e)][d] = epoch[Other(e)][d]
                           /\ accepted'[Other(e)][d] = accepted[Other(e)][d]
                           /\ pc'[Other(e)][d] \in Opened => pc[Other(e)][d] \in Opened
      BY <1>0, <2>1
    <3>2. Other(Other(e)) \in Routers /\ nodes[Other(Other(e))] <= nodes'[Other(Other(e))]
      BY <1>0, <1>1, <2>1
    <3> QED BY <1>0, <1>1, <2>1, <3>1, <3>2, EpochsFrame
  <2>3. EpochsFor(e)'
    <3>1. PICK n \in Nat : n = wan_session_epochs[e]
      BY <1>1
    <3>2. /\ lsa_state[e].session_epoch <= n /\ lsa_state[e].nodes <= nodes[Other(e)]
          /\ \A d \in Conns :
                /\ epoch[e][d] <= n
                /\ pc[e][d] \in Opened => epoch[e][d] # 0
                /\ epoch[e][d] # 0 /\ lsa_state[e].session_epoch = epoch[e][d]
                      => lsa_state[e].last_seq <= accepted[e][d]
          /\ \A d, f \in Conns : epoch[e][d] # 0 /\ epoch[e][d] = epoch[e][f] => d = f
      BY <1>1, <3>1 DEF EpochsFor
    <3>3. /\ wan_session_epochs'[e] = n + 1 /\ epoch'[e][c] = n + 1
          /\ \A d \in Conns \ {c} : epoch'[e][d] = epoch[e][d] /\ pc'[e][d] = pc[e][d]
          /\ lsa_state'[e] = lsa_state[e] /\ nodes' = nodes /\ accepted' = accepted
      BY <1>0, <2>1, <3>1
    <3>4. lsa_state'[e].session_epoch <= n + 1 /\ lsa_state'[e].nodes <= nodes'[Other(e)]
      BY <1>1, <3>2, <3>3
    <3>5. ASSUME NEW d \in Conns
          PROVE  /\ epoch'[e][d] <= n + 1
                 /\ pc'[e][d] \in Opened => epoch'[e][d] # 0
                 /\ epoch'[e][d] # 0 /\ lsa_state'[e].session_epoch = epoch'[e][d]
                       => lsa_state'[e].last_seq <= accepted'[e][d]
      <4>1. CASE d = c
        BY <1>1, <3>2, <3>3, <4>1
      <4>2. CASE d # c
        BY <1>1, <3>2, <3>3, <4>2
      <4> QED BY <4>1, <4>2
    <3>6. \A d, f \in Conns : epoch'[e][d] # 0 /\ epoch'[e][d] = epoch'[e][f] => d = f
      <4>1. \A d \in Conns \ {c} : epoch'[e][d] # n + 1
        BY <1>1, <3>2, <3>3
      <4> QED BY <3>2, <3>3, <4>1
    <3> QED BY <3>3, <3>4, <3>5, <3>6 DEF EpochsFor
  <2>4. OnlyOvertakenRejected'
    BY <1>1, <2>1 DEF OnlyOvertakenRejected
  <2> QED BY <1>0, <2>2, <2>3, <2>4 DEF EpochsOk
<1>3. ASSUME NEW e \in Routers, NEW c \in Conns, ReceiveLsa(e, c)
      PROVE  EpochsOk' /\ OnlyOvertakenRejected'
  <2>1. /\ pc[e][c] = "serve" /\ pc' = pc /\ wire[c][e] # <<>>
        /\ lsa_state'[Other(e)] = lsa_state[Other(e)]
        /\ \A f \in Routers, d \in Conns : <<f, d>> # <<e, c>> =>
              accepted'[f][d] = accepted[f][d] /\ rejected'[f][d] = rejected[f][d]
        /\ UNCHANGED <<wan_session_epochs, epoch, nodes>>
    BY <1>3, ReceiveLsaMoves
  <2>2. PICK m \in Lsas :
           /\ m = Head(wire[c][e])
           /\ IF Fresh(e, c, m)
              THEN /\ lsa_state'[e] =
                        [session_epoch |-> epoch[e][c], last_seq |-> m.seq, nodes |-> m.nodes]
                   /\ accepted'[e][c] >= accepted[e][c] /\ accepted'[e][c] >= m.seq
                   /\ rejected' = rejected
              ELSE /\ lsa_state'[e] = lsa_state[e]
                   /\ rejected'[e][c] \in {rejected[e][c], m.seq}
                   /\ accepted' = accepted
    BY <1>3, ReceiveLsaMoves
  <2>3. EpochsFor(Other(e))'
    <3>1. \A d \in Conns : /\ epoch'[Other(e)][d] = epoch[Other(e)][d]
                           /\ accepted'[Other(e)][d] = accepted[Other(e)][d]
                           /\ pc'[Other(e)][d] \in Opened => pc[Other(e)][d] \in Opened
      BY <1>0, <2>1
    <3>2. Other(Other(e)) \in Routers /\ nodes[Other(Other(e))] <= nodes'[Other(Other(e))]
      BY <1>0, <1>1, <2>1
    <3> QED BY <1>0, <1>1, <2>1, <3>1, <3>2, EpochsFrame
  <2>4. /\ lsa_state[e].session_epoch <= wan_session_epochs[e]
        /\ \A d \in Conns :
              /\ epoch[e][d] <= wan_session_epochs[e]
              /\ pc[e][d] \in Opened => epoch[e][d] # 0
              /\ epoch[e][d] # 0 /\ lsa_state[e].session_epoch = epoch[e][d]
                    => lsa_state[e].last_seq <= accepted[e][d]
        /\ \A d, f \in Conns : epoch[e][d] # 0 /\ epoch[e][d] = epoch[e][f] => d = f
    BY <1>1 DEF EpochsFor
  <2>5. epoch[e][c] # 0 /\ m.seq \in Nat
    BY <1>0, <2>1, <2>4, FrameKinds
  <2>6. CASE Fresh(e, c, m)
    <3>1. /\ lsa_state'[e].session_epoch = epoch[e][c] /\ lsa_state'[e].last_seq = m.seq
          /\ lsa_state'[e].nodes = m.nodes
          /\ accepted'[e][c] >= accepted[e][c] /\ accepted'[e][c] >= m.seq /\ rejected' = rejected
      BY <2>2, <2>6
    <3>2. m.nodes <= nodes[Other(e)]
      <4>1. m \in Frames(c, e) /\ m.kind = "lsa"
        BY <2>1, <2>2, FramesMove, FrameKinds
      <4> QED BY <4>1 DEF WireOk, WireFor
    <3>3. ASSUME NEW d \in Conns
          PROVE  /\ epoch'[e][d] <= wan_session_epochs'[e]
                 /\ pc'[e][d] \in Opened => epoch'[e][d] # 0
                 /\ epoch'[e][d] # 0 /\ lsa_state'[e].session_epoch = epoch'[e][d]
                       => lsa_state'[e].last_seq <= accepted'[e][d]
      <4>1. epoch[e][d] # 0 /\ epoch[e][c] = epoch[e][d] => d = c
        BY <2>4
      <4>2. m.seq <= accepted'[e][c]
        BY <1>1, <2>5, <3>1
      <4> QED BY <2>1, <2>4, <3>1, <4>1, <4>2
    <3>4. EpochsFor(e)'
      BY <2>1, <2>4, <3>1, <3>2, <3>3 DEF EpochsFor
    <3>5. OnlyOvertakenRejected'
      <4>1. rejected'[e][c] <= accepted'[e][c]
        BY <1>1, <3>1
      <4> QED BY <1>1, <2>1, <4>1 DEF OnlyOvertakenRejected
    <3> QED BY <1>0, <2>3, <3>4, <3>5 DEF EpochsOk
  <2>7. CASE ~Fresh(e, c, m)
    <3>1. /\ lsa_state'[e] = lsa_state[e] /\ accepted' = accepted
          /\ rejected'[e][c] \in {rejected[e][c], m.seq}
      BY <2>2, <2>7
    <3>2. EpochsFor(e)'
      <4>1. \A d \in Conns : /\ epoch'[e][d] = epoch[e][d]
                             /\ accepted'[e][d] = accepted[e][d]
                             /\ pc'[e][d] \in Opened => pc[e][d] \in Opened
        BY <1>0, <2>1, <3>1
      <4>2. nodes[Other(e)] <= nodes'[Other(e)]
        BY <1>0, <1>1, <2>1
      <4> QED BY <1>0, <1>1, <2>1, <3>1, <4>1, <4>2, EpochsFrame
    <3>3. m.seq <= lsa_state[e].last_seq /\ lsa_state[e].last_seq <= accepted[e][c]
      BY <1>1, <2>4, <2>5, <2>7 DEF Fresh
    <3>4. rejected'[e][c] <= accepted'[e][c]
      BY <1>1, <2>5, <3>1, <3>3
    <3>5. OnlyOvertakenRejected'
      BY <1>1, <2>1, <3>1, <3>4 DEF OnlyOvertakenRejected
    <3> QED BY <1>0, <2>3, <3>2, <3>5 DEF EpochsOk
  <2> QED BY <2>6, <2>7
<1>4. ASSUME NEW e \in Routers, Restart(e) PROVE EpochsOk' /\ OnlyOvertakenRejected'
  <2>1. /\ \A c \in Conns : pc'[e][c] \in {"none", "closed"}
        /\ \A t \in Tasks : pc'[Other(e)][t] = pc[Other(e)][t]
        /\ wan_session_epochs'[e] = 0 /\ wan_session_epochs'[Other(e)] = wan_session_epochs[Other(e)]
        /\ \A c \in Conns : epoch'[e][c] = 0 /\ epoch'[Other(e)][c] = epoch[Other(e)][c]
        /\ lsa_state'[e] = NoLsa /\ lsa_state'[Other(e)] = lsa_state[Other(e)]
        /\ nodes'[e] = nodes[e] + 1 /\ nodes'[Other(e)] = nodes[Other(e)]
        /\ UNCHANGED <<accepted, rejected>>
    BY <1>4, RestartMoves
  <2>2. EpochsFor(Other(e))'
    <3>1. \A d \in Conns : /\ epoch'[Other(e)][d] = epoch[Other(e)][d]
                           /\ accepted'[Other(e)][d] = accepted[Other(e)][d]
                           /\ pc'[Other(e)][d] \in Opened => pc[Other(e)][d] \in Opened
      BY <1>0, <2>1
    <3>2. Other(Other(e)) = e /\ nodes[e] <= nodes'[e]
      BY <1>1, <2>1, TwoRouters
    <3> QED BY <1>0, <1>1, <2>1, <3>1, <3>2, EpochsFrame
  <2>3. EpochsFor(e)'
    <3>1. lsa_state'[e].session_epoch = 0 /\ lsa_state'[e].nodes = 0
      BY <2>1 DEF NoLsa
    <3>2. nodes'[Other(e)] \in Nat
      BY <1>0, <1>1
    <3>3. lsa_state'[e].nodes <= nodes'[Other(e)]
      BY <3>1, <3>2
    <3>4. \A c \in Conns : pc'[e][c] \notin Opened
      BY <1>0, <2>1
    <3> QED BY <2>1, <3>1, <3>3, <3>4 DEF EpochsFor
  <2>4. OnlyOvertakenRejected'
    BY <1>1, <2>1 DEF OnlyOvertakenRejected
  <2> QED BY <1>0, <2>2, <2>3, <2>4 DEF EpochsOk
<1>5. ASSUME UNCHANGED <<wan_session_epochs, epoch, lsa_state, accepted, rejected, heard>>,
             \A e \in Routers, c \in Conns : pc'[e][c] \in Opened => pc[e][c] \in Opened,
             \A e \in Routers : nodes[e] <= nodes'[e]
      PROVE  EpochsOk' /\ OnlyOvertakenRejected'
  <2>1. \A e \in Routers : EpochsFor(e)'
    BY <1>0, <1>1, <1>5, EpochsFrame
  <2> QED BY <1>1, <1>5, <2>1 DEF EpochsOk, OnlyOvertakenRejected
<1> QED BY <1>2, <1>3, <1>4, <1>5, SessionsQuiet

----------------------------------------------------------------------------
(* The order of the LSAs of a connection. *)

\* The stamps of the LSAs on their way are numbers.
LEMMA StampTypes ==
    ASSUME LinkTypes, CastsOk, NEW e \in Routers, NEW c \in Conns, NEW x \in OnWay(e, c)
    PROVE  x.seq \in Nat /\ x.since \in Nat
<1>1. CASE \E f \in Frames(c, e) : f.kind = "lsa" /\ x = Stamp(f)
  <2>1. PICK f \in Frames(c, e) : f.kind = "lsa" /\ x = Stamp(f)
    BY <1>1
  <2>2. f \in AnyFrame
    <3>1. wire[c][e] \in Seq(AnyFrame)
      BY DEF LinkTypes
    <3>2. \A i \in 1..Len(wire[c][e]) : wire[c][e][i] \in AnyFrame
      BY <3>1
    <3> QED BY <2>1, <3>2 DEF Frames
  <2>3. f.seq \in Nat /\ f.since \in Nat
    BY <2>1, <2>2, FrameKinds DEF AnyFrame
  <2> QED BY <2>1, <2>3 DEF Stamp
<1>2. CASE \E t \in Tasks : Casting(Other(e), t) /\ x = Stamp(cast[Other(e)][t])
  <2>1. PICK t \in Tasks : Casting(Other(e), t) /\ x = Stamp(cast[Other(e)][t])
    BY <1>2
  <2>2. Other(e) \in Routers
    BY TwoRouters
  <2>3. cast[Other(e)][t].seq \in Nat /\ cast[Other(e)][t].since \in Nat
    <3>1. cast[Other(e)][t] \in Casts
      BY <2>2 DEF LinkTypes
    <3>2. cast[Other(e)][t].since \in Nat
      BY <2>1, <2>2 DEF CastsOk, CastOk
    <3> QED BY <3>1, <3>2 DEF Casts
  <2> QED BY <2>1, <2>3 DEF Stamp
<1> QED BY <1>1, <1>2 DEF OnWay

\* Nothing new is on its way: each LSA was on the wire, or was being sent, before.
LEMMA OnWayFrame ==
    ASSUME NEW e \in Routers, NEW c \in Conns,
           \A f \in Frames(c, e)' : f.kind = "lsa" => Stamp(f) \in OnWay(e, c),
           \A t \in Tasks : Casting(Other(e), t)' /\ cast'[Other(e)][t].peer = c /\ ~Ended(Other(e), c)' =>
               /\ Casting(Other(e), t) /\ cast[Other(e)][t].peer = c /\ ~Ended(Other(e), c)
               /\ cast'[Other(e)][t].seq = cast[Other(e)][t].seq
               /\ cast'[Other(e)][t].since = cast[Other(e)][t].since
    PROVE  OnWay(e, c)' \subseteq OnWay(e, c)
<1>1. SUFFICES ASSUME NEW x \in OnWay(e, c)' PROVE x \in OnWay(e, c)
  OBVIOUS
<1>2. CASE \E f \in Frames(c, e)' : f.kind = "lsa" /\ x = Stamp(f)
  BY <1>2
<1>3. CASE \E t \in Tasks : /\ Casting(Other(e), t)' /\ cast'[Other(e)][t].peer = c
                            /\ ~Ended(Other(e), c)' /\ x = Stamp(cast'[Other(e)][t])
  <2>1. PICK t \in Tasks : /\ Casting(Other(e), t)' /\ cast'[Other(e)][t].peer = c
                           /\ ~Ended(Other(e), c)' /\ x = Stamp(cast'[Other(e)][t])
    BY <1>3
  <2>2. Casting(Other(e), t) /\ cast[Other(e)][t].peer = c /\ ~Ended(Other(e), c)
    BY <2>1
  <2>3. x = Stamp(cast[Other(e)][t])
    BY <2>1 DEF Stamp
  <2> QED BY <2>2, <2>3 DEF OnWay
<1> QED BY <1>1, <1>2, <1>3 DEF OnWay, Other

\* What is on a wire is on its way.
LEMMA FramesOnWay ==
    ASSUME NEW e \in Routers, NEW c \in Conns, NEW f \in Frames(c, e), f.kind = "lsa"
    PROVE  Stamp(f) \in OnWay(e, c)
BY DEF OnWay

\* The order is kept while nothing new is on its way and no session begins.
LEMMA WayFrame ==
    ASSUME LinkTypes, LinkTypes', CastsOk, NEW e \in Routers, NEW c \in Conns, WayFor(e, c),
           OnWay(e, c)' \subseteq OnWay(e, c),
           nodes[Other(e)] <= nodes'[Other(e)],
           ~Ended(Other(e), c)' /\ (OnWay(e, c)' # {} \/ pc'[e][c] \in Opened) =>
               ~Ended(Other(e), c) /\ lsa_seq[Other(e)] <= lsa_seq'[Other(e)],
           Followed(e, c)' => Followed(e, c) /\ lsa_state'[e] = lsa_state[e]
    PROVE  WayFor(e, c)'
<1>0. /\ Other(e) \in Routers /\ nodes[Other(e)] \in Nat /\ nodes'[Other(e)] \in Nat
      /\ lsa_seq[Other(e)] \in Nat /\ lsa_seq'[Other(e)] \in Nat /\ lsa_state[e].last_seq \in Nat
  <2>1. Other(e) \in Routers /\ lsa_state[e] \in [session_epoch : Nat, last_seq : Nat, nodes : Nat]
    BY TwoRouters DEF LinkTypes
  <2> QED BY <2>1 DEF LinkTypes
<1>1. \A x \in OnWay(e, c)' : x \in OnWay(e, c) /\ x.seq \in Nat /\ x.since \in Nat
  BY StampTypes
<1>2. \A x, y \in OnWay(e, c)' : x.seq <= y.seq => x.since <= y.since
  BY <1>1 DEF WayFor
<1>3. \A x \in OnWay(e, c)' : x.since <= nodes'[Other(e)]
  BY <1>0, <1>1 DEF WayFor
<1>4. ~Ended(Other(e), c)' => \A x \in OnWay(e, c)' : x.seq <= lsa_seq'[Other(e)]
  BY <1>0, <1>1 DEF WayFor
<1>5. ASSUME Followed(e, c)'
      PROVE  /\ \A x \in OnWay(e, c)' : x.seq <= lsa_state'[e].last_seq => x.since <= lsa_state'[e].nodes
             /\ ~Ended(Other(e), c)' => lsa_state'[e].last_seq <= lsa_seq'[Other(e)]
  <2>1. Followed(e, c) /\ lsa_state'[e] = lsa_state[e] /\ pc'[e][c] \in Opened
    BY <1>5 DEF Followed
  <2> QED BY <1>0, <1>1, <2>1 DEF WayFor
<1>6. Other(e)' = Other(e)
  BY DEF Other
<1> QED BY <1>2, <1>3, <1>4, <1>5 DEF WayFor

\* What was heard stays so while nothing new is on its way.
LEMMA HeardFrame ==
    ASSUME LinkTypes, LinkTypes', NEW e \in Routers, HeardFor(e),
           heard'[e] # -1 =>
               /\ heard'[e] = heard[e] /\ lsa_state'[e] = lsa_state[e]
               /\ \A c \in Conns : pc'[e][c] \in Opened =>
                     /\ pc[e][c] \in Opened /\ epoch'[e][c] = epoch[e][c]
                     /\ OnWay(e, c)' \subseteq OnWay(e, c)
    PROVE  HeardFor(e)'
BY DEF HeardFor

\* A step that puts no LSA on a wire and starts none.
LEMMA OnWayKept ==
    ASSUME \A e \in Routers, c \in Conns : \A f \in Frames(c, e)' : f.kind = "lsa" => f \in Frames(c, e),
           \A e \in Routers, t \in Tasks : Casting(e, t)' =>
               /\ Casting(e, t) /\ cast'[e][t].peer = cast[e][t].peer
               /\ cast'[e][t].seq = cast[e][t].seq /\ cast'[e][t].since = cast[e][t].since,
           \A e \in Routers, c \in Conns : ~Ended(e, c)' => ~Ended(e, c)
    PROVE  \A e \in Routers, c \in Conns : OnWay(e, c)' \subseteq OnWay(e, c)
<1>1. SUFFICES ASSUME NEW e \in Routers, NEW c \in Conns PROVE OnWay(e, c)' \subseteq OnWay(e, c)
  OBVIOUS
<1>2. Other(e) \in Routers
  BY TwoRouters
<1>3. \A f \in Frames(c, e)' : f.kind = "lsa" => Stamp(f) \in OnWay(e, c)
  BY FramesOnWay
<1>4. \A t \in Tasks : Casting(Other(e), t)' /\ cast'[Other(e)][t].peer = c /\ ~Ended(Other(e), c)' =>
         /\ Casting(Other(e), t) /\ cast[Other(e)][t].peer = c /\ ~Ended(Other(e), c)
         /\ cast'[Other(e)][t].seq = cast[Other(e)][t].seq
         /\ cast'[Other(e)][t].since = cast[Other(e)][t].since
  BY <1>2
<1> QED BY <1>3, <1>4, OnWayFrame

\* The order, by a step that opens no session, teaches nothing and sends nothing new.
LEMMA OrderFrame ==
    ASSUME LinkTypes, LinkTypes', CastsOk, OrderOk,
           \A e \in Routers, c \in Conns : OnWay(e, c)' \subseteq OnWay(e, c),
           \A e \in Routers, c \in Conns :
               ~Ended(e, c)' => ~Ended(e, c) \/ (OnWay(Other(e), c)' = {} /\ pc'[Other(e)][c] \notin Opened),
           \A e \in Routers, c \in Conns : pc'[e][c] \in Opened => pc[e][c] \in Opened,
           \A e \in Routers : nodes[e] <= nodes'[e],
           UNCHANGED <<lsa_seq, lsa_state, epoch, heard>>
    PROVE  OrderOk'
<1>1. SUFFICES ASSUME NEW e \in Routers PROVE HeardFor(e)' /\ \A c \in Conns : WayFor(e, c)'
  BY DEF OrderOk
<1>2. Other(e) \in Routers /\ Other(Other(e)) = e /\ HeardFor(e)
  BY TwoRouters DEF OrderOk
<1>3. HeardFor(e)'
  BY <1>2, HeardFrame
<1>4. ASSUME NEW c \in Conns PROVE WayFor(e, c)'
  <2>1. WayFor(e, c) /\ OnWay(e, c)' \subseteq OnWay(e, c) /\ nodes[Other(e)] <= nodes'[Other(e)]
    BY <1>2 DEF OrderOk
  <2>2. ~Ended(Other(e), c)' /\ (OnWay(e, c)' # {} \/ pc'[e][c] \in Opened) =>
           ~Ended(Other(e), c) /\ lsa_seq[Other(e)] <= lsa_seq'[Other(e)]
    <3>1. lsa_seq[Other(e)] \in Nat
      BY <1>2 DEF LinkTypes
    <3> QED BY <1>2, <3>1
  <2>3. Followed(e, c)' => Followed(e, c) /\ lsa_state'[e] = lsa_state[e]
    BY DEF Followed
  <2> QED BY <2>1, <2>2, <2>3, WayFrame
<1> QED BY <1>3, <1>4

\* The steps of the handshake, of a peer's entry, of a read that fails and of tasks
\* that wait, build or change nodes keep the order.
LEMMA OrderQuiet ==
    ASSUME LinkTypes, CastsOk, WireOk, OrderOk, [Next]_vars,
           \/ \E e \in Routers, c \in Conns : Greets(e, c) \/ Lists(e, c) \/ ReadFails(e, c)
           \/ \E e \in Routers, t \in Tasks : Waits(e, t) \/ CastBuild(e, t)
           \/ \E e \in Routers : NodeChange(e)
           \/ Stands
    PROVE  OrderOk'
<1>0. /\ LinkTypes' /\ Conns \subseteq Tasks
      /\ {"insert", "cast", "build", "send", "serve", "remove"} = Opened
      /\ \A e, f \in Routers : f = e \/ f = Other(e)
      /\ \A e \in Routers : Other(e) \in Routers /\ Other(e) # e
  BY TypesKept DEF Tasks, Opened, Greeted, Routers, Other
<1>1. ASSUME \A e \in Routers, c \in Conns : \A f \in Frames(c, e)' : f.kind = "lsa" => f \in Frames(c, e),
             \A e \in Routers, t \in Tasks : Casting(e, t)' =>
                 /\ Casting(e, t) /\ cast'[e][t].peer = cast[e][t].peer
                 /\ cast'[e][t].seq = cast[e][t].seq /\ cast'[e][t].since = cast[e][t].since,
             \A e \in Routers, c \in Conns : ~Ended(e, c)' => ~Ended(e, c),
             \A e \in Routers, c \in Conns : pc'[e][c] \in Opened => pc[e][c] \in Opened,
             \A e \in Routers : nodes[e] <= nodes'[e],
             UNCHANGED <<lsa_seq, lsa_state, epoch, heard>>
      PROVE  OrderOk'
  <2>1. \A e \in Routers, c \in Conns : OnWay(e, c)' \subseteq OnWay(e, c)
    BY <1>1, OnWayKept
  <2> QED BY <1>0, <1>1, <2>1, OrderFrame
<1>2. \A e \in Routers : nodes' = nodes => nodes[e] <= nodes'[e]
  BY DEF LinkTypes
<1>3. ASSUME NEW e \in Routers, NEW c \in Conns,
             \/ wire'[c][e] = wire[c][e] \/ wire'[c][e] = <<>>
             \/ wire[c][e] # <<>> /\ wire'[c][e] = Tail(wire[c][e])
             \/ \E f \in {Hello, Reject} : wire'[c][e] = Append(wire[c][e], f)
      PROVE  \A f \in Frames(c, e)' : f.kind = "lsa" => f \in Frames(c, e)
  <2>1. CASE \E f \in {Hello, Reject} : wire'[c][e] = Append(wire[c][e], f)
    <3>1. PICK g \in {Hello, Reject} : wire'[c][e] = Append(wire[c][e], g)
      BY <2>1
    <3>2. g \in AnyFrame /\ g.kind # "lsa"
      BY FrameKinds
    <3>3. Frames(c, e)' = Frames(c, e) \cup {g}
      BY <3>1, <3>2, FramesMove
    <3> QED BY <3>2, <3>3
  <2>2. CASE ~\E f \in {Hello, Reject} : wire'[c][e] = Append(wire[c][e], f)
    BY <1>3, <2>2, WireRead
  <2> QED BY <2>1, <2>2
<1>4. ASSUME NEW e \in Routers, NEW c \in Conns, Greets(e, c) \/ Lists(e, c) \/ ReadFails(e, c)
      PROVE  OrderOk'
  <2>1. /\ pc'[e][c] \in {"epoch", "closed", "cast"} /\ (pc'[e][c] = "cast" => pc[e][c] = "insert")
        /\ pc[e][c] \in {"hello", "insert", "remove", "serve"}
        /\ \A f \in Routers, t \in Tasks : <<f, t>> # <<e, c>> => pc'[f][t] = pc[f][t]
        /\ UNCHANGED <<lsa_seq, nodes, cast, lsa_state, epoch, heard>>
    BY <1>4, HandshakeMoves, EntryMoves, ReadFailsMoves
  <2>2. \A f \in Routers, d \in Conns :
           \/ wire'[d][f] = wire[d][f] \/ wire'[d][f] = <<>>
           \/ wire[d][f] # <<>> /\ wire'[d][f] = Tail(wire[d][f])
           \/ \E g \in {Hello, Reject} : wire'[d][f] = Append(wire[d][f], g)
    <3>1. CASE Greets(e, c)
      <4>1. /\ \/ wire[c][e] # <<>> /\ wire'[c][e] = Tail(wire[c][e])
               \/ wire'[c][e] = <<>>
            /\ \/ wire'[c][Other(e)] = wire[c][Other(e)]
               \/ \E f \in {Hello, Reject} : wire'[c][Other(e)] = Append(wire[c][Other(e)], f)
            /\ \A d \in Conns \ {c}, f \in Routers : wire'[d][f] = wire[d][f]
        BY <3>1, HandshakeMoves
      <4> QED BY <1>0, <4>1
    <3>2. CASE Lists(e, c)
      BY <3>2, EntryMoves
    <3>3. CASE ReadFails(e, c)
      BY <3>3, ReadFailsMoves
    <3> QED BY <1>4, <3>1, <3>2, <3>3
  <2>3. \A f \in Routers, d \in Conns : \A g \in Frames(d, f)' : g.kind = "lsa" => g \in Frames(d, f)
    BY <1>3, <2>2
  <2>4. \A f \in Routers, t \in Tasks : Casting(f, t)' => Casting(f, t)
    BY <2>1 DEF Casting
  <2>5. \A f \in Routers, d \in Conns : ~Ended(f, d)' => ~Ended(f, d)
    BY <1>0, <2>1 DEF Ended
  <2>6. \A f \in Routers, d \in Conns : pc'[f][d] \in Opened => pc[f][d] \in Opened
    BY <1>0, <2>1
  <2> QED BY <1>1, <1>2, <2>1, <2>3, <2>4, <2>5, <2>6
<1>5. ASSUME NEW e \in Routers, NEW t \in Tasks, Waits(e, t) \/ CastBuild(e, t)
      PROVE  OrderOk'
  <2>1. /\ t \in Conns => /\ pc[e][t] \in {"serve", "cast", "build"}
                          /\ pc'[e][t] \in {"serve", "remove", "send"}
        /\ \/ pc'[e][t] \notin {"build", "send"}
           \/ pc[e][t] = "build" /\ cast'[e][t].peer = cast[e][t].peer
              /\ cast'[e][t].seq = cast[e][t].seq /\ cast'[e][t].since = cast[e][t].since
        /\ \A f \in Routers, u \in Tasks : <<f, u>> # <<e, t>> =>
              pc'[f][u] = pc[f][u] /\ cast'[f][u] = cast[f][u]
        /\ UNCHANGED <<wire, lsa_seq, nodes, lsa_state, epoch, heard>>
    BY <1>5, WaitMoves, CastBuildMoves
  <2>2. \A f \in Routers, d \in Conns : \A g \in Frames(d, f)' : g.kind = "lsa" => g \in Frames(d, f)
    BY <1>3, <2>1
  <2>3. \A f \in Routers, u \in Tasks : Casting(f, u)' =>
           /\ Casting(f, u) /\ cast'[f][u].peer = cast[f][u].peer
           /\ cast'[f][u].seq = cast[f][u].seq /\ cast'[f][u].since = cast[f][u].since
    BY <2>1 DEF Casting
  <2>4. \A f \in Routers, d \in Conns : ~Ended(f, d)' => ~Ended(f, d)
    BY <1>0, <2>1 DEF Ended
  <2>5. \A f \in Routers, d \in Conns : pc'[f][d] \in Opened => pc[f][d] \in Opened
    BY <1>0, <2>1
  <2> QED BY <1>1, <1>2, <2>1, <2>2, <2>3, <2>4, <2>5
<1>6. ASSUME (\E e \in Routers : NodeChange(e)) \/ Stands PROVE OrderOk'
  <2>1. /\ \A f \in Routers, c \in Conns : pc'[f][c] = pc[f][c]
        /\ \A f \in Routers, u \in Tasks : pc'[f][u] = pc[f][u] \/ pc'[f][u] = "cast"
        /\ UNCHANGED <<wire, cast, lsa_seq, lsa_state, epoch, heard>>
    <3>1. CASE Stands
      BY <1>0, <3>1, StillMoves
    <3>2. CASE \E e \in Routers : NodeChange(e)
      BY <1>0, <3>2, NodeChangeMoves
    <3> QED BY <1>6, <3>1, <3>2
  <2>2. \A f \in Routers : nodes[f] <= nodes'[f]
    <3>1. CASE Stands
      BY <1>2, <3>1, StillMoves
    <3>2. ASSUME NEW e \in Routers, NodeChange(e) PROVE \A f \in Routers : nodes[f] <= nodes'[f]
      <4>1. nodes'[e] = nodes[e] + 1 /\ nodes'[Other(e)] = nodes[Other(e)]
        BY <3>2, NodeChangeMoves
      <4>2. nodes[e] \in Nat /\ nodes[Other(e)] \in Nat
        BY <1>0 DEF LinkTypes
      <4>3. nodes[e] <= nodes'[e] /\ nodes[Other(e)] <= nodes'[Other(e)]
        BY <4>1, <4>2
      <4> QED BY <1>0, <4>3
    <3> QED BY <1>6, <3>1, <3>2
  <2>3. \A f \in Routers, d \in Conns : \A g \in Frames(d, f)' : g.kind = "lsa" => g \in Frames(d, f)
    BY <1>3, <2>1
  <2>4. \A f \in Routers, t \in Tasks : Casting(f, t)' => Casting(f, t)
    BY <2>1 DEF Casting
  <2>5. \A f \in Routers, d \in Conns : ~Ended(f, d)' => ~Ended(f, d)
    BY <2>1 DEF Ended
  <2> QED BY <1>0, <1>1, <2>1, <2>2, <2>3, <2>4, <2>5
<1> QED BY <1>4, <1>5, <1>6

\* A new connection has nothing on its way.
LEMMA OrderDial ==
    ASSUME LinkTypes, CastsOk, WireOk, OrderOk, LinkTypes', NEW c \in Conns, Dial(c)
    PROVE  OrderOk'
<1>0. /\ Conns \subseteq Tasks /\ "hub" \in Routers /\ "spoke" \in Routers
      /\ {"insert", "cast", "build", "send", "serve", "remove"} = Opened
      /\ \A e \in Routers : Other(e) \in Routers /\ Other(Other(e)) = e
      /\ "none" \notin Listed
  BY TwoRouters DEF Tasks, Opened, Listed, Greeted, Routers
<1>1. /\ pc["spoke"][c] = "none"
      /\ \A e \in Routers : pc'[e][c] = "hello"
      /\ \A e \in Routers, t \in Tasks \ {c} : pc'[e][t] = pc[e][t]
      /\ wire'[c]["hub"] \in {wire[c]["hub"], Append(wire[c]["hub"], Hello)}
      /\ \A d \in Conns, e \in Routers : <<d, e>> # <<c, "hub">> => wire'[d][e] = wire[d][e]
      /\ UNCHANGED <<epoch, lsa_seq, nodes, cast, lsa_state, heard>>
  BY DialMoves
<1>2. \A e \in Routers : pc[e][c] = "none" /\ wire[c][e] = <<>>
  BY <1>0, <1>1, TwoRouters DEF WireOk, WireFor
<1>3. ASSUME NEW e \in Routers, NEW d \in Conns
      PROVE  \A f \in Frames(d, e)' : f.kind = "lsa" => f \in Frames(d, e)
  <2>1. CASE wire'[d][e] = wire[d][e]
    BY <2>1, WireRead
  <2>2. CASE d = c /\ e = "hub" /\ wire'[c]["hub"] = Append(wire[c]["hub"], Hello)
    <3>1. Frames(d, e)' = {Hello}
      BY <1>2, <2>2, FirstFrame, FrameKinds
    <3> QED BY <3>1, FrameKinds
  <2> QED BY <1>1, <2>1, <2>2
<1>4. \A e \in Routers, t \in Tasks : Casting(e, t)' => Casting(e, t) /\ cast'[e][t] = cast[e][t]
  BY <1>1 DEF Casting
<1>5. \A e \in Routers, t \in Tasks : Casting(e, t) => cast[e][t].peer # c
  BY <1>0, <1>2 DEF CastsOk, CastOk
<1>6. \A e \in Routers, d \in Conns \ {c} : Ended(e, d)' <=> Ended(e, d)
  BY <1>0, <1>1 DEF Ended
<1>7. ASSUME NEW e \in Routers, NEW d \in Conns PROVE OnWay(e, d)' \subseteq OnWay(e, d)
  <2>1. \A f \in Frames(d, e)' : f.kind = "lsa" => Stamp(f) \in OnWay(e, d)
    BY <1>3, FramesOnWay
  <2>2. \A t \in Tasks : Casting(Other(e), t)' /\ cast'[Other(e)][t].peer = d /\ ~Ended(Other(e), d)' =>
           /\ Casting(Other(e), t) /\ cast[Other(e)][t].peer = d /\ ~Ended(Other(e), d)
           /\ cast'[Other(e)][t].seq = cast[Other(e)][t].seq
           /\ cast'[Other(e)][t].since = cast[Other(e)][t].since
    BY <1>0, <1>4, <1>5, <1>6
  <2> QED BY <2>1, <2>2, OnWayFrame
<1>8. \A e \in Routers : OnWay(e, c) = {}
  <2>1. SUFFICES ASSUME NEW e \in Routers PROVE OnWay(e, c) = {}
    OBVIOUS
  <2>2. Frames(c, e) = {}
    BY <1>2 DEF Frames
  <2>3. \A t \in Tasks : ~(Casting(Other(e), t) /\ cast[Other(e)][t].peer = c)
    BY <1>0, <1>5
  <2> QED BY <2>2, <2>3 DEF OnWay
<1>9. \A e \in Routers, d \in Conns :
         ~Ended(e, d)' => ~Ended(e, d) \/ (OnWay(Other(e), d)' = {} /\ pc'[Other(e)][d] \notin Opened)
  <2>1. \A e \in Routers : OnWay(Other(e), c)' = {} /\ pc'[Other(e)][c] \notin Opened
    BY <1>0, <1>1, <1>7, <1>8
  <2> QED BY <1>6, <2>1
<1>10. \A e \in Routers, d \in Conns : pc'[e][d] \in Opened => pc[e][d] \in Opened
  BY <1>0, <1>1
<1>11. \A e \in Routers : nodes[e] <= nodes'[e]
  BY <1>1 DEF LinkTypes
<1> QED BY <1>1, <1>7, <1>9, <1>10, <1>11, OrderFrame

\* An LSA goes from its task to the wire.
LEMMA OrderSend ==
    ASSUME LinkTypes, CastsOk, OrderOk, LinkTypes', NEW e \in Routers, NEW t \in Tasks, CastSend(e, t)
    PROVE  OrderOk'
<1>0. /\ Conns \subseteq Tasks
      /\ {"insert", "cast", "build", "send", "serve", "remove"} = Opened
      /\ \A f \in Routers : Other(f) \in Routers /\ Other(Other(f)) = f
  BY TwoRouters DEF Tasks, Opened, Greeted
<1>1. /\ pc[e][t] = "send"
      /\ IF t \in Conns THEN pc'[e][t] = "serve" ELSE pc'[e][t] = "idle"
      /\ \A f \in Routers, u \in Tasks : <<f, u>> # <<e, t>> => pc'[f][u] = pc[f][u]
      /\ \A f \in Routers, u \in Tasks : <<f, u>> # <<e, t>> => cast'[f][u] = cast[f][u]
      /\ UNCHANGED <<epoch, lsa_seq, nodes, lsa_state, heard>>
  BY CastSendMoves
<1>2. PICK m \in Lsas :
         /\ m.seq = cast[e][t].seq /\ m.nodes = cast[e][t].nodes /\ m.since = cast[e][t].since
         /\ \A c \in Conns, f \in Routers :
               \/ wire'[c][f] = wire[c][f]
               \/ /\ c = cast[e][t].peer /\ f = Other(e) /\ ~Ended(e, c)
                  /\ wire'[c][f] = Append(wire[c][f], m)
  BY CastSendMoves
<1>3. \A f \in Routers, d \in Conns : Ended(f, d)' <=> Ended(f, d)
  BY <1>0, <1>1 DEF Ended
<1>4. \A f \in Routers, u \in Tasks : Casting(f, u)' => Casting(f, u) /\ cast'[f][u] = cast[f][u]
  BY <1>1 DEF Casting
<1>5. ASSUME NEW f \in Routers, NEW d \in Conns PROVE OnWay(f, d)' \subseteq OnWay(f, d)
  <2>1. \A g \in Frames(d, f)' : g.kind = "lsa" => Stamp(g) \in OnWay(f, d)
    <3>1. CASE wire'[d][f] = wire[d][f]
      BY <3>1, WireRead, FramesOnWay
    <3>2. CASE /\ d = cast[e][t].peer /\ f = Other(e) /\ ~Ended(e, d)
               /\ wire'[d][f] = Append(wire[d][f], m)
      <4>1. m \in AnyFrame
        BY FrameKinds
      <4>2. Frames(d, f)' = Frames(d, f) \cup {m}
        BY <3>2, <4>1, FramesMove
      <4>3. Casting(Other(f), t) /\ cast[Other(f)][t].peer = d /\ ~Ended(Other(f), d)
        BY <1>0, <1>1, <3>2 DEF Casting
      <4>4. Stamp(m) = Stamp(cast[Other(f)][t])
        BY <1>0, <1>2, <3>2 DEF Stamp
      <4>5. Stamp(m) \in OnWay(f, d)
        BY <4>3, <4>4 DEF OnWay
      <4> QED BY <4>2, <4>5, FramesOnWay
    <3> QED BY <1>2, <3>1, <3>2
  <2>2. \A u \in Tasks : Casting(Other(f), u)' /\ cast'[Other(f)][u].peer = d /\ ~Ended(Other(f), d)' =>
           /\ Casting(Other(f), u) /\ cast[Other(f)][u].peer = d /\ ~Ended(Other(f), d)
           /\ cast'[Other(f)][u].seq = cast[Other(f)][u].seq
           /\ cast'[Other(f)][u].since = cast[Other(f)][u].since
    BY <1>0, <1>3, <1>4
  <2> QED BY <2>1, <2>2, OnWayFrame
<1>6. \A f \in Routers, d \in Conns : pc'[f][d] \in Opened => pc[f][d] \in Opened
  BY <1>0, <1>1
<1>7. \A f \in Routers : nodes[f] <= nodes'[f]
  BY <1>1 DEF LinkTypes
<1> QED BY <1>0, <1>1, <1>3, <1>5, <1>6, <1>7, OrderFrame

\* A session begins: nothing was heard in it, and no LSA of it was applied.
LEMMA OrderEpoch ==
    ASSUME LinkTypes, CastsOk, EpochsOk, OrderOk, LinkTypes', NEW e \in Routers, NEW c \in Conns, TakeEpoch(e, c)
    PROVE  OrderOk'
<1>0. /\ Conns \subseteq Tasks
      /\ {"insert", "cast", "build", "send", "serve", "remove"} = Opened
      /\ \A f \in Routers : Other(f) \in Routers /\ Other(Other(f)) = f /\ Other(f) # f
      /\ \A f \in Routers : f = e \/ f = Other(e)
  BY TwoRouters DEF Tasks, Opened, Greeted, Routers, Other
<1>1. /\ pc[e][c] = "epoch" /\ pc'[e][c] = "insert"
      /\ \A f \in Routers, t \in Tasks : <<f, t>> # <<e, c>> => pc'[f][t] = pc[f][t]
      /\ epoch'[e][c] = wan_session_epochs[e] + 1
      /\ \A f \in Routers, d \in Conns : <<f, d>> # <<e, c>> => epoch'[f][d] = epoch[f][d]
      /\ heard'[e] = -1 /\ heard'[Other(e)] = heard[Other(e)]
      /\ UNCHANGED <<wire, lsa_seq, nodes, cast, lsa_state>>
  BY TakeEpochMoves
<1>2. \A f \in Routers, d \in Conns : Ended(f, d)' <=> Ended(f, d)
  BY <1>0, <1>1 DEF Ended
<1>3. \A f \in Routers, d \in Conns : OnWay(f, d)' \subseteq OnWay(f, d)
  <2>1. \A f \in Routers, d \in Conns : \A g \in Frames(d, f)' : g.kind = "lsa" => g \in Frames(d, f)
    BY <1>1, WireRead
  <2>2. \A f \in Routers, t \in Tasks : Casting(f, t)' => Casting(f, t) /\ cast'[f][t] = cast[f][t]
    BY <1>1 DEF Casting
  <2> QED BY <1>2, <2>1, <2>2, OnWayKept
<1>4. ~Followed(e, c)'
  <2>1. lsa_state[e].session_epoch <= wan_session_epochs[e]
    BY DEF EpochsOk, EpochsFor
  <2>2. lsa_state[e].session_epoch \in Nat /\ wan_session_epochs[e] \in Nat
    <3>1. lsa_state[e] \in [session_epoch : Nat, last_seq : Nat, nodes : Nat]
      BY DEF LinkTypes
    <3> QED BY <3>1 DEF LinkTypes
  <2>3. lsa_state'[e].session_epoch # epoch'[e][c]
    BY <1>1, <2>1, <2>2
  <2> QED BY <2>3 DEF Followed
<1>5. ASSUME NEW f \in Routers, NEW d \in Conns PROVE WayFor(f, d)'
  <2>1. WayFor(f, d) /\ nodes[Other(f)] <= nodes'[Other(f)] /\ lsa_seq[Other(f)] <= lsa_seq'[Other(f)]
    <3>1. nodes[Other(f)] \in Nat /\ lsa_seq[Other(f)] \in Nat
      BY <1>0 DEF LinkTypes
    <3> QED BY <1>1, <3>1 DEF OrderOk
  <2>2. Followed(f, d)' => Followed(f, d) /\ lsa_state'[f] = lsa_state[f]
    <3>1. CASE f = e /\ d = c
      BY <1>4, <3>1
    <3>2. CASE ~(f = e /\ d = c)
      BY <1>0, <1>1, <3>2 DEF Followed
    <3> QED BY <3>1, <3>2
  <2> QED BY <1>0, <1>2, <1>3, <2>1, <2>2, WayFrame
<1>6. HeardFor(e)'
  BY <1>1 DEF HeardFor
<1>7. HeardFor(Other(e))'
  <2>1. HeardFor(Other(e)) /\ Other(e) \in Routers
    BY <1>0 DEF OrderOk
  <2>2. \A d \in Conns : pc'[Other(e)][d] = pc[Other(e)][d] /\ epoch'[Other(e)][d] = epoch[Other(e)][d]
    BY <1>0, <1>1
  <2> QED BY <1>1, <1>3, <2>1, <2>2, HeardFrame
<1> QED BY <1>0, <1>5, <1>6, <1>7 DEF OrderOk

\* A router that starts again has heard nothing, and what it sent is all that comes of it.
LEMMA OrderRestart ==
    ASSUME LinkTypes, CastsOk, OrderOk, LinkTypes', NEW e \in Routers, Restart(e)
    PROVE  OrderOk'
<1>0. /\ Conns \subseteq Tasks
      /\ {"insert", "cast", "build", "send", "serve", "remove"} = Opened
      /\ \A f \in Routers : Other(f) \in Routers /\ Other(Other(f)) = f /\ Other(f) # f
      /\ \A f \in Routers : f = e \/ f = Other(e)
  BY TwoRouters DEF Tasks, Opened, Greeted, Routers, Other
<1>1. /\ \A c \in Conns : pc'[e][c] \in {"none", "closed"}
      /\ \A t \in Tasks : ~Casting(e, t)'
      /\ \A t \in Tasks : pc'[Other(e)][t] = pc[Other(e)][t] /\ cast'[Other(e)][t] = cast[Other(e)][t]
      /\ \A c \in Conns : epoch'[Other(e)][c] = epoch[Other(e)][c]
      /\ lsa_seq'[Other(e)] = lsa_seq[Other(e)]
      /\ lsa_state'[Other(e)] = lsa_state[Other(e)]
      /\ nodes'[e] = nodes[e] + 1 /\ nodes'[Other(e)] = nodes[Other(e)]
      /\ heard'[e] = -1 /\ heard'[Other(e)] = heard[Other(e)]
      /\ wire' = wire
  BY RestartMoves
<1>2. \A c \in Conns : Ended(e, c)' /\ (Ended(Other(e), c)' <=> Ended(Other(e), c)) /\ pc'[e][c] \notin Opened
  BY <1>0, <1>1 DEF Ended
<1>3. \A f \in Routers, d \in Conns : OnWay(f, d)' \subseteq OnWay(f, d)
  <2>1. \A f \in Routers, d \in Conns : \A g \in Frames(d, f)' : g.kind = "lsa" => g \in Frames(d, f)
    BY <1>1, WireRead
  <2>2. \A f \in Routers, t \in Tasks : Casting(f, t)' => Casting(f, t) /\ cast'[f][t] = cast[f][t]
    <3>1. \A t \in Tasks : Casting(Other(e), t)' => Casting(Other(e), t)
      BY <1>1 DEF Casting
    <3> QED BY <1>0, <1>1, <3>1
  <2>3. \A f \in Routers, d \in Conns : ~Ended(f, d)' => ~Ended(f, d)
    BY <1>0, <1>2
  <2> QED BY <2>1, <2>2, <2>3, OnWayKept
<1>4. \A f \in Routers : nodes[f] <= nodes'[f] /\ lsa_seq[f] \in Nat
  <2>1. nodes[e] \in Nat /\ nodes[Other(e)] \in Nat
    BY <1>0 DEF LinkTypes
  <2>2. nodes[e] <= nodes'[e] /\ nodes[Other(e)] <= nodes'[Other(e)]
    BY <1>1, <2>1
  <2> QED BY <1>0, <2>2 DEF LinkTypes
<1>5. ASSUME NEW f \in Routers, NEW d \in Conns PROVE WayFor(f, d)'
  <2>1. WayFor(f, d) /\ nodes[Other(f)] <= nodes'[Other(f)] /\ OnWay(f, d)' \subseteq OnWay(f, d)
    BY <1>0, <1>3, <1>4 DEF OrderOk
  <2>2. Followed(f, d)' => Followed(f, d) /\ lsa_state'[f] = lsa_state[f]
    <3>1. CASE f = e
      BY <1>2, <3>1 DEF Followed
    <3>2. CASE f = Other(e)
      BY <1>0, <1>1, <3>2 DEF Followed
    <3> QED BY <1>0, <3>1, <3>2
  <2>3. ~Ended(Other(f), d)' => ~Ended(Other(f), d) /\ lsa_seq[Other(f)] <= lsa_seq'[Other(f)]
    <3>1. CASE f = e
      BY <1>0, <1>1, <1>2, <1>4, <3>1
    <3>2. CASE f = Other(e)
      BY <1>0, <1>2, <3>2
    <3> QED BY <1>0, <3>1, <3>2
  <2> QED BY <2>1, <2>2, <2>3, WayFrame
<1>6. HeardFor(e)'
  BY <1>1 DEF HeardFor
<1>7. HeardFor(Other(e))'
  <2>1. HeardFor(Other(e)) /\ Other(e) \in Routers
    BY <1>0 DEF OrderOk
  <2>2. \A d \in Conns : pc'[Other(e)][d] = pc[Other(e)][d] /\ epoch'[Other(e)][d] = epoch[Other(e)][d]
    BY <1>0, <1>1
  <2> QED BY <1>1, <1>3, <2>1, <2>2, HeardFrame
<1> QED BY <1>0, <1>5, <1>6, <1>7 DEF OrderOk

\* A broadcast takes a seq above, and changes no fewer than, all it follows.
LEMMA OrderSeq ==
    ASSUME LinkTypes, CastsOk, EpochsOk, OrderOk, LinkTypes', NEW o \in Routers, NEW t \in Tasks,
           TakesSeq(o, t)
    PROVE  OrderOk'
<1>0. /\ Conns \subseteq Tasks
      /\ {"insert", "cast", "build", "send", "serve", "remove"} = Opened
      /\ \A f \in Routers : Other(f) \in Routers /\ Other(Other(f)) = f /\ Other(f) # f
      /\ \A f \in Routers : f = o \/ f = Other(o)
  BY TwoRouters DEF Tasks, Opened, Greeted, Routers, Other
<1>1. /\ pc[o][t] = "cast" /\ pc'[o][t] = "build"
      /\ \A f \in Routers, u \in Tasks : <<f, u>> # <<o, t>> => pc'[f][u] = pc[f][u]
      /\ lsa_seq'[o] = lsa_seq[o] + 1 /\ lsa_seq'[Other(o)] = lsa_seq[Other(o)]
      /\ cast'[o][t].peer = wan_peers[o] /\ cast'[o][t].seq = lsa_seq[o] + 1
      /\ cast'[o][t].since = nodes[o]
      /\ \A f \in Routers, u \in Tasks : <<f, u>> # <<o, t>> => cast'[f][u] = cast[f][u]
      /\ UNCHANGED <<wire, epoch, nodes, lsa_state, heard>>
  BY CastSeqMoves
<1>2. \A f \in Routers, d \in Conns : Ended(f, d)' <=> Ended(f, d)
  BY <1>0, <1>1 DEF Ended
<1>3. \A f \in Routers, d \in Conns : pc'[f][d] \in Opened <=> pc[f][d] \in Opened
  BY <1>0, <1>1
<1>4. \A f \in Routers : nodes[f] \in Nat /\ lsa_seq[f] \in Nat /\ lsa_seq[f] <= lsa_seq'[f]
  <2>1. \A f \in Routers : nodes[f] \in Nat /\ lsa_seq[f] \in Nat
    BY DEF LinkTypes
  <2>2. lsa_seq[o] <= lsa_seq'[o] /\ lsa_seq[Other(o)] <= lsa_seq'[Other(o)]
    BY <1>0, <1>1, <2>1
  <2> QED BY <1>0, <2>1, <2>2
<1>5. \A f \in Routers, u \in Tasks : <<f, u>> # <<o, t>> =>
         (Casting(f, u)' <=> Casting(f, u)) /\ cast'[f][u] = cast[f][u]
  BY <1>1 DEF Casting
<1>6. \A f \in Routers, d \in Conns : \A g \in Frames(d, f)' : g.kind = "lsa" => Stamp(g) \in OnWay(f, d)
  BY <1>1, WireRead, FramesOnWay
<1>7. ASSUME NEW f \in Routers, NEW d \in Conns, OnWay(f, d)' \subseteq OnWay(f, d) PROVE WayFor(f, d)'
  <2>1. WayFor(f, d) /\ Other(f) \in Routers /\ nodes[Other(f)] <= nodes'[Other(f)]
    BY <1>0, <1>1, <1>4 DEF OrderOk
  <2>2. Followed(f, d)' => Followed(f, d) /\ lsa_state'[f] = lsa_state[f]
    BY <1>1, <1>3 DEF Followed
  <2> QED BY <1>2, <1>4, <1>7, <2>1, <2>2, WayFrame
<1>8. ASSUME NEW d \in Conns PROVE OnWay(o, d)' \subseteq OnWay(o, d)
  <2>1. \A u \in Tasks : Casting(Other(o), u)' /\ cast'[Other(o)][u].peer = d /\ ~Ended(Other(o), d)' =>
           /\ Casting(Other(o), u) /\ cast[Other(o)][u].peer = d /\ ~Ended(Other(o), d)
           /\ cast'[Other(o)][u].seq = cast[Other(o)][u].seq
           /\ cast'[Other(o)][u].since = cast[Other(o)][u].since
    BY <1>0, <1>2, <1>5
  <2> QED BY <1>6, <2>1, OnWayFrame
<1>9. HeardFor(o)' /\ \A d \in Conns : WayFor(o, d)'
  <2>1. HeardFor(o)
    BY DEF OrderOk
  <2> QED BY <1>1, <1>3, <1>7, <1>8, <2>1, HeardFrame
<1>10. PICK e \in Routers : e = Other(o)
  BY <1>0
<1>11. PICK z : z = [seq |-> lsa_seq[o] + 1, since |-> nodes[o]]
  OBVIOUS
<1>12. z.seq = lsa_seq[o] + 1 /\ z.since = nodes[o]
  BY <1>11
<1>13. ASSUME NEW d \in Conns
       PROVE  \/ OnWay(e, d)' \subseteq OnWay(e, d)
              \/ ~Ended(o, d) /\ OnWay(e, d)' \subseteq OnWay(e, d) \cup {z}
  <2>1. Other(e) = o
    BY <1>0, <1>10
  <2>2. CASE Ended(o, d) \/ d # wan_peers[o]
    <3>1. \A u \in Tasks : Casting(o, u)' /\ cast'[o][u].peer = d /\ ~Ended(o, d)' =>
             /\ Casting(o, u) /\ cast[o][u].peer = d /\ ~Ended(o, d)
             /\ cast'[o][u].seq = cast[o][u].seq /\ cast'[o][u].since = cast[o][u].since
      BY <1>1, <1>2, <1>5, <2>2
    <3>2. OnWay(e, d)' \subseteq OnWay(e, d)
      BY <1>6, <2>1, <3>1, OnWayFrame
    <3> QED BY <3>2
  <2>3. CASE ~Ended(o, d)
    <3>1. ASSUME NEW x \in OnWay(e, d)' PROVE x \in OnWay(e, d) \/ x = z
      <4>1. CASE \E f \in Frames(d, e)' : f.kind = "lsa" /\ x = Stamp(f)
        BY <1>6, <4>1
      <4>2. CASE \E u \in Tasks : Casting(o, u)' /\ cast'[o][u].peer = d /\ x = Stamp(cast'[o][u])
        <5>1. PICK u \in Tasks : Casting(o, u)' /\ cast'[o][u].peer = d /\ x = Stamp(cast'[o][u])
          BY <4>2
        <5>2. CASE u = t
          BY <1>1, <1>11, <5>1, <5>2 DEF Stamp
        <5>3. CASE u # t
          <6>1. Casting(o, u) /\ cast[o][u].peer = d /\ x = Stamp(cast[o][u])
            BY <1>5, <5>1, <5>3
          <6> QED BY <2>1, <2>3, <6>1 DEF OnWay
        <5> QED BY <5>2, <5>3
      <4> QED BY <2>1, <3>1, <4>1, <4>2 DEF OnWay, Other
    <3> QED BY <2>3, <3>1
  <2> QED BY <2>2, <2>3
<1>14. ASSUME NEW d \in Conns, ~Ended(o, d), OnWay(e, d)' \subseteq OnWay(e, d) \cup {z}
       PROVE  WayFor(e, d)'
  <2>0. Other(e) = o /\ Other(e)' = o
    BY <1>0, <1>10 DEF Other
  <2>1. WayFor(e, d)
    BY DEF OrderOk
  <2>2. \A x \in OnWay(e, d) : /\ x.seq \in Nat /\ x.since \in Nat
                               /\ x.since <= nodes[o] /\ x.seq <= lsa_seq[o]
    BY <1>14, <2>0, <2>1, StampTypes DEF WayFor
  <2>3. \A x \in OnWay(e, d)' : /\ x \in OnWay(e, d) \/ x = z
                                /\ x.seq \in Nat /\ x.since \in Nat
                                /\ x.since <= nodes[o] /\ x.seq <= lsa_seq[o] + 1
    BY <1>4, <1>12, <1>14, <2>2
  <2>4. \A x, y \in OnWay(e, d)' : x.seq <= y.seq => x.since <= y.since
    <3>1. SUFFICES ASSUME NEW x \in OnWay(e, d)', NEW y \in OnWay(e, d)', x.seq <= y.seq
                   PROVE  x.since <= y.since
      OBVIOUS
    <3>2. CASE y = z
      BY <1>12, <2>3, <3>2
    <3>3. CASE y # z /\ x = z
      BY <1>4, <1>12, <2>2, <2>3, <3>1, <3>3
    <3>4. CASE y # z /\ x # z
      BY <2>1, <2>3, <3>1, <3>4 DEF WayFor
    <3> QED BY <3>2, <3>3, <3>4
  <2>5. ASSUME Followed(e, d)'
        PROVE  /\ \A x \in OnWay(e, d)' : x.seq <= lsa_state'[e].last_seq => x.since <= lsa_state'[e].nodes
               /\ ~Ended(o, d)' => lsa_state'[e].last_seq <= lsa_seq'[o]
    <3>1. Followed(e, d) /\ lsa_state'[e] = lsa_state[e]
      BY <1>1, <1>3, <2>5 DEF Followed
    <3>2. lsa_state[e].last_seq <= lsa_seq[o] /\ lsa_state[e].last_seq \in Nat
      <4>1. lsa_state[e] \in [session_epoch : Nat, last_seq : Nat, nodes : Nat]
        BY DEF LinkTypes
      <4> QED BY <1>14, <2>0, <2>1, <3>1, <4>1 DEF WayFor
    <3>3. \A x \in OnWay(e, d)' : x.seq <= lsa_state[e].last_seq => x \in OnWay(e, d)
      BY <1>4, <1>12, <2>3, <3>2
    <3> QED BY <1>1, <1>4, <2>1, <3>1, <3>2, <3>3 DEF WayFor
  <2> QED BY <1>1, <2>0, <2>3, <2>4, <2>5 DEF WayFor
<1>15. \A d \in Conns : WayFor(e, d)'
  BY <1>7, <1>13, <1>14
<1>16. HeardFor(e)'
  <2>0. HeardFor(e) /\ Other(e) = o /\ lsa_state[e].nodes <= nodes[o]
    BY <1>0, <1>10 DEF OrderOk, EpochsOk, EpochsFor
  <2>1. SUFFICES ASSUME heard'[e] # -1
                 PROVE  /\ heard'[e] <= lsa_state'[e].nodes
                        /\ \A c \in Conns : pc'[e][c] \in Opened =>
                              /\ lsa_state'[e].session_epoch = epoch'[e][c]
                              /\ \A x \in OnWay(e, c)' : x.seq > lsa_state'[e].last_seq => heard'[e] <= x.since
    BY DEF HeardFor
  <2>2. /\ heard[e] <= lsa_state[e].nodes
        /\ \A c \in Conns : pc[e][c] \in Opened =>
              /\ lsa_state[e].session_epoch = epoch[e][c]
              /\ \A x \in OnWay(e, c) : x.seq > lsa_state[e].last_seq => heard[e] <= x.since
    BY <1>1, <2>0, <2>1 DEF HeardFor
  <2>3. heard[e] <= z.since
    <3>1. heard[e] \in Nat \cup {-1} /\ lsa_state[e].nodes \in Nat /\ nodes[o] \in Nat
      <4>1. lsa_state[e] \in [session_epoch : Nat, last_seq : Nat, nodes : Nat]
        BY DEF LinkTypes
      <4> QED BY <1>4, <4>1 DEF LinkTypes
    <3> QED BY <1>12, <2>0, <2>2, <3>1
  <2>4. \A c \in Conns : \A x \in OnWay(e, c)' : x \in OnWay(e, c) \/ x = z
    BY <1>13
  <2> QED BY <1>1, <1>3, <2>2, <2>3, <2>4
<1> QED BY <1>0, <1>9, <1>10, <1>15, <1>16 DEF OrderOk

\* An LSA is read: applied, it covers all that its session will reject; rejected, it
\* was covered.
LEMMA OrderReceive ==
    ASSUME LinkTypes, CastsOk, WireOk, EpochsOk, OrderOk, LinkTypes',
           NEW e \in Routers, NEW c \in Conns, ReceiveLsa(e, c)
    PROVE  OrderOk'
<1>0. /\ Conns \subseteq Tasks
      /\ {"insert", "cast", "build", "send", "serve", "remove"} = Opened
      /\ \A f \in Routers : Other(f) \in Routers /\ Other(Other(f)) = f /\ Other(f) # f
      /\ \A f \in Routers : f = e \/ f = Other(e)
      /\ Other(e)' = Other(e)
  BY TwoRouters DEF Tasks, Opened, Greeted, Routers, Other
<1>1. /\ pc[e][c] = "serve" /\ pc' = pc
      /\ wire[c][e] # <<>> /\ wire'[c][e] = Tail(wire[c][e])
      /\ \A d \in Conns, f \in Routers : <<d, f>> # <<c, e>> => wire'[d][f] = wire[d][f]
      /\ lsa_state'[Other(e)] = lsa_state[Other(e)]
      /\ heard'[Other(e)] = heard[Other(e)]
      /\ UNCHANGED <<epoch, lsa_seq, nodes, cast>>
  BY ReceiveLsaMoves
<1>2. PICK m \in Lsas :
         /\ m = Head(wire[c][e])
         /\ IF Fresh(e, c, m)
            THEN lsa_state'[e] = [session_epoch |-> epoch[e][c], last_seq |-> m.seq, nodes |-> m.nodes]
            ELSE lsa_state'[e] = lsa_state[e]
         /\ heard'[e] = IF OnlySession(e, c) THEN Higher(heard[e], m.since) ELSE heard[e]
  BY ReceiveLsaMoves
<1>3. \A f \in Routers, d \in Conns : Ended(f, d)' <=> Ended(f, d)
  BY <1>1 DEF Ended
<1>4. \A f \in Routers, d \in Conns : OnWay(f, d)' \subseteq OnWay(f, d)
  <2>1. \A f \in Routers, d \in Conns : \A g \in Frames(d, f)' : g.kind = "lsa" => g \in Frames(d, f)
    BY <1>1, WireRead
  <2>2. \A f \in Routers, t \in Tasks : Casting(f, t)' => Casting(f, t) /\ cast'[f][t] = cast[f][t]
    BY <1>1 DEF Casting
  <2> QED BY <1>3, <2>1, <2>2, OnWayKept
<1>5. /\ \A f \in Routers : nodes[f] \in Nat /\ nodes[f] <= nodes'[f] /\ lsa_seq[f] \in Nat
      /\ \A f \in Routers : lsa_seq[f] <= lsa_seq'[f]
      /\ lsa_state[e].last_seq \in Nat /\ lsa_state[e].nodes \in Nat /\ heard[e] \in Nat \cup {-1}
      /\ m.seq \in Nat /\ m.seq # 0 /\ m.since \in Nat /\ m.nodes \in Nat
  <2>1. lsa_state[e] \in [session_epoch : Nat, last_seq : Nat, nodes : Nat]
    BY DEF LinkTypes
  <2>2. \A f \in Routers : nodes[f] \in Nat /\ lsa_seq[f] \in Nat /\ heard[f] \in Nat \cup {-1}
    BY DEF LinkTypes
  <2> QED BY <1>1, <2>1, <2>2, FrameKinds
<1>6. ASSUME NEW d \in Conns, NEW f \in Routers, Followed(f, d)' => Followed(f, d) /\ lsa_state'[f] = lsa_state[f]
      PROVE  WayFor(f, d)'
  <2>1. WayFor(f, d) /\ Other(f) \in Routers
    BY <1>0 DEF OrderOk
  <2> QED BY <1>3, <1>4, <1>5, <1>6, <2>1, WayFrame
<1>7. HeardFor(Other(e))' /\ \A d \in Conns : WayFor(Other(e), d)'
  <2>1. HeardFor(Other(e)) /\ Other(e) \in Routers
    BY <1>0 DEF OrderOk
  <2>2. \A d \in Conns : Followed(Other(e), d)' => Followed(Other(e), d)
    BY <1>1 DEF Followed
  <2>3. HeardFor(Other(e))'
    BY <1>1, <1>4, <2>1, HeardFrame
  <2> QED BY <1>1, <1>6, <2>1, <2>2, <2>3
<1>8. PICK w : w = Stamp(m)
  OBVIOUS
<1>9. /\ w \in OnWay(e, c) /\ w.seq = m.seq /\ w.since = m.since
      /\ m.since <= m.nodes
  <2>1. m \in Frames(c, e) /\ m.kind = "lsa"
    BY <1>1, <1>2, FramesMove, FrameKinds
  <2> QED BY <1>8, <2>1, FramesOnWay DEF Stamp, WireOk, WireFor
<1>10. /\ WayFor(e, c) /\ HeardFor(e)
       /\ \A x \in OnWay(e, c)' : x \in OnWay(e, c) /\ x.seq \in Nat /\ x.since \in Nat
  BY <1>4, StampTypes DEF OrderOk
<1>11. /\ epoch[e][c] # 0
       /\ \A d \in Conns : epoch[e][c] = epoch[e][d] => d = c
  BY <1>0, <1>1 DEF EpochsOk, EpochsFor
<1>12. heard[e] # -1 => /\ heard[e] <= lsa_state[e].nodes /\ Followed(e, c)
                        /\ \A d \in Conns : pc[e][d] \in Opened => d = c
  BY <1>0, <1>1, <1>10, <1>11 DEF HeardFor, Followed
<1>13. OnlySession(e, c) => \A d \in Conns : pc[e][d] \in Opened => d = c
  BY <1>0 DEF OnlySession, Ended
<1>14. heard'[e] # -1 => \A d \in Conns : pc'[e][d] \in Opened => d = c
  BY <1>1, <1>2, <1>12, <1>13
<1>15. CASE Fresh(e, c, m)
  <2>1. /\ lsa_state'[e].session_epoch = epoch[e][c] /\ lsa_state'[e].last_seq = m.seq
        /\ lsa_state'[e].nodes = m.nodes
    BY <1>2, <1>15
  <2>2. WayFor(e, c)'
    <3>1. /\ \A x, y \in OnWay(e, c)' : x.seq <= y.seq => x.since <= y.since
          /\ \A x \in OnWay(e, c)' : x.since <= nodes'[Other(e)]
          /\ ~Ended(Other(e), c)' => \A x \in OnWay(e, c)' : x.seq <= lsa_seq'[Other(e)]
      BY <1>0, <1>1, <1>3, <1>10 DEF WayFor
    <3>2. \A x \in OnWay(e, c)' : x.seq <= lsa_state'[e].last_seq => x.since <= lsa_state'[e].nodes
      <4>1. SUFFICES ASSUME NEW x \in OnWay(e, c)', x.seq <= m.seq PROVE x.since <= m.nodes
        BY <2>1
      <4>2. x.since <= m.since
        BY <1>9, <1>10, <4>1 DEF WayFor
      <4> QED BY <1>5, <1>9, <1>10, <4>2
    <3>3. ~Ended(Other(e), c)' => lsa_state'[e].last_seq <= lsa_seq'[Other(e)]
      BY <1>0, <1>1, <1>3, <1>9, <1>10, <2>1 DEF WayFor
    <3> QED BY <1>0, <3>1, <3>2, <3>3 DEF WayFor
  <2>3. ASSUME NEW d \in Conns \ {c} PROVE WayFor(e, d)'
    <3>1. ~Followed(e, d)'
      BY <1>1, <1>11, <2>1 DEF Followed
    <3> QED BY <1>6, <3>1
  <2>4. heard[e] # -1 => heard[e] <= m.since
    <3>1. SUFFICES ASSUME heard[e] # -1 PROVE heard[e] <= m.since
      OBVIOUS
    <3>2. m.seq > lsa_state[e].last_seq
      BY <1>12, <1>15, <3>1 DEF Fresh, Followed
    <3> QED BY <1>0, <1>1, <1>9, <1>10, <3>1, <3>2 DEF HeardFor
  <2>5. heard'[e] # -1 => heard'[e] <= m.since
    BY <1>2, <1>5, <2>4 DEF Higher
  <2>6. HeardFor(e)'
    <3>1. SUFFICES ASSUME heard'[e] # -1
                   PROVE  /\ heard'[e] <= m.nodes
                          /\ \A d \in Conns : pc'[e][d] \in Opened =>
                                /\ epoch[e][c] = epoch'[e][d]
                                /\ \A x \in OnWay(e, d)' : x.seq > m.seq => heard'[e] <= x.since
      BY <2>1 DEF HeardFor
    <3>2. heard'[e] \in Nat \cup {-1} /\ heard'[e] <= m.since
      BY <2>5, <3>1 DEF LinkTypes
    <3>3. heard'[e] <= m.nodes
      BY <1>5, <1>9, <3>2
    <3>4. \A x \in OnWay(e, c)' : x.seq > m.seq => heard'[e] <= x.since
      <4>1. SUFFICES ASSUME NEW x \in OnWay(e, c)', x.seq > m.seq PROVE heard'[e] <= x.since
        OBVIOUS
      <4>2. x \in OnWay(e, c) /\ x.since \in Nat /\ w.seq <= x.seq
        BY <1>5, <1>9, <1>10, <4>1
      <4>3. m.since <= x.since
        BY <1>9, <1>10, <4>2 DEF WayFor
      <4> QED BY <1>5, <3>2, <4>2, <4>3
    <3> QED BY <1>1, <1>14, <3>1, <3>3, <3>4
  <2> QED BY <1>0, <1>7, <2>2, <2>3, <2>6 DEF OrderOk
<1>16. CASE ~Fresh(e, c, m)
  <2>1. lsa_state'[e] = lsa_state[e] /\ lsa_state[e].session_epoch = epoch[e][c]
        /\ m.seq <= lsa_state[e].last_seq
    BY <1>2, <1>5, <1>16 DEF Fresh
  <2>2. Followed(e, c) /\ \A d \in Conns : Followed(e, d)' => Followed(e, d)
    BY <1>0, <1>1, <2>1 DEF Followed
  <2>3. \A d \in Conns : WayFor(e, d)'
    BY <1>6, <2>1, <2>2
  <2>4. m.since <= lsa_state[e].nodes
    BY <1>9, <1>10, <2>1, <2>2 DEF WayFor
  <2>5. HeardFor(e)'
    <3>1. SUFFICES ASSUME heard'[e] # -1
                   PROVE  /\ heard'[e] <= lsa_state[e].nodes
                          /\ \A d \in Conns : pc'[e][d] \in Opened =>
                                /\ lsa_state[e].session_epoch = epoch'[e][d]
                                /\ \A x \in OnWay(e, d)' : x.seq > lsa_state[e].last_seq => heard'[e] <= x.since
      BY <2>1 DEF HeardFor
    <3>2. heard'[e] = heard[e] \/ heard'[e] = m.since
      BY <1>2 DEF Higher
    <3>3. heard'[e] <= lsa_state[e].nodes
      BY <1>12, <2>4, <3>1, <3>2
    <3>4. \A x \in OnWay(e, c)' : x.seq > lsa_state[e].last_seq => heard'[e] <= x.since
      <4>1. SUFFICES ASSUME NEW x \in OnWay(e, c)', x.seq > lsa_state[e].last_seq
                     PROVE  heard'[e] <= x.since
        OBVIOUS
      <4>2. x \in OnWay(e, c) /\ x.since \in Nat /\ w.seq <= x.seq
        BY <1>5, <1>9, <1>10, <2>1, <4>1
      <4>3. m.since <= x.since
        BY <1>9, <1>10, <4>2 DEF WayFor
      <4>4. heard[e] # -1 => heard[e] <= x.since
        BY <1>0, <1>1, <1>10, <4>1, <4>2 DEF HeardFor
      <4> QED BY <3>1, <3>2, <4>3, <4>4
    <3> QED BY <1>1, <1>14, <2>1, <3>1, <3>3, <3>4
  <2> QED BY <1>0, <1>7, <2>3, <2>5 DEF OrderOk
<1> QED BY <1>15, <1>16

----------------------------------------------------------------------------
(* The theorems. *)

\* The inductive invariant of two gateways, their links and their LSAs.
THEOREM LinksInvariant == Spec => []LinkInv
<1>1. Init => LinkInv
  <2> SUFFICES ASSUME Init PROVE LinkInv
    OBVIOUS
  <2>0. /\ \A e \in Routers, c \in Conns : pc[e][c] = "none" /\ wire[c][e] = <<>> /\ epoch[e][c] = 0
        /\ \A e \in Routers, t \in Tasks : pc[e][t] \in {"none", "idle"}
        /\ \A e \in Routers : /\ wan_peers[e] = NoConn /\ heard[e] = -1 /\ lsa_state[e] = NoLsa
                              /\ wan_session_epochs[e] = 0 /\ nodes[e] = 0 /\ Other(e) \in Routers
        /\ \A e \in Routers, c \in Conns : rejected[e][c] = 0 /\ accepted[e][c] = 0
        /\ "hub" \in Routers /\ "spoke" \in Routers
        /\ Greeted \cap {"none", "idle"} = {} /\ Opened \cap {"none", "idle"} = {}
    BY TwoRouters DEF Init, Tasks, Greeted, Opened, Routers
  <2>1. LinkTypes
    <3>1. <<>> \in Seq(AnyFrame) /\ NoCast \in Casts
          /\ NoLsa \in [session_epoch : Nat, last_seq : Nat, nodes : Nat]
      BY DEF NoCast, Casts, NoLsa
    <3>2. "none" \in Places /\ "idle" \in Places
      BY DEF Places
    <3> QED BY <3>1, <3>2 DEF Init, LinkTypes
  <2>2. OneUplink /\ UplinkListed
    BY <2>0 DEF OneUplink, UplinkListed, Serving, Ended
  <2>3. CastsOk
    BY <2>0, LinksAssumption DEF CastsOk, CastOk, Casting
  <2>4. WireOk
    <3>1. \A e \in Routers, c \in Conns : Frames(c, e) = {}
      BY <2>0 DEF Frames
    <3> QED BY <2>0, <3>1 DEF WireOk, WireFor
  <2>5. EpochsOk /\ OnlyOvertakenRejected
    BY <2>0 DEF EpochsOk, EpochsFor, OnlyOvertakenRejected, NoLsa
  <2>6. OrderOk
    <3>1. \A e \in Routers, c \in Conns : OnWay(e, c) = {}
      BY <2>0 DEF OnWay, Frames, Casting
    <3>2. \A e \in Routers, c \in Conns : ~Followed(e, c)
      BY <2>0 DEF Followed
    <3> QED BY <2>0, <3>1, <3>2 DEF OrderOk, HeardFor, WayFor
  <2> QED BY <2>1, <2>2, <2>3, <2>4, <2>5, <2>6 DEF LinkInv
<1>2. LinkInv /\ [Next]_vars => LinkInv'
  <2> SUFFICES ASSUME LinkInv, [Next]_vars PROVE LinkInv'
    OBVIOUS
  <2> USE DEF LinkInv
  <2>1. LinkTypes'
    BY TypesKept
  <2>2. OneUplink' /\ UplinkListed'
    BY UplinkKept
  <2>3. CastsOk' /\ WireOk'
    BY CastsKept, WireKept
  <2>4. EpochsOk' /\ OnlyOvertakenRejected'
    BY EpochsKept
  <2>5. OrderOk'
    BY <2>1, LinkSteps, OrderQuiet, OrderDial, OrderSend, OrderEpoch, OrderRestart, OrderSeq, OrderReceive
  <2> QED BY <2>1, <2>2, <2>3, <2>4, <2>5
<1> QED BY <1>1, <1>2, PTL DEF Spec

\* A spoke whose uplink is up sends over it, whatever the dials, ends and restarts.
THEOREM LinksUplinkListed == Spec => []UplinkListed
<1>1. LinkInv => UplinkListed
  BY DEF LinkInv
<1> QED BY <1>1, LinksInvariant, PTL

\* apply_lsa_payload rejects an LSA only when its session has applied a later one.
THEOREM LinksOnlyOvertaken == Spec => []OnlyOvertakenRejected
<1>1. LinkInv => OnlyOvertakenRejected
  BY DEF LinkInv
<1> QED BY <1>1, LinksInvariant, PTL

\* Concurrent broadcasts settle: a router that heard of its peer's last change knows it.
THEOREM LinksSettle == Spec => []LsaSettled
<1>1. LinkInv => LsaSettled
  <2> SUFFICES ASSUME LinkInv, NEW e \in Routers, heard[e] = nodes[Other(e)]
               PROVE  lsa_state[e].nodes = nodes[Other(e)]
    BY DEF LsaSettled
  <2>1. nodes[Other(e)] \in Nat /\ lsa_state[e].nodes \in Nat
    <3>1. Other(e) \in Routers /\ lsa_state[e] \in [session_epoch : Nat, last_seq : Nat, nodes : Nat]
      BY TwoRouters DEF LinkInv, LinkTypes
    <3> QED BY <3>1 DEF LinkInv, LinkTypes
  <2>2. heard[e] <= lsa_state[e].nodes
    BY <2>1 DEF LinkInv, OrderOk, HeardFor
  <2>3. lsa_state[e].nodes <= nodes[Other(e)]
    BY DEF LinkInv, EpochsOk, EpochsFor
  <2> QED BY <2>1, <2>2, <2>3
<1> QED BY <1>1, LinksInvariant, PTL
================================================================================
