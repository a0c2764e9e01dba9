--------------------------- MODULE NodeRegistryProofs ---------------------------
(***************************************************************************)
(* One live connection per node UUID, for any number of connections, nodes *)
(* and slots: RegistryInv is inductive.                                    *)
(***************************************************************************)
EXTENDS NodeRegistry, TLAPS

\* What the rest of the invariant needs of a step that changes no holder.
SameHolders ==
    /\ uuid' = uuid /\ connected_at' = connected_at
    /\ \A c \in Conns : (Holds(c)' <=> Holds(c)) /\ (Registered(c)' <=> Registered(c))
    /\ DOMAIN nodes' = DOMAIN nodes
    /\ \A u \in DOMAIN nodes : /\ nodes'[u].conn = nodes[u].conn
                               /\ nodes'[u].connected_at = nodes[u].connected_at
    /\ DOMAIN region' = DOMAIN region

\* A step that keeps the types and changes no holder keeps the invariant.
LEMMA SameHoldersInv ==
    ASSUME RegistryInv, TypeOK', SameHolders
    PROVE  RegistryInv'
<1>1. HolderIsLive'
  BY DEF RegistryInv, SameHolders, HolderIsLive
<1>2. NoGhosts'
  <2>1. SUFFICES ASSUME NEW u \in DOMAIN nodes
                 PROVE  Holds(nodes[u].conn)' /\ uuid[nodes[u].conn] = u
    BY DEF SameHolders, NoGhosts
  <2>2. nodes[u].conn \in Conns
    BY <2>1 DEF RegistryInv, TypeOK
  <2> QED
    BY <2>1, <2>2 DEF RegistryInv, SameHolders, NoGhosts
<1>3. RegionMatches'
  <2>1. {d \in Conns : Registered(d)'} = {d \in Conns : Registered(d)}
    BY DEF SameHolders
  <2> QED
    BY <2>1 DEF RegistryInv, SameHolders, RegionMatches
<1> QED
  BY <1>1, <1>2, <1>3 DEF RegistryInv

----------------------------------------------------------------------------
(* refresh_config and rebuild_fib change no holder. *)

\* A task that goes on within a refresh, or back where it was called from,
\* holds what it held.
LEMMA RefreshHolds ==
    ASSUME RegistryInv, NEW t \in Tasks, NEW there, pc[t] \in Refreshing,
           there \in Refreshing \cup {after[t]},
           GoTo(t, there), after' = after
    PROVE  \A c \in Conns : (Holds(c)' <=> Holds(c)) /\ (Registered(c)' <=> Registered(c))
<1> SUFFICES ASSUME NEW c \in Conns
             PROVE  (Holds(c)' <=> Holds(c)) /\ (Registered(c)' <=> Registered(c))
  OBVIOUS
<1>1. c \in Tasks /\ pc \in [Tasks -> Refreshing \cup
        {"new", "idle", "assign", "claim", "register", "unclaim", "serve", "refresh_lsa",
         "cleanup", "closed"}]
  BY DEF RegistryInv, TypeOK, Tasks
<1>2. after[c] \in {"idle", "assign", "serve", "refresh_lsa", "closed"}
  BY <1>1 DEF RegistryInv, TypeOK
<1>3. CASE c # t
  BY <1>1, <1>3 DEF GoTo, Holds, Registered
<1>4. CASE c = t
  <2>1. pc'[c] = there
    BY <1>1, <1>4 DEF GoTo
  <2> QED
    BY <1>2, <1>4, <2>1 DEF Holds, Registered, Refreshing
<1> QED
  BY <1>3, <1>4

\* Every step of a refresh or a rebuild keeps the invariant.
LEMMA RefreshStepInv ==
    ASSUME RegistryInv, NEW t \in Tasks, RefreshStep(t)
    PROVE  RegistryInv'
<1> USE DEF RegistryInv
<1>1. CASE ReadConfig(t)
  <2>1. PICK there \in Refreshing \cup {after[t]} : GoTo(t, there)
    BY <1>1 DEF ReadConfig, Refreshing
  <2>2. TypeOK'
    <3>1. snap' \in [Tasks -> Nat]
      BY <1>1 DEF ReadConfig, TypeOK
    <3> QED
      BY <1>1, <2>1, <3>1 DEF ReadConfig, TypeOK, GoTo, tables, configVars, locals, Refreshing
  <2>3. SameHolders
    <3>1. pc[t] \in Refreshing /\ after' = after
      BY <1>1 DEF ReadConfig, Refreshing
    <3>2. \A c \in Conns : (Holds(c)' <=> Holds(c)) /\ (Registered(c)' <=> Registered(c))
      BY <2>1, <3>1, RefreshHolds
    <3> QED
      BY <1>1, <3>2 DEF ReadConfig, SameHolders, tables, locals
  <2> QED
    BY <2>2, <2>3, SameHoldersInv
<1>2. CASE CheckVersion(t)
  <2>1. PICK there \in Refreshing \cup {after[t]} : GoTo(t, there)
    BY <1>2 DEF CheckVersion, Refreshing
  <2>2. TypeOK'
    BY <1>2, <2>1 DEF CheckVersion, TypeOK, GoTo, tables, locals, Refreshing
  <2>3. SameHolders
    <3>1. pc[t] \in Refreshing /\ after' = after
      BY <1>2 DEF CheckVersion, Refreshing
    <3>2. \A c \in Conns : (Holds(c)' <=> Holds(c)) /\ (Registered(c)' <=> Registered(c))
      BY <2>1, <3>1, RefreshHolds
    <3> QED
      BY <1>2, <3>2 DEF CheckVersion, SameHolders, tables, locals
  <2> QED
    BY <2>2, <2>3, SameHoldersInv
<1>3. CASE ScanNodes(t)
  <2>1. PICK there \in Refreshing : GoTo(t, there)
    BY <1>3 DEF ScanNodes, Refreshing
  <2>2. TypeOK'
    <3>1. \A u : AssignVpn(u, snap[t]) \in Nat
      BY DEF TypeOK, AssignVpn
    <3>2. /\ DOMAIN updates' = Tasks
          /\ \A s \in Tasks : \A u \in DOMAIN updates'[s] : updates'[s][u] \in Nat
      BY <1>3, <3>1 DEF ScanNodes, TypeOK
    <3> QED
      BY <1>3, <2>1, <3>2 DEF ScanNodes, TypeOK, GoTo, tables, configVars, locals, Refreshing
  <2>3. SameHolders
    <3>1. pc[t] \in Refreshing /\ after' = after
      BY <1>3 DEF ScanNodes, Refreshing
    <3>2. \A c \in Conns : (Holds(c)' <=> Holds(c)) /\ (Registered(c)' <=> Registered(c))
      BY <2>1, <3>1, RefreshHolds
    <3> QED
      BY <1>3, <3>2 DEF ScanNodes, SameHolders, tables, locals
  <2> QED
    BY <2>2, <2>3, SameHoldersInv
<1>4. CASE UpdateNodes(t)
  <2>1. GoTo(t, "update_region") /\ "update_region" \in Refreshing
    BY <1>4 DEF UpdateNodes, Refreshing
  <2>2. \A u \in DOMAIN nodes :
           /\ nodes'[u] \in [conn : Conns, vpn : Nat, connected_at : Times]
           /\ nodes'[u].conn = nodes[u].conn
           /\ nodes'[u].connected_at = nodes[u].connected_at
    BY <1>4 DEF UpdateNodes, TypeOK
  <2>3. DOMAIN nodes' = DOMAIN nodes
    BY <1>4 DEF UpdateNodes
  <2>4. TypeOK'
    BY <1>4, <2>1, <2>2, <2>3 DEF UpdateNodes, TypeOK, GoTo, configVars, locals, Refreshing
  <2>5. SameHolders
    <3>1. pc[t] \in Refreshing /\ after' = after
      BY <1>4 DEF UpdateNodes, Refreshing
    <3>2. \A c \in Conns : (Holds(c)' <=> Holds(c)) /\ (Registered(c)' <=> Registered(c))
      BY <2>1, <3>1, RefreshHolds
    <3> QED
      BY <1>4, <2>2, <2>3, <3>2 DEF UpdateNodes, SameHolders, locals
  <2> QED
    BY <2>4, <2>5, SameHoldersInv
<1>5. CASE UpdateRegion(t)
  <2>1. GoTo(t, "gather") /\ "gather" \in Refreshing
    BY <1>5 DEF UpdateRegion, Refreshing
  <2>2. TypeOK'
    <3>1. DOMAIN region' = DOMAIN region /\ \A u \in DOMAIN region : region'[u] \in Nat
      BY <1>5 DEF UpdateRegion, TypeOK
    <3>2. /\ DOMAIN updates' = Tasks
          /\ \A s \in Tasks : \A u \in DOMAIN updates'[s] : updates'[s][u] \in Nat
      BY <1>5 DEF UpdateRegion, TypeOK, Nothing
    <3> QED
      BY <1>5, <2>1, <3>1, <3>2 DEF UpdateRegion, TypeOK, GoTo, configVars, locals, Refreshing
  <2>3. SameHolders
    <3>1. pc[t] \in Refreshing /\ after' = after
      BY <1>5 DEF UpdateRegion, Refreshing
    <3>2. \A c \in Conns : (Holds(c)' <=> Holds(c)) /\ (Registered(c)' <=> Registered(c))
      BY <2>1, <3>1, RefreshHolds
    <3> QED
      BY <1>5, <3>2 DEF UpdateRegion, SameHolders, locals
  <2> QED
    BY <2>2, <2>3, SameHoldersInv
<1>6. CASE GatherFib(t)
  <2>1. GoTo(t, "install") /\ "install" \in Refreshing
    BY <1>6 DEF GatherFib, Refreshing
  <2>2. TypeOK'
    BY <1>6, <2>1 DEF GatherFib, TypeOK, GoTo, tables, configVars, locals, Refreshing
  <2>3. SameHolders
    <3>1. pc[t] \in Refreshing /\ after' = after
      BY <1>6 DEF GatherFib, Refreshing
    <3>2. \A c \in Conns : (Holds(c)' <=> Holds(c)) /\ (Registered(c)' <=> Registered(c))
      BY <2>1, <3>1, RefreshHolds
    <3> QED
      BY <1>6, <3>2 DEF GatherFib, SameHolders, tables, locals
  <2> QED
    BY <2>2, <2>3, SameHoldersInv
<1>7. CASE InstallFib(t)
  <2>1. GoTo(t, after[t])
    BY <1>7 DEF InstallFib
  <2>2. TypeOK'
    BY <1>7, <2>1 DEF InstallFib, TypeOK, GoTo, locals, Refreshing
  <2>3. SameHolders
    <3>1. pc[t] \in Refreshing /\ after' = after
      BY <1>7 DEF InstallFib, Refreshing
    <3>2. \A c \in Conns : (Holds(c)' <=> Holds(c)) /\ (Registered(c)' <=> Registered(c))
      BY <2>1, <3>1, RefreshHolds
    <3> QED
      BY <1>7, <3>2 DEF InstallFib, SameHolders, locals
  <2> QED
    BY <2>2, <2>3, SameHoldersInv
<1> QED
  BY <1>1, <1>2, <1>3, <1>4, <1>5, <1>6, <1>7 DEF RefreshStep

----------------------------------------------------------------------------
(* The steps of handle_node and of the loops that change no holder. *)

\* A task that goes on at `there` with `back` to return to keeps the types of
\* the program counters.
LEMMA CallTypes ==
    ASSUME TypeOK, NEW t \in Tasks,
           NEW there \in Refreshing \cup {"claim", "register", "unclaim", "cleanup", "closed"},
           NEW back \in {"idle", "assign", "serve", "refresh_lsa", "closed"},
           pc' = [pc EXCEPT ![t] = there],
           after' = after \/ after' = [after EXCEPT ![t] = back]
    PROVE  /\ pc' \in [Tasks -> Refreshing \cup
                {"new", "idle", "assign", "claim", "register", "unclaim", "serve", "refresh_lsa",
                 "cleanup", "closed"}]
           /\ after' \in [Tasks -> {"idle", "assign", "serve", "refresh_lsa", "closed"}]
  BY DEF TypeOK

\* A step of task t that leaves the tables and the locals alone, and leaves t
\* holding what it held, keeps the invariant.
LEMMA QuietStepInv ==
    ASSUME RegistryInv, TypeOK', NEW t \in Tasks,
           UNCHANGED <<nodes, region, uuid, connected_at>>,
           \A d \in Tasks \ {t} : pc'[d] = pc[d] /\ after'[d] = after[d],
           Holds(t)' <=> Holds(t), Registered(t)' <=> Registered(t)
    PROVE  RegistryInv'
<1>1. \A c \in Conns : (Holds(c)' <=> Holds(c)) /\ (Registered(c)' <=> Registered(c))
  <2> SUFFICES ASSUME NEW c \in Conns
               PROVE  (Holds(c)' <=> Holds(c)) /\ (Registered(c)' <=> Registered(c))
    OBVIOUS
  <2>1. CASE c = t
    BY <2>1
  <2>2. CASE c # t
    BY <2>2 DEF Tasks, Holds, Registered
  <2> QED
    BY <2>1, <2>2
<1>2. SameHolders
  BY <1>1 DEF SameHolders
<1> QED
  BY <1>2, SameHoldersInv

\* A HELLO starts a refresh and holds nothing yet.
LEMMA HelloInv ==
    ASSUME RegistryInv, NEW c \in Conns, NEW u \in Uuids, Hello(c, u)
    PROVE  RegistryInv'
<1> USE DEF RegistryInv
<1>1. c \in Tasks
  BY DEF Tasks
<1>2. TypeOK'
  <2>1. "read" \in Refreshing
    BY DEF Refreshing
  <2>2. pc' = [pc EXCEPT ![c] = "read"] /\ after' = [after EXCEPT ![c] = "assign"]
    BY DEF Hello, Call
  <2> QED
    BY <1>1, <2>1, <2>2, CallTypes DEF Hello, TypeOK, tables, configVars
<1>3. ~Holds(c) /\ ~Holds(c)'
  BY <1>1 DEF Hello, Call, Holds, TypeOK, Refreshing
<1>4. \A d \in Conns \ {c} : /\ uuid'[d] = uuid[d]
                             /\ Holds(d)' <=> Holds(d)
                             /\ Registered(d)' <=> Registered(d)
  BY <1>1 DEF Hello, Call, Holds, Registered, TypeOK, Tasks
<1>5. HolderIsLive'
  BY <1>3, <1>4 DEF HolderIsLive, Hello, tables
<1>6. NoGhosts'
  <2> SUFFICES ASSUME NEW w \in DOMAIN nodes, NEW d \in Conns, d = nodes[w].conn
               PROVE  Holds(d)' /\ uuid'[d] = w
    BY DEF TypeOK, NoGhosts, Hello, tables
  <2>1. Holds(d) /\ uuid[d] = w /\ d # c
    BY <1>3 DEF NoGhosts
  <2> QED
    BY <1>4, <2>1
<1>7. RegionMatches'
  <2>1. {d \in Conns : Registered(d)'} = {d \in Conns : Registered(d)}
    BY <1>3, <1>4 DEF Registered
  <2>2. \A d \in {e \in Conns : Registered(e)} : uuid'[d] = uuid[d]
    BY <1>3, <1>4 DEF Registered
  <2>3. region' = region
    BY DEF Hello, tables
  <2> QED
    BY <2>1, <2>2, <2>3 DEF RegionMatches
<1> QED
  BY <1>2, <1>5, <1>6, <1>7

\* The VPN and the time of the connection are set before anything is held.
LEMMA AssignInv ==
    ASSUME RegistryInv, NEW c \in Conns, Assign(c)
    PROVE  RegistryInv'
<1> USE DEF RegistryInv
<1>1. c \in Tasks
  BY DEF Tasks
<1>2. TypeOK'
  <2>1. pc' = [pc EXCEPT ![c] = "claim"] /\ after' = after
    BY DEF Assign, GoTo
  <2>2. AssignVpn(uuid[c], snap[c]) \in Nat
    BY <1>1 DEF AssignVpn, TypeOK
  <2> QED
    BY <1>1, <2>1, <2>2, CallTypes DEF Assign, TypeOK, tables, configVars
<1>3. ~Holds(c) /\ ~Holds(c)'
  BY <1>1 DEF Assign, GoTo, Holds, TypeOK, Refreshing
<1>4. \A d \in Conns \ {c} : /\ connected_at'[d] = connected_at[d]
                             /\ Holds(d)' <=> Holds(d)
                             /\ Registered(d)' <=> Registered(d)
  BY <1>1 DEF Assign, GoTo, Holds, Registered, TypeOK, Tasks
<1>5. HolderIsLive'
  BY <1>3, <1>4 DEF HolderIsLive, Assign, tables
<1>6. NoGhosts'
  <2> SUFFICES ASSUME NEW w \in DOMAIN nodes, NEW d \in Conns, d = nodes[w].conn
               PROVE  Holds(d)' /\ uuid[d] = w
    BY DEF TypeOK, NoGhosts, Assign, tables
  <2>1. Holds(d) /\ uuid[d] = w /\ d # c
    BY <1>3 DEF NoGhosts
  <2> QED
    BY <1>4, <2>1
<1>7. RegionMatches'
  <2>1. {d \in Conns : Registered(d)'} = {d \in Conns : Registered(d)}
    BY <1>3, <1>4 DEF Registered
  <2>2. region' = region /\ uuid' = uuid
    BY DEF Assign, tables
  <2> QED
    BY <2>1, <2>2 DEF RegionMatches
<1> QED
  BY <1>2, <1>5, <1>6, <1>7

\* What a refused HELLO, a full table, a frame, an end of the connection and
\* the two loops have in common: only a program counter moves.
LEMMA CounterStepInv ==
    ASSUME RegistryInv, NEW t \in Tasks,
           \/ t \in Conns /\ (\/ RefuseHello(t) \/ RegisterFails(t) \/ RefreshLsa(t)
                              \/ Frame(t) \/ ConnectionEnds(t))
           \/ t = "heartbeat" /\ Heartbeat
           \/ t = "lsa" /\ LsaRefresh
    PROVE  RegistryInv'
<1> USE DEF RegistryInv
<1>1. PICK there \in {"closed", "unclaim", "gather", "read", "cleanup"} :
        /\ pc' = [pc EXCEPT ![t] = there]
        /\ \/ after' = after
           \/ \E back \in {"serve", "refresh_lsa", "idle"} : after' = [after EXCEPT ![t] = back]
        /\ UNCHANGED <<tables, configVars, snap, updates, view, locals>>
  BY DEF RefuseHello, RegisterFails, RefreshLsa, Frame, ConnectionEnds, Heartbeat, LsaRefresh,
         GoTo, Call
<1>2. TypeOK'
  <2>1. there \in Refreshing \cup {"claim", "register", "unclaim", "cleanup", "closed"}
    BY DEF Refreshing
  <2>2. PICK back \in {"serve", "refresh_lsa", "idle"} :
          after' = after \/ after' = [after EXCEPT ![t] = back]
    BY <1>1
  <2> QED
    BY <1>1, <2>1, <2>2, CallTypes DEF TypeOK, tables, configVars, locals
<1>3. (Holds(t)' <=> Holds(t)) /\ (Registered(t)' <=> Registered(t))
  BY DEF RefuseHello, RegisterFails, RefreshLsa, Frame, ConnectionEnds, Heartbeat, LsaRefresh,
         GoTo, Call, Holds, Registered, Refreshing, TypeOK
<1>4. \A d \in Tasks \ {t} : pc'[d] = pc[d] /\ after'[d] = after[d]
  BY <1>1 DEF TypeOK
<1>5. UNCHANGED <<nodes, region, uuid, connected_at>>
  BY <1>1 DEF tables, locals
<1> QED
  BY <1>2, <1>3, <1>4, <1>5, QuietStepInv

----------------------------------------------------------------------------
(* The steps that take, publish and give back a UUID. *)

\* Two connections that hold one UUID are one connection.
LEMMA OneHolder ==
    ASSUME RegistryInv, NEW c \in Conns, NEW d \in Conns, Holds(c), Holds(d), uuid[c] = uuid[d]
    PROVE  c = d
  BY DEF RegistryInv, HolderIsLive

\* A step of connection c moves no other one.
LEMMA OthersStay ==
    ASSUME TypeOK, NEW c \in Conns, NEW there,
           pc' = [pc EXCEPT ![c] = there],
           after' = after \/ \E back : after' = [after EXCEPT ![c] = back]
    PROVE  \A d \in Conns \ {c} : (Holds(d)' <=> Holds(d)) /\ (Registered(d)' <=> Registered(d))
  BY DEF TypeOK, Holds, Registered, Tasks

\* A claim takes a free UUID, so no other connection holds it.
LEMMA ClaimInv ==
    ASSUME RegistryInv, NEW c \in Conns, Claim(c)
    PROVE  RegistryInv'
<1> USE DEF RegistryInv
<1>1. c \in Tasks
  BY DEF Tasks
<1>2. /\ pc' = [pc EXCEPT ![c] = "register"] /\ after' = after
      /\ UNCHANGED <<region, config, snap, updates, uuid, vpn, connected_at>>
  BY DEF Claim, GoTo, configVars, locals
<1>3. /\ DOMAIN nodes' = DOMAIN nodes \cup {uuid[c]}
      /\ nodes'[uuid[c]] = [conn |-> c, vpn |-> vpn[c], connected_at |-> connected_at[c]]
      /\ \A w \in DOMAIN nodes : w # uuid[c] => nodes'[w] = nodes[w]
  BY DEF Claim, With
<1>4. uuid[c] \notin DOMAIN nodes
  BY DEF Claim, Free
<1>5. \A d \in Conns \ {c} : (Holds(d)' <=> Holds(d)) /\ (Registered(d)' <=> Registered(d))
  BY <1>2, OthersStay
<1>6. ~Holds(c) /\ Holds(c)' /\ ~Registered(c)'
  BY <1>1, <1>2, <1>4 DEF HolderIsLive, TypeOK, Holds, Registered
<1>7. TypeOK'
  <2>1. \A w \in DOMAIN nodes' : nodes'[w] \in [conn : Conns, vpn : Nat, connected_at : Times]
    BY <1>3 DEF TypeOK
  <2> QED
    BY <1>1, <1>2, <2>1, CallTypes DEF TypeOK
<1>8. HolderIsLive'
  <2> SUFFICES ASSUME NEW d \in Conns, Holds(d)'
               PROVE  /\ uuid[d] \in DOMAIN nodes'
                      /\ nodes'[uuid[d]].conn = d
                      /\ nodes'[uuid[d]].connected_at = connected_at[d]
    BY <1>2 DEF HolderIsLive
  <2>1. CASE d = c
    BY <1>3, <2>1
  <2>2. CASE d # c
    <3>1. uuid[d] \in DOMAIN nodes /\ nodes[uuid[d]].conn = d
          /\ nodes[uuid[d]].connected_at = connected_at[d]
      BY <1>5, <2>2 DEF HolderIsLive
    <3> QED
      BY <1>3, <1>4, <3>1
  <2> QED
    BY <2>1, <2>2
<1>9. NoGhosts'
  <2> SUFFICES ASSUME NEW w \in DOMAIN nodes', NEW d \in Conns, d = nodes'[w].conn
               PROVE  Holds(d)' /\ uuid[d] = w
    BY <1>2, <1>7 DEF NoGhosts, TypeOK
  <2>1. CASE w = uuid[c]
    BY <1>3, <1>6, <2>1
  <2>2. CASE w # uuid[c]
    <3>1. w \in DOMAIN nodes /\ d = nodes[w].conn
      BY <1>3, <2>2
    <3>2. Holds(d) /\ uuid[d] = w
      BY <3>1 DEF NoGhosts
    <3> QED
      BY <1>5, <1>6, <3>2
  <2> QED
    BY <2>1, <2>2
<1>10. RegionMatches'
  <2>1. {d \in Conns : Registered(d)'} = {d \in Conns : Registered(d)}
    BY <1>5, <1>6 DEF Registered
  <2> QED
    BY <1>2, <2>1 DEF RegionMatches
<1> QED
  BY <1>7, <1>8, <1>9, <1>10

\* A registration publishes the UUID its connection holds.
LEMMA RegisterNodeInv ==
    ASSUME RegistryInv, NEW c \in Conns, RegisterNode(c)
    PROVE  RegistryInv'
<1> USE DEF RegistryInv
<1>1. c \in Tasks
  BY DEF Tasks
<1>2. /\ pc' = [pc EXCEPT ![c] = "gather"] /\ after' = [after EXCEPT ![c] = "serve"]
      /\ UNCHANGED <<nodes, config, snap, updates, uuid, vpn, connected_at>>
  BY DEF RegisterNode, Call, configVars, locals
<1>3. /\ DOMAIN region' = DOMAIN region \cup {uuid[c]}
      /\ region'[uuid[c]] = vpn[c]
      /\ \A w \in DOMAIN region : w # uuid[c] => region'[w] = region[w]
  BY DEF RegisterNode, With
<1>4. \A d \in Conns \ {c} : (Holds(d)' <=> Holds(d)) /\ (Registered(d)' <=> Registered(d))
  BY <1>2, OthersStay
<1>5. Holds(c) /\ ~Registered(c) /\ Holds(c)' /\ Registered(c)'
  BY <1>1, <1>2 DEF RegisterNode, TypeOK, Holds, Registered, Refreshing
<1>6. TypeOK'
  <2>1. \A w \in DOMAIN region' : region'[w] \in Nat
    BY <1>3 DEF TypeOK
  <2>2. "gather" \in Refreshing
    BY DEF Refreshing
  <2> QED
    BY <1>1, <1>2, <2>1, <2>2, CallTypes DEF TypeOK
<1>7. HolderIsLive'
  BY <1>2, <1>4, <1>5 DEF HolderIsLive
<1>8. NoGhosts'
  <2> SUFFICES ASSUME NEW w \in DOMAIN nodes, NEW d \in Conns, d = nodes[w].conn
               PROVE  Holds(d)' /\ uuid[d] = w
    BY <1>2 DEF NoGhosts, TypeOK
  <2> QED
    BY <1>4, <1>5 DEF NoGhosts
<1>9. RegionMatches'
  <2>1. {d \in Conns : Registered(d)'} = {d \in Conns : Registered(d)} \cup {c}
    BY <1>4, <1>5
  <2> QED
    BY <1>2, <1>3, <2>1 DEF RegionMatches
<1> QED
  BY <1>6, <1>7, <1>8, <1>9

\* A connection that holds its UUID takes its own entry, and nothing else, away.
LEMMA OwnEntry ==
    ASSUME RegistryInv, NEW c \in Conns, Holds(c)
    PROVE  /\ IsOwn(c)
           /\ DOMAIN NodesWithout(c) = DOMAIN nodes \ {uuid[c]}
           /\ \A w \in DOMAIN nodes \ {uuid[c]} : NodesWithout(c)[w] = nodes[w]
           /\ \A d \in Conns \ {c} : Holds(d) => uuid[d] # uuid[c]
<1>1. IsOwn(c)
  BY DEF RegistryInv, HolderIsLive, IsOwn
<1>2. NodesWithout(c) = Without(nodes, uuid[c])
  BY <1>1 DEF NodesWithout
<1> QED
  BY <1>1, <1>2, OneHolder DEF Without

\* Giving the UUID back keeps the others: common to Unclaim and Cleanup.
LEMMA GiveBack ==
    ASSUME RegistryInv, TypeOK', NEW c \in Conns, Holds(c), ~Holds(c)',
           nodes' = NodesWithout(c), uuid' = uuid, connected_at' = connected_at,
           \A d \in Conns \ {c} : Holds(d)' <=> Holds(d)
    PROVE  HolderIsLive' /\ NoGhosts'
<1> USE DEF RegistryInv
<1>1. /\ DOMAIN nodes' = DOMAIN nodes \ {uuid[c]}
      /\ \A w \in DOMAIN nodes \ {uuid[c]} : nodes'[w] = nodes[w]
      /\ \A d \in Conns \ {c} : Holds(d) => uuid[d] # uuid[c]
  BY OwnEntry
<1>2. HolderIsLive'
  <2> SUFFICES ASSUME NEW d \in Conns, Holds(d)'
               PROVE  /\ uuid[d] \in DOMAIN nodes'
                      /\ nodes'[uuid[d]].conn = d
                      /\ nodes'[uuid[d]].connected_at = connected_at[d]
    BY DEF HolderIsLive
  <2>1. d # c /\ Holds(d)
    OBVIOUS
  <2>2. /\ uuid[d] \in DOMAIN nodes /\ nodes[uuid[d]].conn = d
        /\ nodes[uuid[d]].connected_at = connected_at[d]
    BY <2>1 DEF HolderIsLive
  <2> QED
    BY <1>1, <2>1, <2>2
<1>3. NoGhosts'
  <2> SUFFICES ASSUME NEW w \in DOMAIN nodes', NEW d \in Conns, d = nodes'[w].conn
               PROVE  Holds(d)' /\ uuid[d] = w
    BY DEF NoGhosts, TypeOK
  <2>1. w \in DOMAIN nodes /\ w # uuid[c] /\ d = nodes[w].conn
    BY <1>1
  <2>2. Holds(d) /\ uuid[d] = w
    BY <2>1 DEF NoGhosts
  <2> QED
    BY <2>1, <2>2
<1> QED
  BY <1>2, <1>3

\* A failed registration gives its claim back.
LEMMA UnclaimInv ==
    ASSUME RegistryInv, NEW c \in Conns, Unclaim(c)
    PROVE  RegistryInv'
<1> USE DEF RegistryInv
<1>1. c \in Tasks
  BY DEF Tasks
<1>2. /\ pc' = [pc EXCEPT ![c] = "closed"] /\ after' = after /\ nodes' = NodesWithout(c)
      /\ UNCHANGED <<region, config, snap, updates, uuid, vpn, connected_at>>
  BY DEF Unclaim, GoTo, configVars, locals
<1>3. \A d \in Conns \ {c} : (Holds(d)' <=> Holds(d)) /\ (Registered(d)' <=> Registered(d))
  BY <1>2, OthersStay
<1>4. Holds(c) /\ ~Registered(c) /\ ~Holds(c)'
  BY <1>1, <1>2 DEF Unclaim, TypeOK, Holds, Registered, Refreshing
<1>5. TypeOK'
  <2>1. \A w \in DOMAIN nodes' : nodes'[w] \in [conn : Conns, vpn : Nat, connected_at : Times]
    BY <1>2, <1>4, OwnEntry DEF TypeOK
  <2> QED
    BY <1>1, <1>2, <2>1, CallTypes DEF TypeOK
<1>6. HolderIsLive' /\ NoGhosts'
  BY <1>2, <1>3, <1>4, <1>5, GiveBack
<1>7. RegionMatches'
  <2>1. {d \in Conns : Registered(d)'} = {d \in Conns : Registered(d)}
    BY <1>3, <1>4 DEF Registered
  <2> QED
    BY <1>2, <2>1 DEF RegionMatches
<1> QED
  BY <1>5, <1>6, <1>7

\* The end of a connection takes its UUID out of the table and of the region.
LEMMA CleanupInv ==
    ASSUME RegistryInv, NEW c \in Conns, Cleanup(c)
    PROVE  RegistryInv'
<1> USE DEF RegistryInv
<1>1. c \in Tasks
  BY DEF Tasks
<1>2. /\ pc' = [pc EXCEPT ![c] = "gather"] /\ after' = [after EXCEPT ![c] = "closed"]
      /\ nodes' = NodesWithout(c) /\ region' = RegionWithout(c)
      /\ UNCHANGED <<config, snap, updates, uuid, vpn, connected_at>>
  BY DEF Cleanup, Call, configVars, locals
<1>3. \A d \in Conns \ {c} : (Holds(d)' <=> Holds(d)) /\ (Registered(d)' <=> Registered(d))
  BY <1>2, OthersStay
<1>4. Holds(c) /\ Registered(c) /\ ~Holds(c)'
  BY <1>1, <1>2 DEF Cleanup, TypeOK, Holds, Registered, Refreshing
<1>5. DOMAIN region' = DOMAIN region \ {uuid[c]}
      /\ \A w \in DOMAIN region' : region'[w] = region[w]
  BY <1>2, <1>4, OwnEntry DEF RegionWithout, Without
<1>6. TypeOK'
  <2>1. \A w \in DOMAIN nodes' : nodes'[w] \in [conn : Conns, vpn : Nat, connected_at : Times]
    BY <1>2, <1>4, OwnEntry DEF TypeOK
  <2>2. \A w \in DOMAIN region' : region'[w] \in Nat
    BY <1>5 DEF TypeOK
  <2>3. "gather" \in Refreshing
    BY DEF Refreshing
  <2> QED
    BY <1>1, <1>2, <2>1, <2>2, <2>3, CallTypes DEF TypeOK
<1>7. HolderIsLive' /\ NoGhosts'
  BY <1>2, <1>3, <1>4, <1>6, GiveBack
<1>8. RegionMatches'
  <2>1. {d \in Conns : Registered(d)'} = {d \in Conns : Registered(d)} \ {c}
    BY <1>3, <1>4 DEF Registered
  <2>2. \A d \in Conns \ {c} : Registered(d) => uuid[d] # uuid[c]
    BY <1>4, OwnEntry DEF Registered
  <2> QED
    BY <1>2, <1>4, <1>5, <2>1, <2>2 DEF RegionMatches
<1> QED
  BY <1>6, <1>7, <1>8

----------------------------------------------------------------------------
(* The theorems. *)

\* At the start nobody holds anything.
LEMMA InitInv == Init => RegistryInv
<1> SUFFICES ASSUME Init PROVE RegistryInv
  OBVIOUS
<1>1. TypeOK
  BY RegistryAssumption DEF Init, TypeOK, Nothing, Refreshing, Tasks
<1>2. \A c \in Conns : ~Holds(c)
  BY DEF Init, Holds, Tasks, Refreshing
<1> QED
  BY <1>1, <1>2 DEF RegistryInv, HolderIsLive, NoGhosts, RegionMatches, Registered, Init, Nothing

\* Every step, the router's or the configuration's, keeps the invariant.
LEMMA NextInv == RegistryInv /\ [Next]_vars => RegistryInv'
<1> SUFFICES ASSUME RegistryInv, [Next]_vars PROVE RegistryInv'
  OBVIOUS
<1>1. ASSUME NEW t \in Tasks, RefreshStep(t) PROVE RegistryInv'
  BY <1>1, RefreshStepInv
<1>2. ASSUME NEW c \in Conns, NEW u \in Uuids, Hello(c, u) PROVE RegistryInv'
  BY <1>2, HelloInv
<1>3. ASSUME NEW c \in Conns, HandleStep(c) PROVE RegistryInv'
  <2>1. c \in Tasks
    BY DEF Tasks
  <2> QED
    BY <1>3, <2>1, AssignInv, ClaimInv, RegisterNodeInv, UnclaimInv, CleanupInv, CounterStepInv
       DEF HandleStep
<1>4. ASSUME NEW c \in Conns, Frame(c) \/ ConnectionEnds(c) PROVE RegistryInv'
  BY <1>4, CounterStepInv DEF Tasks
<1>5. CASE Heartbeat \/ LsaRefresh
  BY <1>5, CounterStepInv DEF Tasks
<1>6. CASE ConfigChanges
  <2>1. TypeOK'
    BY <1>6 DEF ConfigChanges, RegistryInv, TypeOK, tables, locals
  <2>2. SameHolders
    BY <1>6 DEF ConfigChanges, SameHolders, Holds, Registered, tables, locals
  <2> QED
    BY <2>1, <2>2, SameHoldersInv
<1>7. CASE UNCHANGED vars
  BY <1>7 DEF vars, tables, configVars, locals, RegistryInv, TypeOK, HolderIsLive, NoGhosts,
              RegionMatches, Holds, Registered
<1> QED
  BY <1>1, <1>2, <1>3, <1>4, <1>5, <1>6, <1>7 DEF Next

\* The registry's invariant holds in every reachable state, for any number of
\* nodes, connections, slots and configuration changes.
THEOREM RegistryInvariant == Spec => []RegistryInv
  BY InitInv, NextInv, PTL DEF Spec

\* One live connection per UUID: what handle_node's claim and cleanup promise.
THEOREM RegistryHolderIsLive == Spec => []HolderIsLive
<1>1. RegistryInv => HolderIsLive
  BY DEF RegistryInv
<1> QED
  BY <1>1, RegistryInvariant, PTL

\* No entry of the node table outlives its connection, a failed registration's
\* included.
THEOREM RegistryNoGhosts == Spec => []NoGhosts
<1>1. RegistryInv => NoGhosts
  BY DEF RegistryInv
<1> QED
  BY <1>1, RegistryInvariant, PTL

\* The region's active entries are the registered connections' UUIDs.
THEOREM RegistryRegionMatches == Spec => []RegionMatches
<1>1. RegistryInv => RegionMatches
  BY DEF RegistryInv
<1> QED
  BY <1>1, RegistryInvariant, PTL

================================================================================
