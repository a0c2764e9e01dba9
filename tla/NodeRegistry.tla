------------------------------ MODULE NodeRegistry ------------------------------
(***************************************************************************)
(* The nodes of one router (src/src/router/mod.rs): each connection to the *)
(* node socket is a task (`handle_node`) that claims its UUID, registers   *)
(* in the router's shared region, serves frames and cleans up.  The tasks  *)
(* share the node table, the region, the version of the configuration and  *)
(* the FIB behind one lock each, and await between locks.  The heartbeat   *)
(* refreshes the configuration, the LSA loop rebuilds the FIB; both, and   *)
(* the frames of every node, run the same `refresh_config` and             *)
(* `rebuild_fib`.                                                          *)
(*                                                                         *)
(* A node's name is its UUID.  The rules of version v of the configuration *)
(* put a node into VPN v, and a node that is not subject to them into VPN  *)
(* 0; version 0 is the absence of the config region.  The region is its    *)
(* table of active entries; its words and readers are not modelled here.   *)
(* Of the FIB only the local entries are.                                  *)
(***************************************************************************)
EXTENDS Naturals, FiniteSets

CONSTANTS
    Uuids,              \* the nodes' UUIDs
    SystemNodes,        \* those of SY.* and RT.* nodes
    Conns,              \* connections to the node socket, each made once
    Times,              \* values of the millisecond clock a connection may read
    MAX_NODES,          \* slots of the router's region
    MaxConfig,          \* bound: changes of the configuration
    ReadsTimeOut        \* whether a read of the config region may time out

ASSUME RegistryAssumption ==
    /\ SystemNodes \subseteq Uuids
    /\ "heartbeat" \notin Conns /\ "lsa" \notin Conns
    /\ Uuids # {} /\ Times # {}
    /\ MAX_NODES \in Nat /\ MaxConfig \in Nat
    /\ ReadsTimeOut \in BOOLEAN

Tasks == Conns \cup {"heartbeat", "lsa"}

VARIABLES
    nodes,              \* the node table: uuid -> [conn, vpn, connected_at]
    region,             \* the region's active entries: uuid -> vpn
    fib,                \* the FIB's local entries: uuid -> vpn
    config,             \* the config_version SY.config.routes wrote
    config_version,     \* the version this router applied
    version_guard,      \* the task that holds config_version's lock, or "free"
    pc,                 \* where each task is
    after,              \* where it goes on after the refresh or rebuild it runs
    snap,               \* the version of the config snapshot it read, 0 for none
    updates,            \* the VPNs reassign_vpns found changed: uuid -> vpn
    view,               \* the local entries rebuild_fib gathered: uuid -> vpn
    uuid, vpn, connected_at   \* handle_node's locals, per connection

tables == <<nodes, region, fib>>
configVars == <<config, config_version, version_guard>>
locals == <<uuid, vpn, connected_at>>
vars == <<tables, configVars, pc, after, snap, updates, view, locals>>

Nothing == [u \in {} |-> u]

Without(f, u) == [w \in DOMAIN f \ {u} |-> f[w]]

With(f, u, value) == [w \in DOMAIN f \cup {u} |-> IF w = u THEN value ELSE f[w]]

AssignVpn(u, version) == IF u \in SystemNodes THEN 0 ELSE version

GoTo(t, there) == pc' = [pc EXCEPT ![t] = there]

\* Run the part of the code that starts at `there`, then go on at `back`.
Call(t, there, back) ==
    /\ pc' = [pc EXCEPT ![t] = there]
    /\ after' = [after EXCEPT ![t] = back]

----------------------------------------------------------------------------
(* refresh_config. *)

\* The snapshot is read before config_version's lock is taken.
ReadConfig(t) ==
    /\ pc[t] = "read"
    /\ \E version \in {config} \cup (IF ReadsTimeOut THEN {0} ELSE {}) :
          /\ snap' = [snap EXCEPT ![t] = version]
          /\ GoTo(t, IF version = 0 THEN after[t] ELSE "check")
    /\ UNCHANGED <<tables, configVars, after, updates, view, locals>>

\* The routes, the rules and the taps are replaced under the lock, which is held
\* until the FIB is rebuilt.
CheckVersion(t) ==
    /\ pc[t] = "check"
    /\ version_guard = "free"
    /\ IF snap[t] = config_version
       THEN /\ GoTo(t, after[t])
            /\ UNCHANGED <<config_version, version_guard>>
       ELSE /\ config_version' = snap[t]
            /\ version_guard' = t
            /\ GoTo(t, "scan")
    /\ UNCHANGED <<tables, config, after, snap, updates, view, locals>>

\* reassign_vpns: scan the table, then update the table, then the region.
ScanNodes(t) ==
    LET changed == {u \in DOMAIN nodes : AssignVpn(u, snap[t]) # nodes[u].vpn}
    IN  /\ pc[t] = "scan"
        /\ updates' = [updates EXCEPT ![t] = [u \in changed |-> AssignVpn(u, snap[t])]]
        /\ GoTo(t, IF changed = {} THEN "gather" ELSE "update_nodes")
        /\ UNCHANGED <<tables, configVars, after, snap, view, locals>>

UpdateNodes(t) ==
    /\ pc[t] = "update_nodes"
    /\ nodes' = [u \in DOMAIN nodes |->
                   IF u \in DOMAIN updates[t] THEN [nodes[u] EXCEPT !.vpn = updates[t][u]]
                                              ELSE nodes[u]]
    /\ GoTo(t, "update_region")
    /\ UNCHANGED <<region, fib, configVars, after, snap, updates, view, locals>>

UpdateRegion(t) ==
    /\ pc[t] = "update_region"
    /\ region' = [u \in DOMAIN region |->
                    IF u \in DOMAIN updates[t] THEN updates[t][u] ELSE region[u]]
    /\ updates' = [updates EXCEPT ![t] = Nothing]
    /\ GoTo(t, "gather")
    /\ UNCHANGED <<nodes, fib, configVars, after, snap, view, locals>>

----------------------------------------------------------------------------
(* rebuild_fib: gather the tables under their locks, then replace the FIB. *)

LocalEntries == [u \in DOMAIN nodes |-> nodes[u].vpn]

GatherFib(t) ==
    /\ pc[t] = "gather"
    /\ view' = [view EXCEPT ![t] = LocalEntries]
    /\ GoTo(t, "install")
    /\ UNCHANGED <<tables, configVars, after, snap, updates, locals>>

\* A refresh of the configuration ends here and gives the lock back.
InstallFib(t) ==
    /\ pc[t] = "install"
    /\ fib' = view[t]
    /\ view' = [view EXCEPT ![t] = Nothing]
    /\ version_guard' = IF version_guard = t THEN "free" ELSE version_guard
    /\ GoTo(t, after[t])
    /\ UNCHANGED <<nodes, region, config, config_version, after, snap, updates, locals>>

----------------------------------------------------------------------------
(* handle_node. *)

Hello(c, u) ==
    /\ pc[c] = "new"
    /\ uuid' = [uuid EXCEPT ![c] = u]
    /\ Call(c, "read", "assign")
    /\ UNCHANGED <<tables, configVars, snap, updates, view, vpn, connected_at>>

Assign(c) ==
    /\ pc[c] = "assign"
    /\ vpn' = [vpn EXCEPT ![c] = AssignVpn(uuid[c], snap[c])]
    /\ \E now \in Times : connected_at' = [connected_at EXCEPT ![c] = now]
    /\ GoTo(c, "claim")
    /\ UNCHANGED <<tables, configVars, after, snap, updates, view, uuid>>

\* Mutant: a HELLO takes its UUID whoever holds it.
AlwaysFree(u) == TRUE

Free(u) == u \notin DOMAIN nodes

\* claim_node_uuid: polls until the UUID is free ...
Claim(c) ==
    /\ pc[c] = "claim"
    /\ Free(uuid[c])
    /\ nodes' = With(nodes, uuid[c], [conn |-> c, vpn |-> vpn[c], connected_at |-> connected_at[c]])
    /\ GoTo(c, "register")
    /\ UNCHANGED <<region, fib, configVars, after, snap, updates, view, locals>>

\* ... or refuses the HELLO after DUPLICATE_HELLO_GRACE.
RefuseHello(c) ==
    /\ pc[c] = "claim"
    /\ ~Free(uuid[c])
    /\ GoTo(c, "closed")
    /\ UNCHANGED <<tables, configVars, after, snap, updates, view, locals>>

\* A node registered again keeps its slot.
HasSlot(u) == u \in DOMAIN region \/ Cardinality(DOMAIN region) < MAX_NODES

RegisterNode(c) ==
    /\ pc[c] = "register"
    /\ HasSlot(uuid[c])
    /\ region' = With(region, uuid[c], vpn[c])
    /\ Call(c, "gather", "serve")
    /\ UNCHANGED <<nodes, fib, configVars, snap, updates, view, locals>>

\* The region's table is full (SlotFull): the region's lock is given back first.
RegisterFails(c) ==
    /\ pc[c] = "register"
    /\ ~HasSlot(uuid[c])
    /\ GoTo(c, "unclaim")
    /\ UNCHANGED <<tables, configVars, after, snap, updates, view, locals>>

\* Whether the table's entry is this connection's own.
IsOwn(c) ==
    /\ uuid[c] \in DOMAIN nodes
    /\ nodes[uuid[c]].connected_at = connected_at[c]

\* Mutant: a failed registration leaves the claim.
KeepClaim(c) == nodes

NodesWithout(c) == IF IsOwn(c) THEN Without(nodes, uuid[c]) ELSE nodes

Unclaim(c) ==
    /\ pc[c] = "unclaim"
    /\ nodes' = NodesWithout(c)
    /\ GoTo(c, "closed")
    /\ UNCHANGED <<region, fib, configVars, after, snap, updates, view, locals>>

\* A frame of the node: refresh_config, then refresh_lsa.
Frame(c) ==
    /\ pc[c] = "serve"
    /\ Call(c, "read", "refresh_lsa")
    /\ UNCHANGED <<tables, configVars, snap, updates, view, locals>>

RefreshLsa(c) ==
    /\ pc[c] = "refresh_lsa"
    /\ Call(c, "gather", "serve")
    /\ UNCHANGED <<tables, configVars, snap, updates, view, locals>>

\* EOF, WITHDRAW or a read error.
ConnectionEnds(c) ==
    /\ pc[c] = "serve"
    /\ GoTo(c, "cleanup")
    /\ UNCHANGED <<tables, configVars, after, snap, updates, view, locals>>

\* Mutant: the node stays in the region.
RegionKept(c) == region

RegionWithout(c) == IF IsOwn(c) THEN Without(region, uuid[c]) ELSE region

\* The region's lock is taken inside the table's.
Cleanup(c) ==
    /\ pc[c] = "cleanup"
    /\ nodes' = NodesWithout(c)
    /\ region' = RegionWithout(c)
    /\ Call(c, "gather", "closed")
    /\ UNCHANGED <<fib, configVars, snap, updates, view, locals>>

----------------------------------------------------------------------------
(* The loops and the writer of the config region. *)

\* Mutant: the heartbeat does not refresh the configuration.
NoHeartbeat == FALSE

Heartbeat ==
    /\ pc["heartbeat"] = "idle"
    /\ Call("heartbeat", "read", "idle")
    /\ UNCHANGED <<tables, configVars, snap, updates, view, locals>>

\* Mutant: no periodic rebuild.
NoLsaRefresh == FALSE

LsaRefresh ==
    /\ pc["lsa"] = "idle"
    /\ Call("lsa", "gather", "idle")
    /\ UNCHANGED <<tables, configVars, snap, updates, view, locals>>

ConfigChanges ==
    /\ config < MaxConfig
    /\ config' = config + 1
    /\ UNCHANGED <<tables, config_version, version_guard, pc, after, snap, updates, view, locals>>

----------------------------------------------------------------------------

Init ==
    /\ nodes = Nothing /\ region = Nothing /\ fib = Nothing
    /\ config = 0 /\ config_version = 0 /\ version_guard = "free"
    /\ pc = [t \in Tasks |-> IF t \in Conns THEN "new" ELSE "idle"]
    /\ after = [t \in Tasks |-> "idle"]
    /\ snap = [t \in Tasks |-> 0]
    /\ updates = [t \in Tasks |-> Nothing]
    /\ view = [t \in Tasks |-> Nothing]
    /\ uuid = [c \in Conns |-> CHOOSE u \in Uuids : TRUE]
    /\ vpn = [c \in Conns |-> 0]
    /\ connected_at = [c \in Conns |-> CHOOSE now \in Times : TRUE]

RefreshStep(t) ==
    \/ ReadConfig(t)
    \/ CheckVersion(t)
    \/ ScanNodes(t)
    \/ UpdateNodes(t)
    \/ UpdateRegion(t)
    \/ GatherFib(t)
    \/ InstallFib(t)

\* The steps a connection's task takes by itself.
HandleStep(c) ==
    \/ Assign(c)
    \/ Claim(c)
    \/ RefuseHello(c)
    \/ RegisterNode(c)
    \/ RegisterFails(c)
    \/ Unclaim(c)
    \/ RefreshLsa(c)
    \/ Cleanup(c)

Next ==
    \/ \E t \in Tasks : RefreshStep(t)
    \/ \E c \in Conns, u \in Uuids : Hello(c, u)
    \/ \E c \in Conns : HandleStep(c)
    \/ \E c \in Conns : Frame(c)
    \/ \E c \in Conns : ConnectionEnds(c)
    \/ Heartbeat
    \/ LsaRefresh
    \/ ConfigChanges

Spec == Init /\ [][Next]_vars

\* A task that runs goes on (no lock is held for ever), and the two loops tick.
\* No node is assumed to connect, to speak or to leave.
Fairness ==
    /\ \A t \in Tasks : WF_vars(RefreshStep(t))
    /\ \A c \in Conns : WF_vars(HandleStep(c))
    /\ WF_vars(Heartbeat)
    /\ WF_vars(LsaRefresh)

FairSpec == Spec /\ Fairness

----------------------------------------------------------------------------
(* Properties. *)

\* The places of refresh_config and rebuild_fib, which every task may run.
Refreshing == {"read", "check", "scan", "update_nodes", "update_region", "gather", "install"}

\* The type invariant.
TypeOK ==
    /\ \A u \in DOMAIN nodes : nodes[u] \in [conn : Conns, vpn : Nat, connected_at : Times]
    /\ \A u \in DOMAIN region : region[u] \in Nat
    /\ config \in Nat
    /\ pc \in [Tasks -> Refreshing \cup
                {"new", "idle", "assign", "claim", "register", "unclaim", "serve", "refresh_lsa",
                 "cleanup", "closed"}]
    /\ after \in [Tasks -> {"idle", "assign", "serve", "refresh_lsa", "closed"}]
    /\ snap \in [Tasks -> Nat]
    /\ DOMAIN updates = Tasks
    /\ \A t \in Tasks : \A u \in DOMAIN updates[t] : updates[t][u] \in Nat
    /\ uuid \in [Conns -> Uuids]
    /\ vpn \in [Conns -> Nat]
    /\ connected_at \in [Conns -> Times]

\* Where a connection holds its UUID: from its claim to its cleanup.
Holds(c) ==
    \/ pc[c] \in {"register", "unclaim", "serve", "refresh_lsa", "cleanup"}
    \/ pc[c] \in Refreshing /\ after[c] \in {"serve", "refresh_lsa"}

\* Where it is in the region too.
Registered(c) == Holds(c) /\ pc[c] \notin {"register", "unclaim"}

\* One live connection per UUID, and the table routes to it: between its claim
\* and its cleanup a connection's entry is its own.  The cleanup of an earlier
\* connection never takes it away, even when both read the same connected_at.
HolderIsLive ==
    \A c \in Conns : Holds(c) =>
        /\ uuid[c] \in DOMAIN nodes
        /\ nodes[uuid[c]].conn = c
        /\ nodes[uuid[c]].connected_at = connected_at[c]

\* A connection that ended leaves nothing behind: an entry of the table belongs
\* to a connection that holds it, so it never blocks the node's next HELLO.
NoGhosts ==
    \A u \in DOMAIN nodes : Holds(nodes[u].conn) /\ uuid[nodes[u].conn] = u

\* What the sibling routers and SY.orchestrator see: the region's active entries
\* are exactly the UUIDs of the registered connections.
RegionMatches == DOMAIN region = {uuid[c] : c \in {d \in Conns : Registered(d)}}

\* Inductive: that a connection holds its UUID alone, and what that rests on.
RegistryInv == TypeOK /\ HolderIsLive /\ NoGhosts /\ RegionMatches

\* Two rebuilds may end in the wrong order, but not for good: once the nodes
\* stay as they are, the FIB's local entries are theirs.
FibSettles == <>[](fib = LocalEntries)

\* A snapshot read before a newer one was applied may be applied after it, but
\* not for good: once it stays as it is, the router runs the newest version.
ConfigSettles == <>[](config_version = config)

\* Nothing is on its way: no refresh runs and no connection is being made.
Quiet ==
    /\ config_version = config
    /\ \A t \in Tasks : pc[t] \in {"new", "idle", "serve", "closed"}

\* "Assignment, when a node connects and whenever config_version changes": a
\* connected node is in the VPN the newest rules give it, in the table and in
\* the region.  It fails for a change that is applied between the read of a HELLO and
\* its claim.
VpnCurrent ==
    Quiet => \A u \in DOMAIN nodes :
        nodes[u].vpn = AssignVpn(u, config) /\ region[u] = AssignVpn(u, config)

================================================================================
