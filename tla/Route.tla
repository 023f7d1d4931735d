-------------------------------- MODULE Route --------------------------------
(***************************************************************************)
(* How hircluster.c makes its route of what a server says: the reply to    *)
(* CLUSTER SLOTS or to CLUSTER NODES becomes the nodes, and the regions of *)
(* the nodes become the table of the slots.                                *)
(*                                                                         *)
(* An address is a value; NoAddress is one without a host, as a server     *)
(* gives it that does not know its own yet, or the ":0" of a server that   *)
(* has been forgotten.  Later servers write the port of the cluster bus    *)
(* behind each address (busport), and ":0@0" for one that is forgotten.    *)
(***************************************************************************)
EXTENDS Integers, SequencesExt, FiniteSetsExt

CONSTANTS Addrs, NoAddress,
          REDIS_CLUSTER_SLOTS

ASSUME RouteConstants ==
    /\ NoAddress \notin Addrs
    /\ REDIS_CLUSTER_SLOTS \in Nat \ {0}

AllSlots == 0 .. REDIS_CLUSTER_SLOTS - 1

\* the results of a parser: nodes, by their addresses, or a failure
Failed == [ok |-> FALSE]
Parsed(nodes) == [ok |-> TRUE, nodes |-> nodes]
Empty == [a \in {} |-> a]

\* dictAdd, which refuses a key that is there, and a value that changes
dictAdd(d, k, v) == [x \in DOMAIN d \cup {k} |-> IF x \in DOMAIN d THEN d[x] ELSE v]
SetVal(d, k, v) == [d EXCEPT ![k] = v]

cluster_node_init(role) ==
    [role |-> role, slots |-> <<>>, slaves |-> <<>>, migrating |-> <<>>, importing |-> <<>>, usable |-> TRUE]

\* cluster_slot_ref_node, and cluster_slot_create with a node: a region goes
\* to the end of those of its master
cluster_slot_ref_node(slot, node) == [node EXCEPT !.slots = Append(@, slot)]
cluster_slot_create(node, start, end) == [node EXCEPT !.slots = Append(@, <<start, end>>)]

\* a slot that a master gives away or takes over
cluster_open_slot_create(node, slot_num, migrate) ==
    IF migrate THEN [node EXCEPT !.migrating = Append(@, slot_num)]
    ELSE [node EXCEPT !.importing = Append(@, slot_num)]

-----------------------------------------------------------------------------
(***************************************************************************)
(* CLUSTER SLOTS: one element per region: its slots, its master and the    *)
(* slaves of that.                                                         *)
(***************************************************************************)

\* node_get_with_slots: an empty host is none
Rejected(addr) == addr = NoAddress

\* a region; the slaves are only taken with the first region of a master
SlotsRegion(res, region, add_slave) ==
    LET master == Head(region.nodes)
        slot == <<region.start, region.end>>
        slaves == IF add_slave THEN Tail(region.nodes) ELSE <<>>
    IN  IF ~res.ok \/ region.start > region.end THEN Failed
        ELSE IF master \in DOMAIN res.nodes
             THEN Parsed([res.nodes EXCEPT ![master] = cluster_slot_ref_node(slot, @)])
        ELSE IF Rejected(master) \/ \E i \in DOMAIN slaves : Rejected(slaves[i]) THEN Failed
        ELSE Parsed(dictAdd(res.nodes, master,
                            cluster_slot_ref_node(slot, [cluster_node_init("master") EXCEPT !.slaves = slaves])))

parse_cluster_slots(reply, add_slave) ==
    IF reply = <<>> THEN Failed
    ELSE FoldLeft(LAMBDA res, region : SlotsRegion(res, region, add_slave), Parsed(Empty), reply)

-----------------------------------------------------------------------------
(***************************************************************************)
(* CLUSTER NODES: one line per node, with its name, its address, its role, *)
(* the name of its master, and, for a master, the slots: a number, a       *)
(* region, or a slot that is being moved.                                  *)
(***************************************************************************)
\* hi_atoi makes -1 of a port with anything behind it, as later servers
\* write it
UsablePort(line) == ~line.busport

\* mutant: a slave that comes before its master is forgotten
Mapping_Forgets(names, node, addr, master) ==
    IF master \notin DOMAIN names
    THEN dictAdd(names, master, [addr |-> addr, role |-> node, slaves |-> <<>>])
    ELSE IF node = "master"
         THEN SetVal(names, master, [addr |-> addr, role |-> "master", slaves |-> <<>>])
    ELSE [names EXCEPT ![master].slaves = Append(@, addr)]

\* cluster_master_slave_mapping_with_name: what is known under the name of a
\* master: the master, or the first of its slaves as long as the master has
\* not come, with the other slaves
cluster_master_slave_mapping_with_name(names, node, addr, master) ==
    IF master \notin DOMAIN names
    THEN dictAdd(names, master, [addr |-> addr, role |-> node, slaves |-> <<>>])
    ELSE IF node = "master"
         THEN SetVal(names, master, [addr |-> addr, role |-> "master",
                                     slaves |-> <<names[master].addr>> \o Reverse(names[master].slaves)])
    ELSE [names EXCEPT ![master].slaves = Append(@, addr)]

\* a part of the slots of a master: a region, unless it is not a proper one,
\* or a slot that moves, if these are asked for
Proper(part) == part.start <= part.end /\ part.end < REDIS_CLUSTER_SLOTS
Part(node, part, add_openslot) ==
    CASE part.kind = "slot" /\ Proper(part) -> cluster_slot_create(node, part.start, part.start)
      [] part.kind = "range" /\ Proper(part) -> cluster_slot_create(node, part.start, part.end)
      [] part.kind \in {"migrating", "importing"} /\ add_openslot ->
            cluster_open_slot_create(node, part.start, part.kind = "migrating")
      [] OTHER -> node

MasterNode(line, add_openslot) ==
    FoldLeft(LAMBDA node, part : Part(node, part, add_openslot),
             [cluster_node_init("master") EXCEPT !.usable = UsablePort(line)], line.parts)

\* the line of a slave
SlaveLine(st, line) ==
    [st EXCEPT !.names = cluster_master_slave_mapping_with_name(@, "slave", line.addr, line.master)]

\* the address is ":0", and nothing else
Skipped(line) == line.addr = NoAddress /\ ~line.busport

\* a line
NodesLine(st, line, flags) ==
    IF ~st.ok \/ Skipped(line) THEN st
    ELSE IF line.role = "master"
         THEN IF \/ line.addr \in DOMAIN st.nodes
                 \/ flags.add_slave /\ line.name \in DOMAIN st.names /\ st.names[line.name].role = "master"
              THEN [st EXCEPT !.ok = FALSE]
              ELSE [st EXCEPT !.nodes = dictAdd(@, line.addr, MasterNode(line, flags.add_openslot)),
                              !.names = IF flags.add_slave
                                        THEN cluster_master_slave_mapping_with_name(@, "master", line.addr, line.name)
                                        ELSE @]
    ELSE IF line.role = "slave" /\ flags.add_slave
         THEN SlaveLine(st, line)
    ELSE st

\* the slaves hang on the node of their master
WithSlaves(st) ==
    [a \in DOMAIN st.nodes |->
        LET own == {n \in DOMAIN st.names : st.names[n].addr = a /\ st.names[n].role = "master"}
        IN  IF own = {} THEN st.nodes[a]
            ELSE [st.nodes[a] EXCEPT !.slaves = st.names[CHOOSE n \in own : TRUE].slaves]]

parse_cluster_nodes(reply, flags) ==
    LET st == FoldLeft(LAMBDA s, line : NodesLine(s, line, flags),
                       [ok |-> TRUE, nodes |-> Empty, names |-> Empty], reply)
    IN  IF st.ok THEN Parsed(WithSlaves(st)) ELSE Failed

-----------------------------------------------------------------------------
(***************************************************************************)
(* cluster_update_route_by_addr: from the nodes to the table.              *)
(***************************************************************************)
NoRoute == [ok |-> FALSE]
Regions(nodes) ==
    UNION {{[node |-> a, nth |-> i, start |-> nodes[a].slots[i][1], end |-> nodes[a].slots[i][2]] :
              i \in DOMAIN nodes[a].slots} : a \in DOMAIN nodes}
Covers(r, s) == r.start <= s /\ s <= r.end

\* the node of each slot
TableOf(nodes) ==
    [s \in AllSlots |-> LET own == {r \in Regions(nodes) : Covers(r, s)}
                        IN  IF own = {} THEN NoAddress ELSE (CHOOSE r \in own : TRUE).node]

\* the route that a reply makes; there is none if a region is not one, or if
\* two of them hold the same slot
RouteOf(res) ==
    IF \/ ~res.ok
       \/ \E r \in Regions(res.nodes) : r.start > r.end \/ r.end >= REDIS_CLUSTER_SLOTS
       \/ \E q, r \in Regions(res.nodes) : q # r /\ q.start <= r.end /\ r.start <= q.end
    THEN NoRoute
    ELSE [ok |-> TRUE, nodes |-> res.nodes, table |-> TableOf(res.nodes)]
=============================================================================
