-------------------------------- MODULE Dns --------------------------------
(***************************************************************************)
(* aiomisc/service/dns: the zones of a DNSStore in a tree of labels, their *)
(* records, and the answers of the server.                                 *)
(*                                                                         *)
(* A name is the sequence of its labels from the right, as                 *)
(* get_reverse_tuple() gives it; a record is known by its name.  The root  *)
(* zone, whose only label is empty, is left out.                           *)
(***************************************************************************)
EXTENDS Naturals, Sequences, FiniteSets

CONSTANTS
    Names,          \* names of zones and records
    TextSuffix,     \* pairs of labels: the text of the second ends with that of the first
    NoZone          \* the value of a node without a zone

VARIABLES
    nodes,          \* the paths of the nodes of the RadixTree, except the root
    zone,           \* the value of a node: a set of records, or NoZone
    reply           \* the last answer of the server

vars == <<nodes, zone, reply>>

TypeOK ==
    /\ nodes \subseteq Names
    /\ zone \in [Names -> {NoZone} \cup SUBSET Names]
    /\ reply.rcode \in {"none", "NOERROR", "NXDOMAIN", "SERVFAIL"}
    /\ reply.records \subseteq Names

Init ==
    /\ nodes = {} /\ zone = [z \in Names |-> NoZone]
    /\ reply = [rcode |-> "none", name |-> <<>>, records |-> {}]

Prefixes(name) == {SubSeq(name, 1, k) : k \in 1..Len(name)}

\* DNSZone.check_record(): the text of the name ends with that of the zone, which need
\* not be at the boundary of a label.
CheckRecord(z, name) ==
    /\ Len(z) <= Len(name)
    /\ \A k \in 1..Len(z) - 1 : z[k] = name[k]
    /\ z[Len(z)] = name[Len(z)] \/ <<z[Len(z)], name[Len(z)]>> \in TextSuffix

\* RadixTree.insert(): the nodes on the way are created and stay.
Insert(z, value) ==
    /\ nodes' = nodes \cup Prefixes(z)
    /\ zone' = [zone EXCEPT ![z] = value]

\* RadixTree.search()
Search(z) == IF z \in nodes THEN zone[z] ELSE NoZone

\* DNSStore.add_zone() of DNSZone(name, *records)
AddZone(z, records) ==
    /\ Search(z) = NoZone
    /\ \A r \in records : CheckRecord(z, r)
    /\ Insert(z, records)
    /\ UNCHANGED reply

\* DNSStore.remove_zone(): the node stays, without a value.
RemoveZone(z) ==
    /\ Search(z) # NoZone
    /\ Insert(z, NoZone)
    /\ UNCHANGED reply

\* DNSZone.add_record() and DNSZone.remove_record() of a zone in the store.
AddRecord(z, r) ==
    /\ Search(z) # NoZone /\ CheckRecord(z, r)
    /\ zone' = [zone EXCEPT ![z] = @ \cup {r}]
    /\ UNCHANGED <<nodes, reply>>

RemoveRecord(z, r) ==
    /\ Search(z) # NoZone
    /\ zone' = [zone EXCEPT ![z] = @ \ {r}]
    /\ UNCHANGED <<nodes, reply>>

\* DNSZone.replace()
ReplaceZone(z, records) ==
    /\ Search(z) # NoZone /\ \A r \in records : CheckRecord(z, r)
    /\ zone' = [zone EXCEPT ![z] = records]
    /\ UNCHANGED <<nodes, reply>>

\* DNSStore.replace(): a new tree, of the zones in the domain of `data'.
ReplaceStore(data) ==
    /\ \A z \in DOMAIN data : \A r \in data[z] : CheckRecord(z, r)
    /\ nodes' = UNION {Prefixes(z) : z \in DOMAIN data}
    /\ zone' = [z \in Names |-> IF z \in DOMAIN data THEN data[z] ELSE NoZone]
    /\ UNCHANGED reply

Longest(paths) == CHOOSE p \in paths : \A q \in paths : Len(q) <= Len(p)

\* Fault: the path of the first zone on the way, not of the last.
FindPrefixFirst(name) ==
    LET zones == {p \in Prefixes(name) \cap nodes : zone[p] # NoZone}
    IN IF zones = {} THEN <<>> ELSE CHOOSE p \in zones : \A q \in zones : Len(p) <= Len(q)

\* RadixTree.find_prefix(): the path of the last node on the way, if any node on the way
\* has a value; <<>> stands for None.
FindPrefix(name) ==
    LET path == Prefixes(name) \cap nodes
    IN IF \E p \in path : zone[p] # NoZone THEN Longest(path) ELSE <<>>

\* DNSStore.query(), get_zone_for_name() and DNSZone.get_records()
Query(name) ==
    LET z == FindPrefix(name)
    IN IF z = <<>> \/ Search(z) = NoZone THEN {} ELSE zone[z] \cap {name}

\* DNSServer.handle_request(), of a datagram or a packet of a TCP client: a question of an
\* unknown type is answered with SERVFAIL.
HandleRequest(name, known) ==
    /\ reply' = [rcode |-> IF ~known THEN "SERVFAIL"
                           ELSE IF Query(name) = {} THEN "NXDOMAIN" ELSE "NOERROR",
                 name |-> name,
                 records |-> IF known THEN Query(name) ELSE {}]
    /\ UNCHANGED <<nodes, zone>>

Small == {records \in SUBSET Names : Cardinality(records) <= 1}

Next ==
    \/ \E z \in Names :
          \/ \E records \in Small :
                AddZone(z, records) \/ ReplaceZone(z, records)
          \/ \E r \in Names : AddRecord(z, r) \/ RemoveRecord(z, r)
          \/ RemoveZone(z)
    \/ \E Z \in SUBSET Names : Cardinality(Z) <= 2 /\ ReplaceStore([z \in Z |-> {z}])
    \/ \E name \in Names, known \in BOOLEAN : HandleRequest(name, known)

Spec == Init /\ [][Next]_vars

\* The zones of the store that enclose a name.
Enclosing(name) == {p \in Prefixes(name) : p \in Names /\ zone[p] # NoZone}

\* What a store of zones is to answer: the records of the closest enclosing zone.
Reference(name) ==
    IF Enclosing(name) = {} THEN {} ELSE zone[Longest(Enclosing(name))] \cap {name}

\* An answer never comes from another zone than the closest one, whichever zones were
\* added, removed and replaced before: not from a removed zone, nor from the parent of a
\* zone that does not have the record (tree.py:40-59, store.py:33-40).
OnlyTheClosestZone == \A name \in Names : Query(name) # {} => Query(name) = Reference(name)

\* "This operation makes the record available for DNS resolution within that zone"
\* (docs/source/services/periodic.rst:178): the records of the closest zone are found.
RecordsAreFound == \A name \in Names : Query(name) = Reference(name)
=============================================================================
