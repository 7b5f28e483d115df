--------------------------- MODULE ComposeServices ---------------------------
(***************************************************************************)
(* generateCompose (libs/b3nd-managed-node/compose-generator.ts): from the *)
(* manifest of a network, a compose file with a config server, the         *)
(* databases that some node's backends need, and a service for each node,  *)
(* in this order and under names of which nothing keeps two apart.         *)
(*                                                                         *)
(* The operator adds nodes to the manifest, and generates the file anew.   *)
(* A step is one turn of the loop over the nodes; nothing comes between.   *)
(***************************************************************************)
EXTENDS Naturals, Sequences

CONSTANTS
  NodeNames,               \* the names nodes may have
  SanitizeServiceName(_),  \* the service name that is made of one
  MaxNodes                 \* bound: nodes of a manifest

ASSUME ComposeAssumption == MaxNodes \in Nat

Databases == {"postgres", "mongo"}
NetworkNode == [name : NodeNames, backends : SUBSET Databases]

VARIABLES
  manifest,  \* manifest.nodes
  compose,   \* its file: "none", "loop" while it is made, "complete"
  placed,    \* how many nodes the loop has been through
  services   \* compose.services

csVars == <<manifest, compose, placed, services>>

-----------------------------------------------------------------------------
ServiceName(i) == SanitizeServiceName(manifest[i].name)

\* Mutant of Needed: the first node decides which databases there are.
NeededByFirst == {d \in Databases : manifest # <<>> /\ d \in manifest[1].backends}

\* needsPostgres, needsMongo.
Needed == {d \in Databases : \E i \in DOMAIN manifest : d \in manifest[i].backends}

\* The services that are not nodes.
Fixed == {"config-server"} \cup Needed

\* A service is the container it runs, of the node i or of none, and the
\* services it waits for.
Container(runs, i, deps) == [runs |-> runs, node |-> i, dependsOn |-> deps]
NodeContainer(i) == Container("node", i, {"config-server"} \cup manifest[i].backends)

NoServices == [s \in {} |-> Container(s, 0, {})]

CsInit == manifest = <<>> /\ compose = "none" /\ placed = 0 /\ services = NoServices

AddNode(node) ==
  /\ compose # "loop"
  /\ Len(manifest) < MaxNodes
  /\ manifest' = Append(manifest, node)
  /\ compose' = "none"
  /\ placed' = 0
  /\ services' = NoServices

\* generateCompose up to its loop: the config server and the databases.
Generate ==
  /\ compose = "none"
  /\ compose' = "loop"
  /\ services' = [s \in Fixed |-> Container(s, 0, {})]
  /\ UNCHANGED <<manifest, placed>>

\* The service of the next node, in the place of one with its name.
AddService ==
  /\ compose = "loop"
  /\ placed < Len(manifest)
  /\ placed' = placed + 1
  /\ services' =
       [s \in DOMAIN services \cup {ServiceName(placed + 1)} |->
          IF s = ServiceName(placed + 1) THEN NodeContainer(placed + 1) ELSE services[s]]
  /\ UNCHANGED <<manifest, compose>>

\* The loop ends, and the file is written.
Generated ==
  /\ compose = "loop"
  /\ placed = Len(manifest)
  /\ compose' = "complete"
  /\ UNCHANGED <<manifest, placed, services>>

CsNext ==
  \/ \E node \in NetworkNode : AddNode(node)
  \/ Generate
  \/ AddService
  \/ Generated

CsSpec == CsInit /\ [][CsNext]_csVars

-----------------------------------------------------------------------------
\* The variables have the types of what they model.
CsTypeOK ==
  /\ manifest \in Seq(NetworkNode)
  /\ Len(manifest) <= MaxNodes
  /\ compose \in {"none", "loop", "complete"}
  /\ placed \in 0 .. Len(manifest)
  /\ services \in [DOMAIN services ->
       [runs : {"node"} \cup Fixed, node : 0 .. Len(manifest), dependsOn : SUBSET Fixed]]

\* Service s is that of node i, the last one of its name that was placed.
OfNode(s, i) ==
  /\ ServiceName(i) = s
  /\ services[s] = NodeContainer(i)
  /\ \A j \in 1 .. placed : ServiceName(j) = s => j <= i

\* Of the nodes with one name the last one so far has the service, and what is
\* no node is there unless a node has taken its name.
LastOfName ==
  /\ DOMAIN services = Fixed \cup {ServiceName(i) : i \in 1 .. placed}
  /\ \A s \in DOMAIN services :
       \/ \E i \in 1 .. placed : OfNode(s, i)
       \/ /\ \A i \in 1 .. placed : ServiceName(i) # s
          /\ services[s] = Container(s, 0, {})

\* "One managed-node container per node in the manifest"
\* (compose-generator.ts:7), and the config server and the databases its nodes
\* wait for: this is so exactly if the service names of the nodes differ from
\* each other and from those.
NamesAreApart ==
  /\ \A i, j \in DOMAIN manifest : ServiceName(i) = ServiceName(j) => i = j
  /\ \A i \in DOMAIN manifest : ServiceName(i) \notin Fixed

AllAreThere ==
  /\ \A i \in DOMAIN manifest : \E s \in DOMAIN services : services[s].node = i
  /\ \A r \in Fixed : \E s \in DOMAIN services : services[s].runs = r

\* What a service waits for is always in the file, as what it is called or as a
\* node that took its name; also when what waited for a database is not.
WaitsAreMet ==
  \A s \in DOMAIN services : services[s].dependsOn \subseteq DOMAIN services

\* The invariant of the generator: what is in the file so far, and what the
\* complete file has.
CsInv ==
  /\ CsTypeOK
  /\ compose = "none" => placed = 0
  /\ compose # "none" => LastOfName /\ WaitsAreMet
  /\ compose = "complete" => placed = Len(manifest) /\ (AllAreThere <=> NamesAreApart)
=============================================================================
