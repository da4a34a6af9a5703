---------------------------- MODULE MCClusterVpc ----------------------------
(* ClusterVpc for TLC: addresses of 6 bits, so that a VPC holds a handful of
   subnets; all clusters with a VPC, a pod and a service network of any place
   and size for the planning, and three with subnets for the bundled mode. *)
EXTENDS ClusterVpc

CONSTANTS z1, z2

MCZones == {z1, z2}
MCRanges == <<[ip |-> 16, mask |-> 2], [ip |-> 48, mask |-> 3]>>

Sized(masks) == {b \in Blocks : b.mask \in masks}
Subnet(ip, mask, z, p) == [block |-> [ip |-> ip, mask |-> mask], zone |-> z, private |-> p]

Bundled(ip, mask, s) ==
  [mode |-> "bundled", vpc |-> [ip |-> ip, mask |-> mask], pods |-> <<>>, services |-> <<>>,
   config |-> None, subnets |-> s]

\* One zone, at the top of the address space; all zones; and a VPC that is
\* almost full.
MCBundled ==
  {Bundled(56, 3, {Subnet(62, 5, z1, TRUE)}),
   Bundled(16, 3, {Subnet(16, 5, z1, TRUE), Subnet(20, 4, z2, TRUE)}),
   Bundled(8, 3, {Subnet(8, 4, z1, FALSE), Subnet(12, 5, z1, TRUE)})}

Standalone(vpcs, pods, services, configs) ==
  [mode : {"standalone"}, vpc : vpcs, pods : pods, services : services,
   config : configs, subnets : {{}}]

Nets == {<<>>} \cup {<<b>> : b \in Sized(1 .. 3)}

MCStandalone ==
  Standalone(Sized(1 .. 5), Nets, Nets \cup {<<b, [ip |-> 0, mask |-> 3]>> : b \in Sized({2})}, {None})
    \cup Standalone(Sized(1 .. 5), {<<>>}, {<<>>}, Sized(1 .. 6))

MCGCP ==
  [mode : {"gcp"}, vpc : Sized({1}), pods : {<<>>}, services : {<<>>},
   config : {None} \cup Sized(1 .. 6),
   subnets : {{Subnet(a.ip, a.mask, z1, FALSE), Subnet(b.ip, b.mask, z2, FALSE)} :
                a \in Sized({2, 3}), b \in Sized({3, 4})}]

MCClusters == MCBundled \cup MCStandalone \cup MCGCP
============================================================================
