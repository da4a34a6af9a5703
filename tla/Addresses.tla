------------------------------ MODULE Addresses ------------------------------
(***************************************************************************)
(* The address arithmetic of the network providers: which blocks of a VPC  *)
(* become subnets, and which block becomes a network of its own            *)
(* (pkg/providers/aws/cluster_vpc.go, pkg/providers/aws and gcp/           *)
(* cluster_network_provider.go).  A CIDR block is its first address and    *)
(* its mask; an address is a number of AddrBits bits.  In the code         *)
(* AddrBits is 32, the masks are 16, 26 and 27, GCPMask is 22, and Ranges  *)
(* is 10.0.0.0/8, 172.16.0.0/12.                                           *)
(***************************************************************************)
EXTENDS Integers, Sequences, FiniteSets, Functions

CONSTANTS
  AddrBits,
  MinMask,      \* the largest block for a VPC of its own, and the search's stride
  DefaultMask,  \* the smallest one, which is also the default
  SubnetMask,   \* a subnet in the cluster's VPC
  GCPMask,      \* the smallest IP range on GCP, which is also the default
  Ranges        \* the blocks searched for a default, in order

ASSUME MasksAssumption ==
  /\ AddrBits \in Nat /\ MinMask \in Nat \ {0} /\ DefaultMask \in Nat
  /\ SubnetMask \in Nat /\ GCPMask \in Nat
  /\ MinMask <= DefaultMask /\ DefaultMask < SubnetMask /\ SubnetMask <= AddrBits
  /\ GCPMask <= AddrBits

Addrs == 0 .. 2^AddrBits - 1
Size(mask) == 2^(AddrBits - mask)

\* What a power of two is; a proof knows nothing else of it.
ASSUME PowerAssumption == 2^0 = 1 /\ \A n \in 0 .. AddrBits - 1 : 2^(n + 1) = 2 * 2^n

\* net.IP.Mask, net.ParseCIDR and net.IPNet.Contains.
Masked(ip, mask) == (ip \div Size(mask)) * Size(mask)
ParseCIDR(ip, mask) == [ip |-> Masked(ip, mask), mask |-> mask]
Contains(b, ip) == Masked(ip, b.mask) = b.ip

CIDRs == [ip : Addrs, mask : 0 .. AddrBits]
Blocks == {b \in CIDRs : Contains(b, b.ip)}

\* The ranges lie in the address space.
ASSUME RangesAssumption == Ranges \in Seq(Blocks)

\* What neither an address nor a block is: no entry, and a returned error.
None == [ip |-> -1, mask |-> -1]
Error == [ip |-> -2, mask |-> -2]

\* The test for an intersection, used in all three validations.
Overlaps(a, b) == Contains(a, b.ip) \/ Contains(b, a.ip)
----------------------------------------------------------------------------
(* Subnets of a VPC.                                                       *)

\* The four bytes are put together, added to, and cut to 32 bits again.
incrementIP(ip, inc) == (ip + inc) % 2^AddrBits

\* The list p[1] with the network p[2], which is not added twice
\* (containsNetwork).
addNetwork ==
  [p \in Seq(CIDRs) \X CIDRs |-> IF p[2] \in Range(p[1]) THEN p[1] ELSE Append(p[1], p[2])]

\* The networks found after n rounds of the loop, each of which masks the next
\* address.
Networks(to, n) ==
  LET networks[i \in 0 .. 2^AddrBits] ==
        IF i = 0 THEN <<to>>
        ELSE addNetwork[<<networks[i - 1], ParseCIDR(incrementIP(to.ip, i - 1), to.mask)>>]
  IN  networks[n]

\* The loop ends at the first address that is not in `from'.  (It has no end if
\* all addresses are.)
Rounds(from, to) ==
  CHOOSE i \in 0 .. 2^AddrBits :
    /\ ~Contains(from, incrementIP(to.ip, i))
    /\ \A j \in 0 .. i - 1 : Contains(from, incrementIP(to.ip, j))

generateAvailableSubnets(from, to) == Networks(to, Rounds(from, to))

\* Seeded fault: the last network, of which the host part is all ones, is left
\* out.
buildSubnetAddress_DropsLast(vpc) ==
  IF vpc.mask >= SubnetMask THEN <<>>
  ELSE LET nets == generateAvailableSubnets(vpc, ParseCIDR(vpc.ip, SubnetMask))
       IN  SubSeq(nets, 1, Len(nets) - 1)

\* The candidates for a private subnet; none if the VPC is too small (an
\* error).  The code reverses the list to begin with the last network; here
\* the list is read from its end.
buildSubnetAddress(vpc) ==
  IF vpc.mask >= SubnetMask THEN <<>>
  ELSE generateAvailableSubnets(vpc, ParseCIDR(vpc.ip, SubnetMask))

\* The two halves of a standalone VPC, one for each zone; none if the VPC is
\* too small or does not fall in two (an error).
StandaloneSubnets(vpc) ==
  LET nets == generateAvailableSubnets(vpc, ParseCIDR(vpc.ip, vpc.mask + 1))
  IN  IF vpc.mask >= SubnetMask \/ Len(nets) # 2 THEN <<>> ELSE nets
----------------------------------------------------------------------------
(* The block of a network of its own.                                      *)

isValidCIDRRange(b) == MinMask <= b.mask /\ b.mask <= DefaultMask

\* Seeded fault: only the block's own range is searched for the cluster.
validateStandaloneCidrBlock_OneWay(b, cluster) ==
  isValidCIDRRange(b) /\ ~Contains(b, cluster.ip)

validateStandaloneCidrBlock(b, cluster) ==
  isValidCIDRRange(b) /\ ~Overlaps(b, cluster)

\* On GCP; a block without an address contains nothing and is contained in none.
validateCidrBlock(b, subnets) ==
  /\ b.mask <= GCPMask
  /\ b.ip = None.ip \/ \A s \in subnets : ~Overlaps(s, b)

\* Of several pod or service networks the last one is kept.
getPodCIDR(nets) == IF nets = <<>> THEN None ELSE nets[Len(nets)]

\* The networks that a default must keep clear of.
InUse(vpc, pods, services) == {vpc, getPodCIDR(pods), getPodCIDR(services)} \ {None}

\* The potential defaults in the order of the search: range by range, the
\* addresses of each one stride apart.
Searched ==
  {s \in (DOMAIN Ranges) \X Addrs :
     LET range == Ranges[s[1]]
     IN  Contains(range, s[2]) /\ (s[2] - range.ip) % Size(MinMask) = 0}
Before(s, t) == s[1] < t[1] \/ (s[1] = t[1] /\ s[2] <= t[2])

\* The first potential default that overlaps none of the used networks.
getNonOverlappingDefaultCIDR(vpc, pods, services) ==
  LET used  == InUse(vpc, pods, services)
      clear == {s \in Searched : \A u \in used : ~Overlaps(u, ParseCIDR(s[2], DefaultMask))}
      first == CHOOSE s \in clear : \A t \in clear : Before(s, t)
  IN  IF clear = {} THEN Error ELSE ParseCIDR(first[2], DefaultMask)
============================================================================
