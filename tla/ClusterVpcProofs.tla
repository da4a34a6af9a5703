-------------------------- MODULE ClusterVpcProofs --------------------------
(***************************************************************************)
(* That a planned network keeps clear of the networks it is connected to,  *)
(* for addresses of any width, any masks, any ranges and any cluster; that *)
(* a subnet group spans all zones; that no subnet is made where there is   *)
(* one already, for any zones and any subnets of the cluster; and that the *)
(* blocks tried for subnets are all those of the VPC, each once.           *)
(***************************************************************************)
EXTENDS ClusterVpc, FiniteSetTheorems, TLAPS

\* Division with remainder, for a divisor that is not a literal.
LEMMA DivMod ==
  ASSUME NEW s \in Nat \ {0}, NEW x \in Nat
  PROVE  /\ x \div s \in Nat /\ x % s \in 0 .. s - 1
         /\ x = s * (x \div s) + (x % s)
  BY SMT

\* Multiples of s lie at least s apart.
LEMMA Apart ==
  ASSUME NEW s \in Nat \ {0}, NEW p \in Nat, NEW q \in Nat, p < q
  PROVE  s * p + s <= s * q
  BY SMT

\* Two numbers between neighbouring multiples of s have the same quotient.
LEMMA SameQuotient ==
  ASSUME NEW s \in Nat \ {0}, NEW p \in Nat, NEW q \in Nat, NEW r \in 0 .. s - 1,
         s * q <= s * p + r, s * p + r < s * q + s
  PROVE  p = q
<1>1. CASE p < q
  <2>1. s * p + s <= s * q BY <1>1, Apart
  <2>2. s * p \in Int /\ s * q \in Int OBVIOUS
  <2> QED BY <2>1, <2>2
<1>2. CASE q < p
  <2>1. s * q + s <= s * p BY <1>2, Apart
  <2>2. s * p \in Int /\ s * q \in Int OBVIOUS
  <2> QED BY <2>1, <2>2
<1> QED BY <1>1, <1>2

\* A nonempty set of natural numbers has a least element.
LEMMA LeastNat ==
  ASSUME NEW T, T \subseteq Nat, T # {}
  PROVE  \E x \in T : \A y \in T : x <= y
<1> DEFINE F == {0 .. x : x \in T}
<1>1. \A x \in T : IsFiniteSet(0 .. x)
  BY FS_Interval
<1>2. F \subseteq FiniteSubsetsOf(Nat) /\ F # {}
  <2>1. \A x \in T : 0 .. x \in FiniteSubsetsOf(Nat)
    BY <1>1, \A x \in T : 0 .. x \subseteq Nat, Zenon DEF FiniteSubsetsOf
  <2>2. F \subseteq FiniteSubsetsOf(Nat)
    BY <2>1, Zenon
  <2>3. F # {}
    BY T # {}, Zenon
  <2> QED BY <2>2, <2>3
<1>3. IsWellFoundedOn(StrictSubsetOrdering(Nat), FiniteSubsetsOf(Nat))
  BY FS_StrictSubsetOrderingWellFounded
<1> DEFINE R == StrictSubsetOrdering(Nat)
<1>4. PICK m \in F : \A n \in F : ~(<<n, m>> \in R)
  <2> HIDE DEF F, R
  <2> QED BY <1>2, <1>3, WFMin DEF R
<1>5. PICK x \in T : m = 0 .. x
  OBVIOUS
<1>6. ASSUME NEW y \in T, y < x PROVE FALSE
  <2>1. 0 .. y \subseteq 0 .. x /\ 0 .. y # 0 .. x
    BY <1>6, x \in Nat, y \in Nat, x \in 0 .. x, ~(x \in 0 .. y)
  <2>2. 0 .. y \in F /\ 0 .. y \in SUBSET Nat /\ 0 .. x \in SUBSET Nat
    OBVIOUS
  <2> QED BY <1>4, <1>5, <2>1, <2>2, Zenon DEF StrictSubsetOrdering
<1> QED BY <1>6
----------------------------------------------------------------------------

\* Induction, over a set.
LEMMA NatInduct ==
  ASSUME NEW S, 0 \in S, \A n \in Nat : n \in S => n + 1 \in S
  PROVE  Nat \subseteq S
<1> SUFFICES ASSUME Nat \ S # {} PROVE FALSE
  OBVIOUS
<1>1. PICK x \in Nat \ S : \A y \in Nat \ S : x <= y
  BY LeastNat, Zenon
<1>2. x # 0 /\ x - 1 \in Nat /\ x - 1 \in S
  BY <1>1
<1> QED BY <1>1, <1>2

\* The quotient and the remainder of a number that is written so.
LEMMA Divided ==
  ASSUME NEW s \in Nat \ {0}, NEW q \in Nat, NEW r \in 0 .. s - 1, NEW x, x = s * q + r
  PROVE  x \in Nat /\ x \div s = q /\ x % s = r
<1>1. s * q \in Nat OBVIOUS
<1>2. x \in Nat BY <1>1
<1>3. PICK p, t : p = x \div s /\ t = x % s OBVIOUS
<1>4. p \in Nat /\ t \in 0 .. s - 1 /\ x = s * p + t
  BY <1>2, <1>3, DivMod, Zenon
<1>5. s * p \in Nat BY <1>4
<1>6. s * q <= s * p + t /\ s * p + t < s * q + s
  BY <1>1, <1>4, <1>5
<1>7. p = q BY <1>4, <1>6, SameQuotient, Zenon
<1>8. t = r BY <1>1, <1>4, <1>7
<1> QED BY <1>2, <1>3, <1>7, <1>8

LEMMA Small ==
  ASSUME NEW s \in Nat \ {0}, NEW x \in Nat, x < s
  PROVE  x \div s = 0 /\ x % s = x
<1>1. PICK q \in Nat, r \in 0 .. s - 1 : q = 0 /\ r = x OBVIOUS
<1>2. x = s * q + r BY <1>1
<1>3. x \div s = q /\ x % s = r BY <1>2, Divided, Zenon
<1> QED BY <1>1, <1>3

\* Counted modulo s * k, the quotient is counted modulo k.
WrapsAt(s, k, q, r) == (s * q + r) % (s * k) = s * (q % k) + r

LEMMA Wrapped ==
  ASSUME NEW s \in Nat \ {0}, NEW k \in Nat \ {0}, NEW q \in Nat, NEW r \in 0 .. s - 1
  PROVE  WrapsAt(s, k, q, r)
<1>1. PICK u, v : u = q \div k /\ v = q % k OBVIOUS
<1>2. u \in Nat /\ v \in 0 .. k - 1 /\ q = k * u + v
  BY <1>1, DivMod, Zenon
<1>3. s * v + s <= s * k /\ s * v \in Nat /\ s * k \in Nat \ {0}
  BY <1>2, Apart
<1>4. s * v + r \in 0 .. s * k - 1
  BY <1>3
<1>5. s * q = (s * k) * u + s * v
  BY <1>2
<1>6. s * q \in Nat /\ (s * k) * u \in Nat
  BY <1>2
<1>7. s * q + r = (s * k) * u + (s * v + r)
  BY <1>3, <1>5, <1>6
<1>8. (s * q + r) % (s * k) = s * v + r
  <2>1. PICK m, x, y : m = s * k /\ x = s * q + r /\ y = s * v + r
    OBVIOUS
  <2>2. m \in Nat \ {0} /\ y \in 0 .. m - 1 /\ x = m * u + y
    BY <2>1, <1>3, <1>4, <1>7
  <2>3. x % m = y
    BY <2>2, <1>2, Divided, Zenon
  <2> QED BY <2>1, <2>3
<1> QED BY <1>1, <1>8 DEF WrapsAt

\* Fewer than k steps on, modulo k, is another place.
LEMMA Elsewhere ==
  ASSUME NEW k \in Nat \ {0}, NEW a \in Nat, NEW i \in Nat, NEW j \in Nat, i < j, j < k
  PROVE  (a + i) % k # (a + j) % k
<1> SUFFICES ASSUME (a + i) % k = (a + j) % k PROVE FALSE OBVIOUS
<1>1. PICK p, q, r, t : /\ p = (a + i) \div k /\ r = (a + i) % k
                        /\ q = (a + j) \div k /\ t = (a + j) % k
  BY Zenon
<1>0. a + i \in Nat /\ a + j \in Nat OBVIOUS
<1>2. /\ p \in Nat /\ r \in 0 .. k - 1 /\ a + i = k * p + r
      /\ q \in Nat /\ t \in 0 .. k - 1 /\ a + j = k * q + t /\ t = r
  BY <1>0, <1>1, DivMod, Zenon
<1>3. k * p \in Nat /\ k * q \in Nat BY <1>2
<1>4. k * p <= k * q + 0 /\ k * q + 0 < k * p + k
  BY <1>2, <1>3
<1>5. q = p BY <1>2, <1>4, SameQuotient
<1> QED BY <1>2, <1>3, <1>5
----------------------------------------------------------------------------
(* Powers of two.                                                          *)

LEMMA PowerPositive == \A n \in 0 .. AddrBits : 2^n \in Nat \ {0}
<1> DEFINE S == {n \in Nat : n <= AddrBits => 2^n \in Nat \ {0}}
<1>1. 0 \in S BY PowerAssumption
<1>2. ASSUME NEW n \in Nat, n \in S PROVE n + 1 \in S
  <2> SUFFICES ASSUME n + 1 <= AddrBits PROVE 2^(n + 1) \in Nat \ {0}
    OBVIOUS
  <2>1. n \in 0 .. AddrBits - 1 BY MasksAssumption
  <2>2. 2^n \in Nat \ {0} BY <1>2, <2>1, MasksAssumption
  <2>3. 2^(n + 1) = 2 * 2^n BY <2>1, PowerAssumption
  <2> QED BY <2>2, <2>3
<1> HIDE DEF S
<1>3. Nat \subseteq S BY <1>1, <1>2, NatInduct, Zenon
<1> QED BY <1>3, MasksAssumption DEF S

LEMMA SizeFacts ==
  /\ 2^AddrBits \in Nat
  /\ \A m \in 0 .. AddrBits : Size(m) \in Nat \ {0}
<1>1. AddrBits \in 0 .. AddrBits /\ \A m \in 0 .. AddrBits : AddrBits - m \in 0 .. AddrBits
  BY MasksAssumption
<1> QED BY <1>1, PowerPositive DEF Size

\* A block is twice as large as one with a mask that is longer by one bit.
LEMMA SizeHalves ==
  ASSUME NEW m \in 0 .. AddrBits - 1
  PROVE  Size(m) = 2 * Size(m + 1)
<1>1. PICK n : n = AddrBits - (m + 1) OBVIOUS
<1>2. n \in 0 .. AddrBits - 1 /\ n + 1 = AddrBits - m
  BY <1>1, MasksAssumption
<1>3. 2^(n + 1) = 2 * 2^n BY <1>2, PowerAssumption
<1> QED BY <1>1, <1>2, <1>3 DEF Size

\* So a block consists of blocks of a longer mask.
LEMMA SizeMultiple ==
  ASSUME NEW m \in 0 .. AddrBits, NEW n \in m .. AddrBits
  PROVE  \E k \in Nat \ {0} : Size(m) = Size(n) * k
<1> DEFINE S == {d \in Nat : m + d <= AddrBits => \E k \in Nat \ {0} : Size(m) = Size(m + d) * k}
<1>1. 0 \in S
  <2>1. Size(m) \in Nat /\ m + 0 = m BY SizeFacts
  <2>2. Size(m) = Size(m + 0) * 1 BY <2>1
  <2> QED BY <2>2
<1>2. ASSUME NEW d \in Nat, d \in S PROVE d + 1 \in S
  <2> SUFFICES ASSUME m + (d + 1) <= AddrBits
               PROVE  \E k \in Nat \ {0} : Size(m) = Size(m + (d + 1)) * k
    OBVIOUS
  <2>1. PICK k \in Nat \ {0} : Size(m) = Size(m + d) * k
    BY <1>2, MasksAssumption
  <2>2. PICK e : e = m + d OBVIOUS
  <2>3. e \in 0 .. AddrBits - 1 /\ e + 1 = m + (d + 1) /\ e + 1 \in 0 .. AddrBits
    BY <2>2, MasksAssumption
  <2>4. Size(e) = 2 * Size(e + 1) /\ Size(e + 1) \in Nat
    BY <2>3, SizeHalves, SizeFacts
  <2>5. PICK s \in Nat : s = Size(e + 1) BY <2>4
  <2>6. Size(m) = (2 * s) * k BY <2>1, <2>2, <2>4, <2>5
  <2>7. (2 * s) * k = s * (2 * k) /\ 2 * k \in Nat \ {0} OBVIOUS
  <2>8. Size(m) = Size(m + (d + 1)) * (2 * k) BY <2>3, <2>5, <2>6, <2>7
  <2> QED BY <2>7, <2>8
<1> HIDE DEF S
<1>3. Nat \subseteq S BY <1>1, <1>2, NatInduct, Zenon
<1>4. n - m \in Nat /\ m + (n - m) = n /\ n <= AddrBits BY MasksAssumption
<1>5. m + (n - m) <= AddrBits => \E k \in Nat \ {0} : Size(m) = Size(m + (n - m)) * k
  BY <1>3, <1>4 DEF S
<1> QED BY <1>4, <1>5
----------------------------------------------------------------------------
\* A block has at least one address.
LEMMA SizePositive ==
  ASSUME NEW m \in 0 .. AddrBits
  PROVE  Size(m) \in Nat \ {0}
  BY SizeFacts

\* A block contains the addresses from its first one on, as many as its size.
LEMMA ContainsSpan ==
  ASSUME NEW b \in Blocks, NEW x \in Nat
  PROVE  Contains(b, x) <=> x \in Span(b)
<1> DEFINE s == Size(b.mask)
<1>1. /\ b.ip \in Nat /\ b.mask \in 0 .. AddrBits
      /\ Masked(b.ip, b.mask) = b.ip
  BY MasksAssumption, SizeFacts DEF Blocks, CIDRs, Addrs, Contains
<1>2. s \in Nat \ {0}
  BY <1>1, SizePositive
<1> HIDE DEF s
<1>3. Masked(x, b.mask) = (x \div s) * s /\ b.ip = (b.ip \div s) * s
  BY <1>1 DEF Masked, s
<1> DEFINE p == x \div s
           q == b.ip \div s
           r == x % s
<1>4. p \in Nat /\ r \in 0 .. s - 1 /\ x = s * p + r /\ q \in Nat
  BY <1>1, <1>2, DivMod, Zenon
<1>5. Masked(x, b.mask) = p * s /\ b.ip = q * s
  BY <1>3
<1> HIDE DEF p, q, r
<1>6. p * s = s * p /\ q * s = s * q /\ s * p \in Int /\ s * q \in Int
  BY <1>2, <1>4
<1>7. ASSUME Contains(b, x) PROVE x \in b.ip .. b.ip + s - 1
  BY <1>1, <1>2, <1>4, <1>5, <1>6, <1>7 DEF Contains
<1>8. ASSUME x \in b.ip .. b.ip + s - 1 PROVE Contains(b, x)
  <2>1. s * q <= s * p + r /\ s * p + r < s * q + s
    BY <1>1, <1>2, <1>4, <1>5, <1>6, <1>8
  <2>2. p = q BY <2>1, <1>2, <1>4, SameQuotient
  <2> QED BY <2>2, <1>5 DEF Contains
<1> QED BY <1>7, <1>8 DEF Span, s

\* What is known of every block.
LEMMA BlockType ==
  ASSUME NEW b \in Blocks
  PROVE  b.ip \in Nat /\ b.mask \in 0 .. AddrBits /\ Size(b.mask) \in Nat \ {0}
  BY SizePositive, SizeFacts DEF Blocks, CIDRs, Addrs

\* The test that the validations use is exact: two blocks pass it as disjoint
\* if and only if they share no address
\* (aws/cluster_network_provider.go:1676-1690, 1787, gcp/cluster_network_provider.go:448).
THEOREM OverlapsExact ==
  ASSUME NEW a \in Blocks, NEW b \in Blocks
  PROVE  Overlaps(a, b) <=> ~Disjoint(a, b)
<1>1. /\ Contains(a, b.ip) <=> b.ip \in Span(a)
      /\ Contains(b, a.ip) <=> a.ip \in Span(b)
  BY BlockType, ContainsSpan
<1>2. /\ a.ip \in Nat /\ b.ip \in Nat
      /\ Size(a.mask) \in Nat \ {0} /\ Size(b.mask) \in Nat \ {0}
  BY BlockType
<1>3. a.ip \in Span(a) /\ b.ip \in Span(b)
  BY <1>2 DEF Span
<1>4. ASSUME NEW x \in Span(a), x \in Span(b)
      PROVE  b.ip \in Span(a) \/ a.ip \in Span(b)
  BY <1>2, <1>4 DEF Span
<1> QED BY <1>1, <1>3, <1>4 DEF Overlaps, Disjoint
----------------------------------------------------------------------------
\* What net.ParseCIDR returns is a block.
LEMMA ParsedIsBlock ==
  ASSUME NEW x \in Addrs, NEW m \in 0 .. AddrBits
  PROVE  ParseCIDR(x, m) \in Blocks
<1> DEFINE s == Size(m)
           p == x \div s
<1>1. s \in Nat \ {0} /\ x \in Nat /\ x <= 2^AddrBits - 1 /\ 2^AddrBits \in Nat
  BY SizePositive, SizeFacts DEF Addrs
<1> HIDE DEF s
<1>2. p \in Nat /\ x % s \in 0 .. s - 1 /\ x = s * p + (x % s)
  BY <1>1, DivMod, Zenon
<1>3. Masked(x, m) = p * s
  BY DEF Masked, s
<1> HIDE DEF p
<1>4. p * s = s * p /\ s * p \in Nat
  BY <1>1, <1>2
<1>5. p * s \in Addrs
  BY <1>1, <1>2, <1>4 DEF Addrs
<1>6. (p * s) \div s = p
  <2> DEFINE y == p * s
             q == y \div s
  <2>1. y \in Nat /\ y = s * p
    BY <1>4
  <2>2. q \in Nat /\ y % s \in 0 .. s - 1 /\ y = s * q + (y % s)
    BY <2>1, <1>1, DivMod, Zenon
  <2> HIDE DEF y, q
  <2>3. s * p \in Int /\ s * q \in Int
    BY <1>1, <1>2, <2>2
  <2>4. s * p <= s * q + (y % s) /\ s * q + (y % s) < s * p + s
    BY <1>1, <2>1, <2>2, <2>3
  <2>5. q = p
    BY <1>1, <1>2, <2>2, <2>4, SameQuotient, Zenon
  <2> QED BY <2>5 DEF q, y
<1>7. Masked(p * s, m) = p * s
  BY <1>6 DEF Masked, s
<1> QED BY <1>3, <1>5, <1>7 DEF ParseCIDR, Blocks, CIDRs, Contains

\* Of potential defaults, the search finds a first one.
LEMMA FirstSearched ==
  ASSUME NEW C, C \subseteq Searched, C # {}
  PROVE  \E s \in C : \A t \in C : Before(s, t)
<1>0. /\ \A s \in C : s[1] \in Nat /\ s[2] \in Nat
  <2>1. DOMAIN Ranges \subseteq Nat
    BY RangesAssumption
  <2>2. Addrs \subseteq Nat
    BY SizeFacts DEF Addrs
  <2> QED BY <2>1, <2>2 DEF Searched
<1> DEFINE I == {s[1] : s \in C}
<1>1. PICK i \in I : \A j \in I : i <= j
  <2>1. I \subseteq Nat BY <1>0
  <2>2. I # {} BY C # {}, Zenon
  <2> HIDE DEF I
  <2> QED BY <2>1, <2>2, LeastNat, Zenon
<1> DEFINE D == {s \in C : s[1] = i}
           A == {s[2] : s \in D}
<1>2. PICK a \in A : \A b \in A : a <= b
  <2>1. A \subseteq Nat BY <1>0
  <2>2. A # {} BY <1>1, Zenon
  <2> HIDE DEF A
  <2> QED BY <2>1, <2>2, LeastNat, Zenon
<1>3. PICK s \in C : s[1] = i /\ s[2] = a
  BY <1>2
<1>4. ASSUME NEW t \in C PROVE Before(s, t)
  <2>1. i <= t[1] BY <1>1
  <2>2. t[1] = i => a <= t[2] BY <1>2
  <2>3. t[1] \in Nat /\ i \in Nat BY <1>0, <1>3
  <2> QED BY <2>1, <2>2, <2>3, <1>3 DEF Before
<1> QED BY <1>4

\* The block that the search returns overlaps none of the networks in use.
THEOREM DefaultClear ==
  ASSUME NEW vpc, NEW pods, NEW services,
         getNonOverlappingDefaultCIDR(vpc, pods, services) # Error
  PROVE  /\ getNonOverlappingDefaultCIDR(vpc, pods, services) \in Blocks
         /\ \A u \in InUse(vpc, pods, services) :
              ~Overlaps(u, getNonOverlappingDefaultCIDR(vpc, pods, services))
<1> DEFINE used  == InUse(vpc, pods, services)
           clear == {s \in Searched : \A u \in used : ~Overlaps(u, ParseCIDR(s[2], DefaultMask))}
           first == CHOOSE s \in clear : \A t \in clear : Before(s, t)
<1>1. clear # {}
  BY DEF getNonOverlappingDefaultCIDR
<1>2. getNonOverlappingDefaultCIDR(vpc, pods, services) = ParseCIDR(first[2], DefaultMask)
  BY <1>1 DEF getNonOverlappingDefaultCIDR
<1>3. first \in clear
  <2>1. clear \subseteq Searched OBVIOUS
  <2> HIDE DEF clear
  <2>2. \E s \in clear : \A t \in clear : Before(s, t)
    BY <1>1, <2>1, FirstSearched
  <2> QED BY <2>2, Zenon
<1> HIDE DEF first
<1>4. first \in Searched /\ \A u \in used : ~Overlaps(u, ParseCIDR(first[2], DefaultMask))
  BY <1>3
<1>5. first[2] \in Addrs
  BY <1>4 DEF Searched
<1>6. DefaultMask \in 0 .. AddrBits
  BY MasksAssumption
<1> QED BY <1>2, <1>4, <1>5, <1>6, ParsedIsBlock, Zenon
----------------------------------------------------------------------------
\* The invariant: the cluster stays what it was, and only a network of its own
\* is ever planned.
IInv ==
  /\ cluster \in Clusters
  /\ cluster.mode = "bundled" => plan = None
  /\ PlanClear

\* The marks for no block and for an error are not blocks.
LEMMA NoBlock == None \notin CIDRs /\ Error \notin CIDRs
  BY SizeFacts DEF None, Error, CIDRs, Addrs

\* There is no plan at first.
LEMMA InitInv == Init => IInv
<1> SUFFICES ASSUME Init PROVE IInv OBVIOUS
<1>1. cluster \in Clusters /\ plan = None BY DEF Init
<1>2. PlanClear BY <1>1, NoBlock DEF PlanClear
<1> QED BY <1>1, <1>2 DEF IInv

\* Only PlanNetwork plans.
LEMMA OthersKeepPlan ==
  ASSUME [Next]_vars, ~PlanNetwork
  PROVE  UNCHANGED <<cluster, plan>>
<1>1. ASSUME NEW k \in Kinds, Worker(k) PROVE UNCHANGED <<cluster, plan>>
  BY <1>1, Zenon DEF Worker, DescribeSubnetGroups, GetVPCSubnets, getAZs, createPrivateSubnet,
       tagPrivateSubnet, CreateSubnetGroup, DescribeSecurityGroups, CreateSecurityGroup,
       AuthorizeIngress
<1>2. ASSUME NEW k \in Kinds, CallFails(k) PROVE UNCHANGED <<cluster, plan>>
  BY <1>2 DEF CallFails
<1>3. ZoneChanges => UNCHANGED <<cluster, plan>>
  BY DEF ZoneChanges
<1>4. UNCHANGED vars => UNCHANGED <<cluster, plan>>
  BY DEF vars
<1> QED BY <1>1, <1>2, <1>3, <1>4, SMTT(60) DEF Next

\* Neither the wanted block nor the default on AWS is accepted where the
\* cluster is; a default is clear of the pods and of the services too.
LEMMA StandalonePlan ==
  ASSUME cluster \in Clusters, cluster.mode = "standalone", PlanNetwork, plan' \in CIDRs
  PROVE  /\ Disjoint(cluster.vpc, plan')
         /\ cluster.config = None =>
              \A nets \in {cluster.pods, cluster.services} :
                Len(nets) = 1 => Disjoint(nets[1], plan')
<1> DEFINE b == ReconcileNetworkProviderConfig
           d == getNonOverlappingDefaultCIDR(cluster.vpc, cluster.pods, cluster.services)
<1>1. plan' = b /\ b # Error /\ validateStandaloneCidrBlock(b, cluster.vpc)
  BY NoBlock DEF PlanNetwork
<1>2. b = IF cluster.config # None THEN cluster.config ELSE d
  BY DEF ReconcileNetworkProviderConfig
<1>3. /\ cluster.vpc \in Blocks /\ cluster.config \in Blocks \cup {None}
      /\ cluster.pods \in Seq(Blocks) /\ cluster.services \in Seq(Blocks)
  BY ClustersAssumption
<1>4. d # Error => /\ d \in Blocks
                   /\ \A u \in InUse(cluster.vpc, cluster.pods, cluster.services) : ~Overlaps(u, d)
  BY DefaultClear
<1> HIDE DEF b, d
<1>5. b \in Blocks
  BY <1>1, <1>2, <1>3, <1>4
<1>6. ~Overlaps(b, cluster.vpc)
  BY <1>1 DEF validateStandaloneCidrBlock
<1>7. Disjoint(b, cluster.vpc)
  BY <1>3, <1>5, <1>6, OverlapsExact
<1>8. Disjoint(cluster.vpc, plan')
  BY <1>1, <1>7 DEF Disjoint
<1>9. ASSUME cluster.config = None, NEW nets \in {cluster.pods, cluster.services}, Len(nets) = 1
      PROVE  Disjoint(nets[1], plan')
  <2>0. nets \in Seq(Blocks)
    BY <1>3
  <2>1. nets \in Seq(Blocks) /\ nets # <<>>
    BY <2>0, <1>9, Len(<<>>) = 0
  <2>2. nets[1] \in Blocks
    BY <1>9, <2>1
  <2>3. getPodCIDR(nets) = nets[1]
    BY <2>1, <1>9 DEF getPodCIDR
  <2>4. nets[1] # None
    BY <2>2, NoBlock DEF Blocks
  <2>5. nets[1] \in InUse(cluster.vpc, cluster.pods, cluster.services)
    BY <2>3, <2>4, <1>9 DEF InUse
  <2>6. ~Overlaps(nets[1], b)
    BY <2>5, <1>1, <1>2, <1>4, <1>9
  <2> QED BY <1>1, <1>5, <2>2, <2>6, OverlapsExact
<1> QED BY <1>8, <1>9

\* A block that is accepted on GCP meets none of the cluster's subnets.
LEMMA GCPPlan ==
  ASSUME cluster \in Clusters, cluster.mode = "gcp", PlanNetwork, plan' \in CIDRs
  PROVE  \A s \in cluster.subnets : Disjoint(s.block, plan')
<1> DEFINE b == ReconcileNetworkProviderConfig
<1>1. plan' = b /\ validateCidrBlock(b, {s.block : s \in cluster.subnets})
  BY NoBlock DEF PlanNetwork
<1>2. b.ip # None.ip
  BY <1>1, SizeFacts DEF CIDRs, Addrs, None
<1>3. b = IF cluster.config # None THEN cluster.config ELSE [ip |-> None.ip, mask |-> GCPMask]
  BY DEF ReconcileNetworkProviderConfig
<1>4. cluster.config \in Blocks \cup {None} /\ \A s \in cluster.subnets : s.block \in Blocks
  BY ClustersAssumption
<1> HIDE DEF b
<1>5. b \in Blocks
  BY <1>2, <1>3, <1>4
<1>6. \A s \in cluster.subnets : ~Overlaps(s.block, b)
  BY <1>1, <1>2 DEF validateCidrBlock
<1> QED BY <1>1, <1>4, <1>5, <1>6, OverlapsExact

\* PlanNetwork is the only step that changes the plan.
LEMMA StepInv == IInv /\ [Next]_vars => IInv'
<1> SUFFICES ASSUME IInv, [Next]_vars PROVE IInv' OBVIOUS
<1>1. CASE ~PlanNetwork
  <2>1. UNCHANGED <<cluster, plan>> BY <1>1, OthersKeepPlan
  <2> QED BY <2>1, Zenon DEF IInv, PlanClear
<1>2. CASE PlanNetwork
  <2>1. cluster' = cluster /\ cluster \in Clusters /\ cluster.mode # "bundled"
    BY <1>2 DEF PlanNetwork, IInv
  <2>2. cluster.mode = "gcp" \/ cluster.mode = "standalone"
    BY <2>1, ClustersAssumption
  <2>3. CASE cluster.mode = "gcp"
    <3>1. plan' \in CIDRs => \A s \in cluster.subnets : Disjoint(s.block, plan')
      BY <1>2, <2>1, <2>3, GCPPlan
    <3>2. PlanClear' BY <3>1, <2>1, <2>3, Zenon DEF PlanClear
    <3> QED BY <2>1, <3>2 DEF IInv
  <2>4. CASE cluster.mode = "standalone"
    <3>1. plan' \in CIDRs =>
            /\ Disjoint(cluster.vpc, plan')
            /\ cluster.config = None =>
                 \A nets \in {cluster.pods, cluster.services} :
                   Len(nets) = 1 => Disjoint(nets[1], plan')
      BY <1>2, <2>1, <2>4, StandalonePlan
    <3>2. PlanClear' BY <3>1, <2>1, <2>4 DEF PlanClear
    <3> QED BY <2>1, <3>2 DEF IInv
  <2> QED BY <2>2, <2>3, <2>4
<1> QED BY <1>1, <1>2

\* A planned network shares no address with what it will be connected to, for
\* every cluster, every wanted block and every address width
\* (aws/cluster_network_provider.go:1569-1791, gcp/cluster_network_provider.go:405-452).
THEOREM PlanClearHolds == Spec => []PlanClear
<1>1. IInv => PlanClear BY DEF IInv
<1> QED BY InitInv, StepInv, <1>1, PTL DEF Spec
----------------------------------------------------------------------------
(* The subnet groups, and the subnets that the two controllers make.  Which *)
(* blocks they try does not matter here, only who makes a subnet where.    *)

Covers(privs, z) == \E s \in privs : s.zone = z

\* What a worker r knows, for the subnets of the VPC and its own group: it has
\* heard of private subnets only, and those stay; it has one in every zone
\* that it does not want one for; what it has just created is not private yet.
Knows(r, have, own) ==
  /\ r = [pc |-> r.pc, privs |-> r.privs, todo |-> r.todo, cands |-> r.cands, new |-> r.new]
  /\ r.todo \subseteq Zones
  /\ \A s \in r.privs : s \in have /\ s.private
  /\ r.pc \in {"create", "tag"} => \A z \in Zones \ r.todo : Covers(r.privs, z)
  /\ r.pc = "group" => \A z \in Zones : Covers(r.privs, z)
  /\ r.pc = "tag" =>
       \E s \in r.new :
         /\ r.new = {s} /\ s.zone \in r.todo
         /\ s = [block |-> s.block, zone |-> s.zone, private |-> FALSE]
  /\ r.pc # "tag" => r.new = {}
  /\ r.pc \in {"sg", "sg_create", "sg_open"} => own # {} \/ Zones = {}

SubnetsInv ==
  /\ w = [k \in Kinds |-> w[k]] /\ group = [k \in Kinds |-> group[k]] /\ trouble \in Nat
  /\ \A s \in cluster.subnets : s.private => s \in subnets
  /\ \A k \in Kinds : Knows(w[k], subnets, group[k])
  /\ GroupSpansZones

\* The worker may yet create a subnet in zone z.
Wants(r, have, own, z) ==
  \/ r.pc = "groups" /\ own = {} /\ ~\E s \in have : s.private /\ s.zone = z
  \/ r.pc = "subnets" /\ ~\E s \in have : s.private /\ s.zone = z
  \/ r.pc = "zones" /\ ~Covers(r.privs, z)
  \/ r.pc = "create" /\ z \in r.todo
  \/ r.pc = "tag" /\ z \in r.todo /\ ~Covers(r.new, z)

Needs(k, z) == Wants(w[k], subnets, group[k], z)

Had(z) == \E s \in cluster.subnets : s.private /\ s.zone = z
Added(z) == {s \in subnets \ cluster.subnets : s.zone = z}

\* Each of the subnets that were added in z was made by a worker that will make
\* no other one there; g says which is whose.
Shared(g, z) ==
  /\ \A s \in Added(z) : \E k \in Kinds : ~Needs(k, z) /\ s = g[k]
  /\ \A k \in Kinds : \A s \in w[k].new : s.zone = z => g[k] = s

\* While nothing fails, a zone that had a private subnet gets none, and in
\* another zone each worker makes one at most.
SpareInv ==
  trouble = 0 =>
    /\ down = {}
    /\ \A z \in Zones : Had(z) =>
         Added(z) = {} /\ \A k \in Kinds : ~Needs(k, z) /\ ~Covers(w[k].new, z)
    /\ \A z \in Zones : \E g : Shared(g, z)

\* What a worker's step may do to the subnets while nothing fails: leave them,
\* add one in a zone that it wanted one for, or tag the one it made.
SubnetStep(k, r) ==
  \/ subnets' = subnets /\ r.new = {} /\ w[k].new = {}
  \/ \E s : /\ subnets' = subnets \cup {s} /\ r.new = {s} /\ w[k].new = {}
            /\ Wants(w[k], subnets, group[k], s.zone)
            /\ ~Wants(r, subnets', group'[k], s.zone)
  \/ \E s, t : /\ subnets' = (subnets \ {s}) \cup {t} /\ t.zone = s.zone
               /\ w[k].new = {s} /\ r.new = {}
               /\ ~Wants(w[k], subnets, group[k], s.zone)

\* What every step of worker k that leads to r does.
Move(k, r) ==
  /\ w' = [w EXCEPT ![k] = r] /\ UNCHANGED <<cluster, down>>
  /\ trouble' = trouble \/ trouble' = trouble + 1
  /\ \A s \in subnets : s.private => s \in subnets'
  /\ \/ group' = group
     \/ group' = [group EXCEPT ![k] = w[k].privs] /\ w[k].pc = "group"
  /\ Knows(r, subnets', group'[k])
  /\ trouble' = 0 /\ down = {} =>
       /\ \A z \in Zones : Wants(r, subnets', group'[k], z) => Wants(w[k], subnets, group[k], z)
       /\ SubnetStep(k, r)

\* A worker that has listed the subnets, field by field.
LEMMA ListedFacts ==
  ASSUME NEW v, NEW p, NEW r, r = [v EXCEPT !.pc = "zones", !.privs = p],
         v = [pc |-> v.pc, privs |-> v.privs, todo |-> v.todo, cands |-> v.cands, new |-> v.new]
  PROVE  /\ r.pc = "zones" /\ r.privs = p /\ r.todo = v.todo /\ r.new = v.new /\ r.cands = v.cands
         /\ r = [pc |-> r.pc, privs |-> r.privs, todo |-> r.todo, cands |-> r.cands, new |-> r.new]
  <1>1. PICK a, b, c, d, e : v = [pc |-> a, privs |-> b, todo |-> c, cands |-> d, new |-> e]
    OBVIOUS
  <1>2. v.todo = c /\ v.new = e /\ v.cands = d
    BY <1>1
  <1>3. r = [pc |-> "zones", privs |-> p, todo |-> c, cands |-> d, new |-> e]
    BY <1>1, Zenon
  <1> QED
    BY <1>2, <1>3, Zenon

\* A function over the two kinds after a change at one of them.
LEMMA ExceptFacts ==
  ASSUME NEW f, f = [j \in Kinds |-> f[j]], NEW k \in Kinds, NEW r, NEW h, h = [f EXCEPT ![k] = r]
  PROVE  h = [j \in Kinds |-> h[j]] /\ h[k] = r /\ \A j \in Kinds : j # k => h[j] = f[j]
  OBVIOUS

\* More subnets change nothing as long as the private ones stay.
LEMMA KnowsMore ==
  ASSUME NEW r, NEW have, NEW more, NEW own, Knows(r, have, own),
         \A s \in have : s.private => s \in more
  PROVE  Knows(r, more, own)
  BY DEF Knows

\* A worker between two reconciles, field by field.
LEMMA StartFacts ==
  /\ Start.pc = "groups" /\ Start.privs = {} /\ Start.todo = {} /\ Start.new = {} /\ Start.cands = <<>>
  /\ Start = [pc |-> Start.pc, privs |-> Start.privs, todo |-> Start.todo, cands |-> Start.cands,
              new |-> Start.new]
  BY DEF Start

\* It has heard of nothing yet.
LEMMA StartKnows ==
  ASSUME NEW have, NEW own
  PROVE  Knows(Start, have, own)
  BY StartFacts DEF Knows

\* The worker goes on to the next zone.
LEMMA NextZoneFacts ==
  ASSUME NEW todo, NEW privs, NEW r, r = NextZone(todo, privs)
  PROVE  /\ r.pc = (IF todo = {} THEN "group" ELSE "create") /\ r.privs = privs /\ r.todo = todo /\ r.new = {}
         /\ r.cands = IF todo = {} THEN <<>> ELSE buildSubnetAddress(cluster.vpc)
         /\ r = [pc |-> r.pc, privs |-> r.privs, todo |-> r.todo, cands |-> r.cands, new |-> r.new]
  BY Zenon DEF NextZone, Start

\* It then knows of a private subnet in every zone that is not left to do.
LEMMA NextZoneKnows ==
  ASSUME NEW todo, NEW privs, NEW r, r = NextZone(todo, privs), NEW have, NEW own, todo \subseteq Zones,
         \A s \in privs : s \in have /\ s.private, \A z \in Zones \ todo : Covers(privs, z)
  PROVE  Knows(r, have, own)
  <1>1. /\ r.pc = (IF todo = {} THEN "group" ELSE "create") /\ r.privs = privs /\ r.todo = todo /\ r.new = {}
        /\ r = [pc |-> r.pc, privs |-> r.privs, todo |-> r.todo, cands |-> r.cands, new |-> r.new]
    BY NextZoneFacts
  <1> QED
    BY <1>1 DEF Knows
----------------------------------------------------------------------------
(* Every step of a worker is a Move.                                       *)

\* A step that changes nothing but the worker.
LEMMA StillMoves ==
  ASSUME SubnetsInv, NEW k \in Kinds, NEW r, w' = [w EXCEPT ![k] = r],
         UNCHANGED <<cluster, subnets, down, group, trouble>>, Knows(r, subnets, group[k]),
         r.new = {}, w[k].pc # "tag",
         down = {} => \A z \in Zones : Wants(r, subnets, group[k], z) => Wants(w[k], subnets, group[k], z)
  PROVE  Move(k, r)
  <1>1. Knows(w[k], subnets, group[k])
    BY Zenon DEF SubnetsInv
  <1>2. w[k].new = {}
    BY <1>1, Zenon DEF Knows
  <1> QED
    BY <1>2 DEF Move, SubnetStep

\* A step that ends the reconcile with an error.
LEMMA RestartMoves ==
  ASSUME SubnetsInv, NEW k \in Kinds, w' = [w EXCEPT ![k] = Start], UNCHANGED <<cluster, down>>, Trouble,
         \A s \in subnets : s.private => s \in subnets',
         \/ group' = group
         \/ group' = [group EXCEPT ![k] = w[k].privs] /\ w[k].pc = "group"
  PROVE  Move(k, Start)
  <1>1. trouble' = trouble + 1 /\ trouble' # 0
    BY DEF Trouble, SubnetsInv
  <1>2. Knows(Start, subnets', group'[k])
    BY StartKnows
  <1> QED
    BY <1>1, <1>2 DEF Move

LEMMA DescribeSubnetGroupsMoves ==
  ASSUME SubnetsInv, NEW k \in Kinds, DescribeSubnetGroups(k)
  PROVE  \E r : Move(k, r)
  <1> DEFINE l == IF group[k] # {} THEN "sg" ELSE "subnets"
             r == [w[k] EXCEPT !.pc = l]
  <1>1. w[k].pc = "groups" /\ w' = [w EXCEPT ![k] = r] /\ UNCHANGED <<cluster, subnets, down, group, trouble>>
    BY DEF DescribeSubnetGroups, At, Goto, cloud
  <1>2. Knows(w[k], subnets, group[k])
    BY DEF SubnetsInv
  <1>3. /\ r.pc = l /\ r.privs = w[k].privs /\ r.todo = w[k].todo /\ r.new = w[k].new
        /\ r = [pc |-> r.pc, privs |-> r.privs, todo |-> r.todo, cands |-> r.cands, new |-> r.new]
    BY <1>2 DEF Knows
  <1> HIDE DEF r
  <1>4. Knows(r, subnets, group[k]) /\ r.new = {}
    BY <1>1, <1>2, <1>3, Zenon DEF Knows
  <1>5. \A z \in Zones : Wants(r, subnets, group[k], z) => Wants(w[k], subnets, group[k], z)
    BY <1>1, <1>3 DEF Wants
  <1> QED
    BY <1>1, <1>4, <1>5, StillMoves, Zenon

LEMMA GetVPCSubnetsMoves ==
  ASSUME SubnetsInv, NEW k \in Kinds, GetVPCSubnets(k)
  PROVE  \E r : Move(k, r)
  <1>0. PICK p : p = {s \in subnets : s.private}
    BY ZenonT(60)
  <1>r. PICK r : r = [w[k] EXCEPT !.pc = "zones", !.privs = p]
    OBVIOUS
  <1>1. w[k].pc = "subnets" /\ UNCHANGED <<cluster, subnets, down, group, trouble>>
    BY DEF GetVPCSubnets, At, cloud
  <1>2. w' = [w EXCEPT ![k] = r]
    BY <1>0, <1>r, Zenon DEF GetVPCSubnets, SubnetsInv
  <1>3. Knows(w[k], subnets, group[k])
    BY DEF SubnetsInv
  <1>4. /\ r.pc = "zones" /\ r.privs = p /\ r.todo = w[k].todo /\ r.new = w[k].new
        /\ r = [pc |-> r.pc, privs |-> r.privs, todo |-> r.todo, cands |-> r.cands, new |-> r.new]
    <2>1. w[k] = [pc |-> w[k].pc, privs |-> w[k].privs, todo |-> w[k].todo, cands |-> w[k].cands,
                  new |-> w[k].new]
      BY <1>3, Zenon DEF Knows
    <2> QED
      BY <1>r, <2>1, ListedFacts, Zenon
  <1>5. Knows(r, subnets, group[k]) /\ r.new = {}
    BY <1>0, <1>1, <1>3, <1>4, Zenon DEF Knows
  <1>6. \A z \in Zones : Wants(r, subnets, group[k], z) => Wants(w[k], subnets, group[k], z)
    BY <1>0, <1>1, <1>4, Zenon DEF Wants, Covers
  <1> QED
    BY <1>1, <1>2, <1>5, <1>6, StillMoves, Zenon

LEMMA getAZsMoves ==
  ASSUME SubnetsInv, NEW k \in Kinds, getAZs(k)
  PROVE  \E r : Move(k, r)
  <1> DEFINE todo == {z \in Zones : ~privateSubnetExists(w[k].privs, z)}
  <1>1. /\ w[k].pc = "zones" /\ UNCHANGED <<cluster, subnets, down, group, trouble>>
        /\ w' = [w EXCEPT ![k] = NextZone(todo, w[k].privs)]
    BY DEF getAZs, At, cloud
  <1>2. PICK r : r = NextZone(todo, w[k].privs)
    BY Zenon
  <1>3. Knows(w[k], subnets, group[k])
    BY DEF SubnetsInv
  <1>4. /\ todo \subseteq Zones /\ (\A z \in Zones \ todo : Covers(w[k].privs, z))
        /\ down = {} => \A z \in todo : ~Covers(w[k].privs, z)
    BY DEF privateSubnetExists, Covers
  <1> HIDE DEF todo
  <1>5. /\ r.pc = (IF todo = {} THEN "group" ELSE "create") /\ r.todo = todo /\ r.new = {}
    BY <1>2, NextZoneFacts
  <1>6. \A s \in w[k].privs : s \in subnets /\ s.private
    BY <1>3, Zenon DEF Knows
  <1>7. Knows(r, subnets, group[k])
    BY <1>2, <1>4, <1>6, NextZoneKnows, Zenon
  <1>8. down = {} => \A z \in Zones : Wants(r, subnets, group[k], z) => Wants(w[k], subnets, group[k], z)
    BY <1>1, <1>4, <1>5, Zenon DEF Wants
  <1>9. w' = [w EXCEPT ![k] = r]
    BY <1>1, <1>2, Zenon
  <1> QED
    BY <1>1, <1>5, <1>7, <1>8, <1>9, StillMoves, Zenon

\* A step after which the reconcile has to be started over, without an error
\* of the cloud.
LEMMA StartOverMoves ==
  ASSUME SubnetsInv, NEW k \in Kinds, w' = [w EXCEPT ![k] = Start],
         UNCHANGED <<cluster, subnets, down, group, trouble>>,
         w[k].pc \in {"create", "sg", "sg_create", "sg_open"}
  PROVE  \E r : Move(k, r)
  <1>1. Knows(w[k], subnets, group[k]) /\ Knows(Start, subnets, group[k]) /\ w[k].pc # "tag"
    BY StartKnows, Zenon DEF SubnetsInv
  <1>2. ASSUME NEW z \in Zones, Wants(Start, subnets, group[k], z)
        PROVE  Wants(w[k], subnets, group[k], z)
    <2>1. group[k] = {} /\ ~\E s \in subnets : s.private /\ s.zone = z
      BY <1>2, StartFacts, Zenon DEF Wants
    <2>2. w[k].pc = "create"
      BY <1>1, <1>2, <2>1, Zenon DEF Knows
    <2>3. z \in w[k].todo
      BY <1>1, <2>1, <2>2, Zenon DEF Knows, Covers
    <2> QED
      BY <2>2, <2>3, Zenon DEF Wants
  <1>3. Start.new = {}
    BY StartFacts
  <1>4. Move(k, Start)
    BY <1>1, <1>2, <1>3, StillMoves, Zenon
  <1> QED
    BY <1>4

\* The next candidate, and the subnet that was created, in the worker.
LEMMA TriedFacts ==
  ASSUME NEW v, NEW p, NEW r, r = [v EXCEPT !.cands = p],
         v = [pc |-> v.pc, privs |-> v.privs, todo |-> v.todo, cands |-> v.cands, new |-> v.new]
  PROVE  /\ r.pc = v.pc /\ r.privs = v.privs /\ r.todo = v.todo /\ r.new = v.new /\ r.cands = p
         /\ r = [pc |-> r.pc, privs |-> r.privs, todo |-> r.todo, cands |-> r.cands, new |-> r.new]
  <1>1. PICK a, b, c, d, e : v = [pc |-> a, privs |-> b, todo |-> c, cands |-> d, new |-> e]
    OBVIOUS
  <1>2. v.pc = a /\ v.privs = b /\ v.todo = c /\ v.new = e
    BY <1>1
  <1>3. r = [pc |-> a, privs |-> b, todo |-> c, cands |-> p, new |-> e]
    BY <1>1, Zenon
  <1> QED
    BY <1>2, <1>3

\* A worker that has created the subnets n, field by field.
LEMMA CreatedFacts ==
  ASSUME NEW v, NEW n, NEW r, r = [v EXCEPT !.pc = "tag", !.cands = <<>>, !.new = n],
         v = [pc |-> v.pc, privs |-> v.privs, todo |-> v.todo, cands |-> v.cands, new |-> v.new]
  PROVE  /\ r.pc = "tag" /\ r.privs = v.privs /\ r.todo = v.todo /\ r.new = n /\ r.cands = <<>>
         /\ r = [pc |-> r.pc, privs |-> r.privs, todo |-> r.todo, cands |-> r.cands, new |-> r.new]
  <1>1. PICK a, b, c, d, e : v = [pc |-> a, privs |-> b, todo |-> c, cands |-> d, new |-> e]
    OBVIOUS
  <1>2. v.privs = b /\ v.todo = c
    BY <1>1
  <1>3. r = [pc |-> "tag", privs |-> b, todo |-> c, cands |-> <<>>, new |-> n]
    BY <1>1, Zenon
  <1> QED
    BY <1>2, <1>3, Zenon

\* CreateSubnet succeeded, and its answer arrived or was lost.
LEMMA CreatedMoves ==
  ASSUME SubnetsInv, NEW k \in Kinds, w[k].pc = "create", UNCHANGED <<cluster, down, group>>,
         NEW b, NEW z \in w[k].todo, NEW s, s = [block |-> b, zone |-> z, private |-> FALSE],
         subnets' = subnets \cup {s},
         Reply(k, [w[k] EXCEPT !.pc = "tag", !.cands = <<>>, !.new = {s}])
  PROVE  \E r : Move(k, r)
  <1>1. Knows(w[k], subnets, group[k])
    BY DEF SubnetsInv
  <1>2. PICK r : r = [w[k] EXCEPT !.pc = "tag", !.cands = <<>>, !.new = {s}]
    OBVIOUS
  <1>3. CASE w' = [w EXCEPT ![k] = Start] /\ Trouble
    BY <1>3, RestartMoves, Zenon
  <1>4. CASE w' = [w EXCEPT ![k] = r] /\ UNCHANGED trouble
    <2>1. w[k] = [pc |-> w[k].pc, privs |-> w[k].privs, todo |-> w[k].todo, cands |-> w[k].cands,
                  new |-> w[k].new]
      BY <1>1, SMTT(60) DEF Knows
    <2>2. /\ r.pc = "tag" /\ r.privs = w[k].privs /\ r.todo = w[k].todo /\ r.new = {s}
          /\ r = [pc |-> r.pc, privs |-> r.privs, todo |-> r.todo, cands |-> r.cands, new |-> r.new]
      BY <1>2, <2>1, CreatedFacts, Zenon
    <2>3. s.zone = z /\ s = [block |-> s.block, zone |-> s.zone, private |-> FALSE] /\ w[k].new = {}
      BY <1>1, Zenon DEF Knows
    <2>4. Knows(r, subnets', group'[k])
      BY <1>1, <2>2, <2>3, Zenon DEF Knows
    <2>5. \A y \in Zones : Wants(r, subnets', group'[k], y) => Wants(w[k], subnets, group[k], y)
      BY <2>2 DEF Wants
    <2>6. Wants(w[k], subnets, group[k], s.zone) /\ ~Wants(r, subnets', group'[k], s.zone)
      BY <2>2, <2>3, Zenon DEF Wants, Covers
    <2>7. SubnetStep(k, r)
      BY <2>2, <2>3, <2>6, Zenon DEF SubnetStep
    <2> QED
      BY <1>4, <2>4, <2>5, <2>7, Zenon DEF Move
  <1> QED
    BY <1>2, <1>3, <1>4, Zenon DEF Reply

LEMMA createPrivateSubnetMoves ==
  ASSUME SubnetsInv, NEW k \in Kinds, createPrivateSubnet(k)
  PROVE  \E r : Move(k, r)
  <1>1. w[k].pc = "create" /\ UNCHANGED <<cluster, down, group>> /\ Knows(w[k], subnets, group[k])
    BY Zenon DEF createPrivateSubnet, At, SubnetsInv
  <1> DEFINE cands == w[k].cands
             n     == Len(cands)
  <1>2. CASE Goto(k, "groups") /\ UNCHANGED <<subnets, trouble>>
    <2>1. w' = [w EXCEPT ![k] = Start]
      BY <1>2 DEF Goto
    <2> QED
      BY <1>1, <1>2, <2>1, StartOverMoves, Zenon
  <1>3. CASE w' = [w EXCEPT ![k].cands = SubSeq(cands, 1, n - 1)] /\ UNCHANGED <<subnets, trouble>>
    <2>1. PICK c : c = SubSeq(cands, 1, n - 1)
      BY Zenon
    <2>2. PICK r : r = [w[k] EXCEPT !.cands = c]
      BY Zenon
    <2>3. w' = [w EXCEPT ![k] = r]
      BY <1>3, <2>1, <2>2, Zenon
    <2>4. w[k] = [pc |-> w[k].pc, privs |-> w[k].privs, todo |-> w[k].todo, cands |-> w[k].cands,
                  new |-> w[k].new]
      BY <1>1 DEF Knows
    <2>5. /\ r.pc = w[k].pc /\ r.privs = w[k].privs /\ r.todo = w[k].todo /\ r.new = w[k].new
          /\ r = [pc |-> r.pc, privs |-> r.privs, todo |-> r.todo, cands |-> r.cands, new |-> r.new]
      BY <2>2, <2>4, TriedFacts, Zenon
    <2>6. Knows(r, subnets, group[k]) /\ r.new = {} /\ w[k].pc # "tag"
      BY <1>1, <2>5, Zenon DEF Knows
    <2>7. \A z \in Zones : Wants(r, subnets, group[k], z) => Wants(w[k], subnets, group[k], z)
      BY <2>5, SMTT(60) DEF Wants
    <2> QED
      BY <1>1, <1>3, <2>3, <2>6, <2>7, StillMoves, Zenon
  <1>4. CASE \E z \in w[k].todo :
               LET s == [block |-> cands[n], zone |-> z, private |-> FALSE]
               IN  /\ subnets' = subnets \cup {s}
                   /\ Reply(k, [w[k] EXCEPT !.pc = "tag", !.cands = <<>>, !.new = {s}])
    <2>1. PICK b : b = cands[n]
      OBVIOUS
    <2>2. PICK z \in w[k].todo :
               LET s == [block |-> b, zone |-> z, private |-> FALSE]
               IN  /\ subnets' = subnets \cup {s}
                   /\ Reply(k, [w[k] EXCEPT !.pc = "tag", !.cands = <<>>, !.new = {s}])
      BY <1>4, <2>1, Zenon
    <2>3. PICK s : s = [block |-> b, zone |-> z, private |-> FALSE]
      BY Zenon
    <2>4. subnets' = subnets \cup {s} /\ Reply(k, [w[k] EXCEPT !.pc = "tag", !.cands = <<>>, !.new = {s}])
      BY <2>2, <2>3, Zenon
    <2> QED
      BY <1>1, <2>3, <2>4, CreatedMoves, Zenon
  <1> QED
    BY <1>2, <1>3, <1>4, Zenon DEF createPrivateSubnet

LEMMA tagPrivateSubnetMoves ==
  ASSUME SubnetsInv, NEW k \in Kinds, tagPrivateSubnet(k)
  PROVE  \E r : Move(k, r)
  <1>1. w[k].pc = "tag" /\ UNCHANGED <<cluster, down, group>> /\ Knows(w[k], subnets, group[k])
    BY Zenon DEF tagPrivateSubnet, At, SubnetsInv
  <1>2. PICK s \in w[k].new :
          w[k].new = {s} /\ s.zone \in w[k].todo /\ s = [block |-> s.block, zone |-> s.zone, private |-> FALSE]
    BY <1>1 DEF Knows
  <1>3. PICK t : t = [s EXCEPT !.private = TRUE]
    BY Zenon
  <1>4. t.zone = s.zone /\ t.private /\ ~s.private
    BY <1>2, <1>3
  <1> DEFINE tagged == {[x EXCEPT !.private = TRUE] : x \in w[k].new}
             left   == w[k].todo \ {x.zone : x \in tagged}
  <1>5. tagged = {t}
    BY <1>2, <1>3
  <1>6. subnets' = (subnets \ w[k].new) \cup tagged /\ Reply(k, NextZone(left, w[k].privs \cup tagged))
    BY Zenon DEF tagPrivateSubnet
  <1> HIDE DEF tagged
  <1>7. left = w[k].todo \ {s.zone}
    BY <1>4, <1>5
  <1>8. PICK todo, privs : todo = w[k].todo \ {s.zone} /\ privs = w[k].privs \cup {t}
    BY Zenon
  <1> HIDE DEF left
  <1>9. subnets' = (subnets \ {s}) \cup {t} /\ Reply(k, NextZone(todo, privs))
    BY <1>2, <1>5, <1>6, <1>7, <1>8, Zenon
  <1>10. CASE w' = [w EXCEPT ![k] = Start] /\ Trouble
    BY <1>1, <1>4, <1>9, <1>10, RestartMoves, Zenon
  <1>11. CASE w' = [w EXCEPT ![k] = NextZone(todo, privs)] /\ UNCHANGED trouble
    <2>1. PICK r : r = NextZone(todo, privs)
      OBVIOUS
    <2>2. /\ r.pc = (IF todo = {} THEN "group" ELSE "create") /\ r.privs = privs /\ r.todo = todo /\ r.new = {}
      BY <2>1, NextZoneFacts
    <2>3. todo \subseteq Zones /\ \A z \in Zones \ todo : Covers(privs, z)
      BY <1>1, <1>4, <1>8, Zenon DEF Knows, Covers
    <2>4. \A x \in privs : x \in subnets' /\ x.private
      BY <1>1, <1>4, <1>8, <1>9, Zenon DEF Knows
    <2>5. Knows(r, subnets', group'[k])
      BY <2>1, <2>3, <2>4, NextZoneKnows, Zenon
    <2>6. \A z \in Zones : Wants(r, subnets', group'[k], z) => Wants(w[k], subnets, group[k], z)
      BY <1>1, <1>2, <1>8, <2>2, Zenon DEF Wants, Covers
    <2>7. ~Wants(w[k], subnets, group[k], s.zone)
      BY <1>1, <1>2, Zenon DEF Wants, Covers
    <2>8. SubnetStep(k, r)
      BY <1>2, <1>4, <1>9, <2>2, <2>7, Zenon DEF SubnetStep
    <2>9. w' = [w EXCEPT ![k] = r] /\ \A x \in subnets : x.private => x \in subnets'
      BY <1>4, <1>9, <1>11, <2>1, Zenon
    <2> QED
      BY <1>1, <1>11, <2>5, <2>6, <2>8, <2>9, Zenon DEF Move
  <1> QED
    BY <1>9, <1>10, <1>11, Zenon DEF Reply

LEMMA CreateSubnetGroupMoves ==
  ASSUME SubnetsInv, NEW k \in Kinds, CreateSubnetGroup(k)
  PROVE  \E r : Move(k, r)
  <1>1. /\ w[k].pc = "group" /\ UNCHANGED <<cluster, subnets, down>> /\ Knows(w[k], subnets, group[k])
        /\ group' = [group EXCEPT ![k] = w[k].privs] /\ Reply(k, [Start EXCEPT !.pc = "sg"])
    BY DEF CreateSubnetGroup, At, SubnetsInv
  <1>2. CASE w' = [w EXCEPT ![k] = Start] /\ Trouble
    BY <1>1, <1>2, RestartMoves, Zenon
  <1>3. CASE w' = [w EXCEPT ![k] = [Start EXCEPT !.pc = "sg"]] /\ UNCHANGED trouble
    <2>1. PICK r : r = [Start EXCEPT !.pc = "sg"]
      BY Zenon
    <2>2. /\ r.pc = "sg" /\ r.privs = {} /\ r.todo = {} /\ r.new = {}
          /\ r = [pc |-> r.pc, privs |-> r.privs, todo |-> r.todo, cands |-> r.cands, new |-> r.new]
      BY <2>1, Zenon DEF Start
    <2>3. group'[k] = w[k].privs /\ (w[k].privs # {} \/ Zones = {}) /\ w[k].new = {}
      BY <1>1, ZenonT(60) DEF Knows, Covers, SubnetsInv
    <2>4. Knows(r, subnets', group'[k])
      BY <2>2, <2>3 DEF Knows
    <2>5. (\A z \in Zones : ~Wants(r, subnets', group'[k], z)) /\ SubnetStep(k, r)
      BY <1>1, <2>2, <2>3 DEF Wants, SubnetStep
    <2>6. w' = [w EXCEPT ![k] = r]
      BY <1>3, <2>1
    <2> QED
      BY <1>1, <1>3, <2>4, <2>5, <2>6, Zenon DEF Move
  <1> QED
    BY <1>1, <1>2, <1>3, Zenon DEF Reply

LEMMA DescribeSecurityGroupsMoves ==
  ASSUME SubnetsInv, NEW k \in Kinds, DescribeSecurityGroups(k)
  PROVE  \E r : Move(k, r)
  <1> DEFINE next == CASE sg = "none" -> "sg_create" [] sg = "closed" -> "sg_open" [] OTHER -> "groups"
  <1>1. /\ w[k].pc = "sg" /\ UNCHANGED <<cluster, subnets, down, group, trouble>> /\ Goto(k, next)
    BY DEF DescribeSecurityGroups, At, cloud
  <1>2. next \in {"sg_create", "sg_open", "groups"}
    <2>0. "none" # "closed"
      OBVIOUS
    <2>1. CASE sg = "none" /\ sg # "closed"
      BY <2>1, Zenon
    <2>2. CASE sg # "none" /\ sg = "closed"
      BY <2>2, Zenon
    <2>3. CASE sg # "none" /\ sg # "closed"
      BY <2>3, Zenon
    <2> QED
      BY <2>0, <2>1, <2>2, <2>3, Zenon
  <1>3. PICK l \in {"sg_create", "sg_open", "groups"} : l = next
    BY <1>2
  <1>4. Goto(k, l)
    BY <1>1, <1>3
  <1> HIDE DEF next
  <1>5. CASE l = "groups"
    <2>1. w' = [w EXCEPT ![k] = Start]
      BY <1>4, <1>5 DEF Goto
    <2> QED
      BY <1>1, <2>1, StartOverMoves, Zenon
  <1>6. CASE l # "groups"
    <2> DEFINE r == [w[k] EXCEPT !.pc = l]
    <2>1. w' = [w EXCEPT ![k] = r]
      BY <1>4, <1>6, Zenon DEF Goto
    <2>2. Knows(w[k], subnets, group[k])
      BY DEF SubnetsInv
    <2>3. /\ r.pc = l /\ r.privs = w[k].privs /\ r.todo = w[k].todo /\ r.new = w[k].new
          /\ r = [pc |-> r.pc, privs |-> r.privs, todo |-> r.todo, cands |-> r.cands, new |-> r.new]
      BY <2>2 DEF Knows
    <2> HIDE DEF r
    <2>4. Knows(r, subnets, group[k]) /\ r.new = {}
      BY <1>1, <1>3, <1>6, <2>2, <2>3, Zenon DEF Knows
    <2>5. \A z \in Zones : ~Wants(r, subnets, group[k], z)
      BY <1>3, <1>6, <2>3, Zenon DEF Wants
    <2> QED
      BY <1>1, <2>1, <2>4, <2>5, StillMoves, Zenon
  <1> QED
    BY <1>5, <1>6

LEMMA SecurityGroupMoves ==
  ASSUME SubnetsInv, NEW k \in Kinds, CreateSecurityGroup(k) \/ AuthorizeIngress(k)
  PROVE  \E r : Move(k, r)
  <1>1. /\ w[k].pc \in {"sg_create", "sg_open"} /\ UNCHANGED <<cluster, subnets, down, group, trouble>>
        /\ w' = [w EXCEPT ![k] = Start]
    BY DEF CreateSecurityGroup, AuthorizeIngress, At, Goto
  <1> QED
    BY <1>1, StartOverMoves, Zenon

LEMMA CallFailsMoves ==
  ASSUME SubnetsInv, NEW k \in Kinds, CallFails(k)
  PROVE  \E r : Move(k, r)
  <1>1. w' = [w EXCEPT ![k] = Start] /\ UNCHANGED <<cluster, subnets, down, group>> /\ Trouble
    BY DEF CallFails, Goto, cloud
  <1> QED
    BY <1>1, RestartMoves, ZenonT(60)

\* All of them together.
LEMMA WorkerMoves ==
  ASSUME SubnetsInv, NEW k \in Kinds, Worker(k) \/ CallFails(k)
  PROVE  \E r : Move(k, r)
  BY DescribeSubnetGroupsMoves, GetVPCSubnetsMoves, getAZsMoves, createPrivateSubnetMoves,
     tagPrivateSubnetMoves, CreateSubnetGroupMoves, DescribeSecurityGroupsMoves, SecurityGroupMoves,
     CallFailsMoves, Zenon DEF Worker
----------------------------------------------------------------------------
(* What a Move keeps.                                                      *)

\* The worker that moves, the other one, and the groups.
LEMMA MoveFacts ==
  ASSUME SubnetsInv, NEW k \in Kinds, NEW r, Move(k, r)
  PROVE  /\ w' = [j \in Kinds |-> w'[j]] /\ w'[k] = r /\ \A j \in Kinds : j # k => w'[j] = w[j]
         /\ group' = [j \in Kinds |-> group'[j]] /\ \A j \in Kinds : j # k => group'[j] = group[j]
         /\ \/ group'[k] = group[k]
            \/ group'[k] = w[k].privs /\ w[k].pc = "group"
  <1>1. w' = [j \in Kinds |-> w'[j]] /\ w'[k] = r /\ \A j \in Kinds : j # k => w'[j] = w[j]
    <2>1. w = [j \in Kinds |-> w[j]] /\ w' = [w EXCEPT ![k] = r]
      BY DEF SubnetsInv, Move
    <2> QED
      BY <2>1, ExceptFacts, Zenon
  <1>2. group = [j \in Kinds |-> group[j]]
    BY DEF SubnetsInv
  <1>3. CASE group' = group
    BY <1>1, <1>2, <1>3, Zenon
  <1>4. CASE group' = [group EXCEPT ![k] = w[k].privs] /\ w[k].pc = "group"
    <2>1. /\ group' = [j \in Kinds |-> group'[j]] /\ group'[k] = w[k].privs
          /\ \A j \in Kinds : j # k => group'[j] = group[j]
      BY <1>2, <1>4, ExceptFacts, Zenon
    <2> QED
      BY <1>1, <1>4, <2>1, Zenon
  <1> QED
    BY <1>3, <1>4, Zenon DEF Move

\* A group is made of what its worker knows, and private subnets stay.
LEMMA SubnetsMove ==
  ASSUME SubnetsInv, NEW k \in Kinds, NEW r, Move(k, r)
  PROVE  SubnetsInv'
  <1>1. /\ w' = [j \in Kinds |-> w'[j]] /\ w'[k] = r /\ \A j \in Kinds : j # k => w'[j] = w[j]
        /\ group' = [j \in Kinds |-> group'[j]] /\ \A j \in Kinds : j # k => group'[j] = group[j]
        /\ \/ group'[k] = group[k]
           \/ group'[k] = w[k].privs /\ w[k].pc = "group"
    BY MoveFacts, Zenon
  <1>2. trouble' \in Nat /\ cluster' = cluster /\ \A s \in subnets : s.private => s \in subnets'
    BY DEF Move, SubnetsInv
  <1>3. \A s \in cluster.subnets : s.private => s \in subnets'
    BY <1>2, Zenon DEF SubnetsInv
  <1>4. ASSUME NEW j \in Kinds
        PROVE  Knows(w'[j], subnets', group'[j])
    <2>1. CASE j = k
      BY <1>1, <2>1, Zenon DEF Move
    <2>2. CASE j # k
      <3>1. Knows(w[j], subnets, group[j])
        BY Zenon DEF SubnetsInv
      <3>2. Knows(w[j], subnets', group[j])
        BY <1>2, <3>1, KnowsMore, Zenon
      <3> QED
        BY <1>1, <2>2, <3>2, Zenon
    <2> QED
      BY <2>1, <2>2, Zenon
  <1>5. ASSUME NEW j \in Kinds, group'[j] # {}
        PROVE  /\ \A z \in Zones : \E s \in group'[j] : s.zone = z
               /\ \A s \in group'[j] : s.private /\ s \in subnets'
    <2>1. CASE group'[j] = group[j]
      BY <1>2, <1>5, <2>1 DEF SubnetsInv, GroupSpansZones
    <2>2. CASE j = k /\ group'[k] = w[k].privs /\ w[k].pc = "group"
      <3>1. Knows(w[k], subnets, group[k])
        BY DEF SubnetsInv
      <3> QED
        BY <1>2, <2>2, <3>1, Zenon DEF Knows, Covers
    <2> QED
      BY <1>1, <2>1, <2>2, Zenon
  <1> QED
    BY <1>1, <1>2, <1>3, <1>4, <1>5, Zenon DEF SubnetsInv, GroupSpansZones

\* A zone that a worker does not want a subnet for stays so.
LEMMA WantsFewer ==
  ASSUME SubnetsInv, NEW k \in Kinds, NEW r, Move(k, r), trouble' = 0, down = {},
         NEW j \in Kinds, NEW z \in Zones, Needs(j, z)'
  PROVE  Needs(j, z)
  <1>1. /\ w'[k] = r /\ (j # k => w'[j] = w[j]) /\ (j # k => group'[j] = group[j])
    BY MoveFacts, Zenon
  <1>2. Wants(w'[j], subnets', group'[j], z)
    BY Zenon DEF Needs
  <1>3. CASE j = k
    BY <1>1, <1>2, <1>3, Zenon DEF Move, Needs
  <1>4. CASE j # k
    <2>1. Wants(w[j], subnets', group[j], z) /\ \A s \in subnets : s.private => s \in subnets'
      BY <1>1, <1>2, <1>4, Zenon DEF Move
    <2> QED
      BY <2>1, Zenon DEF Wants, Needs
  <1> QED
    BY <1>3, <1>4, Zenon

\* A zone that had a private subnet is left alone.
LEMMA HadMove ==
  ASSUME SubnetsInv, NEW k \in Kinds, NEW r, Move(k, r), trouble' = 0, down = {}, NEW z \in Zones,
         Added(z) = {}, \A j \in Kinds : ~Needs(j, z) /\ ~Covers(w[j].new, z)
  PROVE  Added(z)' = {} /\ \A j \in Kinds : ~Needs(j, z)' /\ ~Covers(w'[j].new, z)
  <1>1. w'[k] = r /\ cluster' = cluster /\ \A j \in Kinds : j # k => w'[j] = w[j]
    BY MoveFacts, Zenon DEF Move
  <1>2. \A j \in Kinds : ~Needs(j, z)'
    BY WantsFewer, Zenon
  <1>3. SubnetStep(k, r)
    BY Zenon DEF Move
  <1>4. CASE subnets' = subnets /\ r.new = {}
    BY <1>1, <1>2, <1>4, Zenon DEF Added, Covers
  <1>5. CASE \E s : /\ subnets' = subnets \cup {s} /\ r.new = {s}
                    /\ Wants(w[k], subnets, group[k], s.zone)
    <2>1. PICK s : /\ subnets' = subnets \cup {s} /\ r.new = {s} /\ Wants(w[k], subnets, group[k], s.zone)
      BY <1>5, Zenon
    <2>2. s.zone # z
      BY <2>1, Zenon DEF Needs
    <2> QED
      BY <1>1, <1>2, <2>1, <2>2, Zenon DEF Added, Covers
  <1>6. CASE \E s, t : /\ subnets' = (subnets \ {s}) \cup {t} /\ t.zone = s.zone
                       /\ w[k].new = {s} /\ r.new = {}
    <2>1. PICK s, t : /\ subnets' = (subnets \ {s}) \cup {t} /\ t.zone = s.zone
                      /\ w[k].new = {s} /\ r.new = {}
      BY <1>6, Zenon
    <2>2. s.zone # z
      BY <2>1, Zenon DEF Covers
    <2> QED
      BY <1>1, <1>2, <2>1, <2>2, Zenon DEF Added, Covers
  <1> QED
    BY <1>3, <1>4, <1>5, <1>6, Zenon DEF SubnetStep

\* A created subnet becomes the worker's, and so does the tagged one after it.
LEMMA SharedMove ==
  ASSUME SubnetsInv, NEW k \in Kinds, NEW r, Move(k, r), trouble' = 0, down = {}, NEW z \in Zones,
         NEW g, Shared(g, z)
  PROVE  \E h : Shared(h, z)'
  <1>1. w'[k] = r /\ cluster' = cluster /\ \A j \in Kinds : j # k => w'[j] = w[j]
    BY MoveFacts, Zenon DEF Move
  <1>2. \A j \in Kinds : Needs(j, z)' => Needs(j, z)
    BY WantsFewer, Zenon
  <1>3. SubnetStep(k, r)
    BY DEF Move
  <1>4. CASE subnets' = subnets /\ r.new = {}
    <2>1. Added(z)' = Added(z)
      BY <1>1, <1>4, Zenon DEF Added
    <2>2. Shared(g, z)'
      BY <1>1, <1>2, <1>4, <2>1, Zenon DEF Shared
    <2> QED
      BY <2>2, Zenon
  <1>5. CASE \E s : /\ subnets' = subnets \cup {s} /\ r.new = {s}
                    /\ Wants(w[k], subnets, group[k], s.zone)
                    /\ ~Wants(r, subnets', group'[k], s.zone)
    <2>1. PICK s : /\ subnets' = subnets \cup {s} /\ r.new = {s}
                   /\ Wants(w[k], subnets, group[k], s.zone)
                   /\ ~Wants(r, subnets', group'[k], s.zone)
      BY <1>5, Zenon
    <2>2. CASE s.zone # z
      <3>1. Added(z)' = Added(z)
        BY <1>1, <2>1, <2>2, Zenon DEF Added
      <3>2. Shared(g, z)'
        BY <1>1, <1>2, <2>1, <2>2, <3>1, Zenon DEF Shared
      <3> QED
        BY <3>2
    <2>3. CASE s.zone = z
      <3>1. PICK h : h = [j \in Kinds |-> IF j = k THEN s ELSE g[j]]
        BY Zenon
      <3>2. h[k] = s /\ \A j \in Kinds : j # k => h[j] = g[j]
        BY <3>1, Zenon
      <3>3. Needs(k, z) /\ ~Needs(k, z)'
        BY <1>1, <2>1, <2>3, Zenon DEF Needs
      <3>4. \A x \in Added(z)' : x \in Added(z) \/ x = s
        BY <1>1, <2>1, Zenon DEF Added
      <3>5. \A x \in Added(z)' : \E j \in Kinds : ~Needs(j, z)' /\ x = h[j]
        BY <1>2, <3>2, <3>3, <3>4, Zenon DEF Shared
      <3>6. \A j \in Kinds : \A x \in w'[j].new : x.zone = z => h[j] = x
        BY <1>1, <2>1, <3>2 DEF Shared
      <3>7. Shared(h, z)'
        BY <3>5, <3>6, Zenon DEF Shared
      <3> QED
        BY <3>7
    <2> QED
      BY <2>2, <2>3, Zenon
  <1>6. CASE \E s, t : /\ subnets' = (subnets \ {s}) \cup {t} /\ t.zone = s.zone
                       /\ w[k].new = {s} /\ r.new = {}
                       /\ ~Wants(w[k], subnets, group[k], s.zone)
    <2>1. PICK s, t : /\ subnets' = (subnets \ {s}) \cup {t} /\ t.zone = s.zone
                      /\ w[k].new = {s} /\ r.new = {}
                      /\ ~Wants(w[k], subnets, group[k], s.zone)
      BY <1>6, Zenon
    <2>2. CASE s.zone # z
      <3>1. \A x \in Added(z)' : x \in Added(z)
        BY <1>1, <2>1, <2>2, Zenon DEF Added
      <3>2. Shared(g, z)'
        BY <1>1, <1>2, <2>1, <2>2, <3>1, Zenon DEF Shared
      <3> QED
        BY <3>2
    <2>3. CASE s.zone = z
      <3>1. PICK h : h = [j \in Kinds |-> IF j = k THEN t ELSE g[j]]
        BY Zenon
      <3>2. h[k] = t /\ g[k] = s /\ \A j \in Kinds : j # k => h[j] = g[j]
        BY <2>1, <2>3, <3>1, Zenon DEF Shared
      <3>3. ~Needs(k, z)'
        BY <1>2, <2>1, <2>3, Zenon DEF Needs
      <3>4. \A x \in Added(z)' : (x \in Added(z) /\ x # s) \/ x = t
        BY <1>1, <2>1, Zenon DEF Added
      <3>5. \A x \in Added(z)' : \E j \in Kinds : ~Needs(j, z)' /\ x = h[j]
        BY <1>2, <3>2, <3>3, <3>4, Zenon DEF Shared
      <3>6. \A j \in Kinds : \A x \in w'[j].new : x.zone = z => h[j] = x
        BY <1>1, <2>1, <3>2, Zenon DEF Shared
      <3>7. Shared(h, z)'
        BY <3>5, <3>6 DEF Shared
      <3> QED
        BY <3>7
    <2> QED
      BY <2>2, <2>3
  <1> QED
    BY <1>3, <1>4, <1>5, <1>6, Zenon DEF SubnetStep

\* The shares of the two workers, over a step of one of them.
LEMMA SpareMove ==
  ASSUME SubnetsInv, SpareInv, NEW k \in Kinds, NEW r, Move(k, r)
  PROVE  SpareInv'
  <1> SUFFICES ASSUME trouble' = 0
               PROVE  /\ down' = {}
                      /\ \A z \in Zones : Had(z)' =>
                           Added(z)' = {} /\ \A j \in Kinds : ~Needs(j, z)' /\ ~Covers(w'[j].new, z)
                      /\ \A z \in Zones : \E g : Shared(g, z)'
    BY Zenon DEF SpareInv
  <1>1. trouble = 0 /\ down = {} /\ down' = down /\ cluster' = cluster
    BY DEF Move, SubnetsInv, SpareInv
  <1>2. ASSUME NEW z \in Zones, Had(z)'
        PROVE  Added(z)' = {} /\ \A j \in Kinds : ~Needs(j, z)' /\ ~Covers(w'[j].new, z)
    <2>1. Had(z)
      BY <1>1, <1>2, Zenon DEF Had
    <2>2. Added(z) = {} /\ \A j \in Kinds : ~Needs(j, z) /\ ~Covers(w[j].new, z)
      BY <1>1, <2>1, Zenon DEF SpareInv
    <2> QED
      BY <1>1, <2>2, HadMove, Zenon
  <1>3. ASSUME NEW z \in Zones
        PROVE  \E g : Shared(g, z)'
    <2>1. PICK g : Shared(g, z)
      BY <1>1 DEF SpareInv
    <2> QED
      BY <1>1, <2>1, SharedMove, Zenon
  <1> QED
    BY <1>1, <1>2, <1>3, Zenon
----------------------------------------------------------------------------
(* The invariants hold, and what they say.                                 *)

\* At first the subnets are the cluster's own, and each worker may want one per zone.
LEMMA SubnetsInit ==
  ASSUME Init
  PROVE  SubnetsInv /\ SpareInv
  <1>1. /\ subnets = cluster.subnets /\ down = {} /\ trouble = 0
        /\ w = [k \in Kinds |-> Start] /\ group = [k \in Kinds |-> {}]
    BY DEF Init
  <1>2. \A k \in Kinds : w[k] = Start /\ group[k] = {}
    BY <1>1
  <1>3. /\ w = [k \in Kinds |-> w[k]] /\ group = [k \in Kinds |-> group[k]]
    BY <1>1, Zenon
  <1>4. \A k \in Kinds : Knows(w[k], subnets, group[k])
    BY <1>2, StartKnows, Zenon
  <1>5. SubnetsInv
    BY <1>1, <1>2, <1>3, <1>4, Zenon DEF SubnetsInv, GroupSpansZones
  <1>6. \A z \in Zones : Added(z) = {}
    BY <1>1, Zenon DEF Added
  <1>7. \A k \in Kinds : w[k].new = {} /\ w[k].pc = "groups"
    BY <1>2, StartFacts, Zenon
  <1>8. \A z \in Zones : Had(z) => \A k \in Kinds : ~Needs(k, z) /\ ~Covers(w[k].new, z)
    BY <1>1, <1>7, Zenon DEF Had, Needs, Wants, Covers
  <1>9. \A z \in Zones : \A g : Shared(g, z)
    BY <1>6, <1>7, Zenon DEF Shared
  <1>10. SpareInv
    BY <1>1, <1>6, <1>8, <1>9, Zenon DEF SpareInv
  <1> QED
    BY <1>5, <1>10, Zenon

\* Zones that fail count as trouble; planning a network changes no subnet.
LEMMA SubnetsStep ==
  ASSUME SubnetsInv, SpareInv, [Next]_vars
  PROVE  SubnetsInv' /\ SpareInv'
  <1>1. CASE \E k \in Kinds : Worker(k) \/ CallFails(k)
    <2>1. PICK k \in Kinds : Worker(k) \/ CallFails(k)
      BY <1>1
    <2>2. PICK r : Move(k, r)
      BY <2>1, WorkerMoves, Zenon
    <2> QED
      BY <2>2, SubnetsMove, SpareMove, Zenon
  <1>2. CASE ZoneChanges
    <2>1. UNCHANGED <<cluster, subnets, group, w>>
      BY <1>2, Zenon DEF ZoneChanges
    <2>2. trouble' \in Nat /\ trouble' # 0
      BY <1>2 DEF ZoneChanges, Trouble, SubnetsInv, SpareInv
    <2>3. SubnetsInv'
      BY <2>1, <2>2 DEF SubnetsInv, GroupSpansZones
    <2> QED
      BY <2>2, <2>3, Zenon DEF SpareInv
  <1>3. CASE PlanNetwork \/ UNCHANGED vars
    <2>1. UNCHANGED <<cluster, subnets, group, w, down, trouble>>
      BY <1>3, Zenon DEF PlanNetwork, cloud, vars
    <2>2. SubnetsInv'
      BY <2>1, Zenon DEF SubnetsInv, GroupSpansZones
    <2>3. SpareInv'
      BY <2>1 DEF SpareInv, Had, Added, Needs, Shared
    <2> QED
      BY <2>2, <2>3, Zenon
  <1> QED
    BY <1>1, <1>2, <1>3, Zenon DEF Next

\* What the two controllers know of the subnets, and whose the added ones are,
\* is kept by every step.
THEOREM SubnetsInvariance == Spec => [](SubnetsInv /\ SpareInv)
  <1>1. Init => SubnetsInv /\ SpareInv
    BY SubnetsInit
  <1>2. (SubnetsInv /\ SpareInv) /\ [Next]_vars => (SubnetsInv /\ SpareInv)'
    BY SubnetsStep
  <1> QED
    BY <1>1, <1>2, PTL DEF Spec

\* aws/cluster_vpc.go:8-16, 54-124: however many zones and subnets the cluster
\* has, whatever fails and whatever zones come and go, a subnet group spans
\* all zones from the moment it is created, with private subnets that exist.
THEOREM GroupsAlwaysSpan == Spec => []GroupSpansZones
  <1>1. SubnetsInv => GroupSpansZones
    BY DEF SubnetsInv
  <1> QED
    BY <1>1, SubnetsInvariance, PTL

\* aws/cluster_vpc.go:18-19, 222-258: while no call fails and all zones are up,
\* a zone that has a private subnet gets no other one, and another zone gets
\* one from each controller at most, for every cluster and interleaving.
THEOREM NeverNeedless == Spec => []NoNeedlessSubnet
  <1>1. ASSUME SubnetsInv, SpareInv
        PROVE  NoNeedlessSubnet
    <2> SUFFICES ASSUME trouble = 0, NEW z \in Zones
                 PROVE  Cardinality(Added(z)) <= IF Had(z) THEN 0 ELSE Cardinality(Kinds)
      BY DEF NoNeedlessSubnet, Had, Added
    <2>1. CASE Had(z)
      <3>1. Added(z) = {}
        BY <1>1, <2>1, Zenon DEF SpareInv
      <3>2. Cardinality({}) = 0
        BY FS_EmptySet, Zenon
      <3> QED
        BY <2>1, <3>1, <3>2
    <2>2. CASE ~Had(z)
      <3>1. PICK g : Shared(g, z)
        BY <1>1, Zenon DEF SpareInv
      <3>2. PICK a, b : a = g["postgres"] /\ b = g["redis"]
        BY Zenon
      <3>3. Added(z) \subseteq {a} \cup {b}
        BY <3>1, <3>2, Zenon DEF Shared, Kinds
      <3>4. IsFiniteSet({a}) /\ Cardinality({a}) = 1
        BY FS_Singleton, Zenon
      <3>5. IsFiniteSet({a} \cup {b}) /\ Cardinality({a} \cup {b}) <= 2
        BY <3>4, FS_AddElement
      <3>6. Cardinality({"postgres"} \cup {"redis"}) = 2
        <4>1. PICK x, y : x = "postgres" /\ y = "redis"
          OBVIOUS
        <4>2. IsFiniteSet({x}) /\ Cardinality({x}) = 1
          BY FS_Singleton, Zenon
        <4>3. y \notin {x}
          BY <4>1
        <4>4. Cardinality({x} \cup {y}) = 2
          BY <4>2, <4>3, FS_AddElement
        <4> QED
          BY <4>1, <4>4
      <3>7. Kinds = {"postgres"} \cup {"redis"}
        BY Zenon DEF Kinds
      <3>8. IsFiniteSet(Added(z)) /\ Cardinality(Added(z)) <= Cardinality({a} \cup {b})
        BY <3>3, <3>5, FS_Subset, Zenon
      <3>9. Cardinality(Added(z)) \in Nat /\ Cardinality({a} \cup {b}) \in Nat
        BY <3>5, <3>8, FS_CardinalityType
      <3> QED
        BY <2>2, <3>5, <3>6, <3>7, <3>8, <3>9
    <2> QED
      BY <2>1, <2>2, Zenon
  <1> QED
    BY <1>1, SubnetsInvariance, PTL
----------------------------------------------------------------------------
(* What the loop over the addresses of a VPC finds.                        *)

\* A block begins at a multiple of its size, of which the address space has a
\* whole number; at least two, unless it is all of the space.
LEMMA BlockPlace ==
  ASSUME NEW b \in Blocks
  PROVE  \E p \in Nat, k \in Nat \ {0} :
           /\ b.ip = Size(b.mask) * p /\ 2^AddrBits = Size(b.mask) * k /\ p < k
           /\ b.mask > 0 => k > 1
<1>1. /\ b.ip \in Nat /\ b.mask \in 0 .. AddrBits /\ Masked(b.ip, b.mask) = b.ip
      /\ b.ip < 2^AddrBits /\ 2^AddrBits \in Nat
  BY SizeFacts DEF Blocks, CIDRs, Addrs, Contains
<1>2. PICK s \in Nat \ {0} : s = Size(b.mask)
  BY <1>1, SizeFacts
<1>3. PICK p : p = b.ip \div s OBVIOUS
<1>4. p \in Nat /\ b.ip = p * s
  BY <1>1, <1>2, <1>3, DivMod, Zenon DEF Masked
<1>5. Size(0) = 2^AddrBits
  <2>1. AddrBits - 0 = AddrBits BY MasksAssumption
  <2> QED BY <2>1 DEF Size
<1>6. PICK k \in Nat \ {0} : 2^AddrBits = s * k
  <2>1. 0 \in 0 .. AddrBits /\ b.mask \in 0 .. AddrBits BY <1>1, MasksAssumption
  <2> QED BY <1>2, <1>5, <2>1, SizeMultiple
<1>7. p < k
  <2> SUFFICES ASSUME k <= p PROVE FALSE BY <1>4
  <2>1. s * k <= p * s BY <1>4
  <2> QED BY <1>1, <1>4, <1>6, <2>1
<1>8. ASSUME b.mask > 0 PROVE k > 1
  <2> SUFFICES ASSUME k = 1 PROVE FALSE OBVIOUS
  <2>1. 0 \in 0 .. AddrBits - 1 /\ 1 \in 0 .. AddrBits /\ b.mask \in 1 .. AddrBits /\ 0 + 1 = 1
    BY <1>1, <1>8, MasksAssumption
  <2>2. Size(0) = 2 * Size(1) /\ Size(1) \in Nat \ {0}
    BY <2>1, SizeHalves, SizeFacts
  <2>3. PICK l \in Nat \ {0} : Size(1) = s * l
    BY <1>2, <2>1, SizeMultiple
  <2>4. s * l >= s BY <2>3
  <2>5. s * k = s OBVIOUS
  <2> QED BY <1>5, <1>6, <2>2, <2>3, <2>4, <2>5
<1>9. p * s = s * p BY <1>4
<1> QED BY <1>2, <1>4, <1>6, <1>7, <1>8, <1>9

\* The address that is n after the first one of a block lies in the block that
\* is n \div s further, counted modulo the blocks of the address space.
MaskedAt(m, s, k, a, n) == Masked(incrementIP(s * a, n), m) = ((a + (n \div s)) % k) * s

LEMMA MaskedNext ==
  ASSUME NEW m \in 0 .. AddrBits, NEW s \in Nat \ {0}, s = Size(m),
         NEW k \in Nat \ {0}, 2^AddrBits = s * k,
         NEW a \in Nat, NEW n \in Nat
  PROVE  MaskedAt(m, s, k, a, n)
<1>1. PICK q, r : q = n \div s /\ r = n % s OBVIOUS
<1>2. q \in Nat /\ r \in 0 .. s - 1 /\ n = s * q + r
  BY <1>1, DivMod, Zenon
<1>3. s * a + n = s * (a + q) + r /\ a + q \in Nat
  BY <1>2
<1>4. PICK v : v = (a + q) % k OBVIOUS
<1>5. v \in Nat BY <1>3, <1>4, DivMod
<1>6. (s * (a + q) + r) % (s * k) = s * v + r
  <2>1. PICK e \in Nat : e = a + q BY <1>3
  <2>2. r \in 0 .. s - 1 BY <1>2
  <2>3. WrapsAt(s, k, e, r) BY <2>2, Wrapped, Zenon
  <2> QED BY <1>4, <2>1, <2>3, Zenon DEF WrapsAt
<1>7. incrementIP(s * a, n) = s * v + r
  BY <1>3, <1>6 DEF incrementIP
<1>8. (s * v + r) \div s = v
  BY <1>2, <1>5, Divided, Zenon
<1> QED BY <1>1, <1>4, <1>7, <1>8 DEF Masked, MaskedAt

\* The loop of a VPC runs once for each of its addresses.
LEMMA RoundsExact ==
  ASSUME NEW b \in Blocks, b.mask > 0, NEW to, to.ip = b.ip
  PROVE  Rounds(b, to) = Size(b.mask)
<1>1. b.mask \in 0 .. AddrBits BY DEF Blocks, CIDRs
<1>2. PICK s \in Nat \ {0} : s = Size(b.mask)
  BY <1>1, SizeFacts
<1>3. PICK p \in Nat, k \in Nat \ {0} :
        b.ip = s * p /\ 2^AddrBits = s * k /\ p < k /\ k > 1
  BY <1>2, BlockPlace
<1>4. ASSUME NEW n \in Nat
      PROVE  Contains(b, incrementIP(to.ip, n)) <=> ((p + (n \div s)) % k) * s = p * s
  <2>1. b.mask \in 0 .. AddrBits /\ s = Size(b.mask) /\ 2^AddrBits = s * k BY <1>1, <1>2, <1>3
  <2>2. MaskedAt(b.mask, s, k, p, n) BY <2>1, MaskedNext, Zenon
  <2>3. s * p = p * s BY <1>3
  <2> QED BY <1>3, <2>2, <2>3 DEF Contains, MaskedAt
<1>5. ASSUME NEW n \in Nat, n < s
      PROVE  Contains(b, incrementIP(to.ip, n))
  <2>2. n \div s = 0 /\ p % k = p BY <1>3, <1>5, Small, Zenon
  <2> QED BY <1>4, <2>2, p + 0 = p
<1>6. ~Contains(b, incrementIP(to.ip, s))
  <2>1. s = s * 1 + 0 OBVIOUS
  <2>2. s \div s = 1 BY <2>1, Divided
  <2>3. (p + 0) % k # (p + 1) % k
    <3>1. 0 \in Nat /\ 1 \in Nat /\ 0 < 1 /\ 1 < k BY <1>3
    <3> QED BY <3>1, Elsewhere, Zenon
  <2>4. p % k = p BY <1>3, Small, Zenon
  <2>5. (p + 0) % k = p BY <2>4, p + 0 = p
  <2>6. PICK v : v = (p + 1) % k OBVIOUS
  <2>7. v \in Nat /\ v # p BY <2>3, <2>5, <2>6, DivMod
  <2>8. v * s # p * s
    <3>1. CASE v < p BY <3>1, <2>7, Apart, s * v + s <= s * p, s * v \in Nat
    <3>2. CASE p < v BY <3>2, <2>7, Apart, s * p + s <= s * v, s * p \in Nat
    <3> QED BY <3>1, <3>2, <2>7
  <2> QED BY <1>4, <2>2, <2>6, <2>8, Zenon
<1>7. s \in 0 .. 2^AddrBits
  BY <1>3, s <= s * k, s * k \in Nat
<1> DEFINE End(i) == /\ ~Contains(b, incrementIP(to.ip, i))
                     /\ \A j \in 0 .. i - 1 : Contains(b, incrementIP(to.ip, j))
<1>8. End(s) BY <1>5, <1>6
<1>9. ASSUME NEW i \in 0 .. 2^AddrBits, End(i) PROVE i = s
  <2>1. i \in Nat BY SizeFacts
  <2>2. ~(i < s) BY <1>5, <1>9, <2>1
  <2>3. ~(s < i)
    <3> SUFFICES ASSUME s < i PROVE FALSE OBVIOUS
    <3>1. s \in 0 .. i - 1 BY <2>1
    <3> QED BY <1>6, <1>9, <3>1
  <2> QED BY <2>1, <2>2, <2>3
<1>10. Rounds(b, to) = CHOOSE i \in 0 .. 2^AddrBits : End(i)
  BY DEF Rounds
<1> HIDE DEF End
<1> QED BY <1>2, <1>7, <1>8, <1>9, <1>10

\* The block that is j after the a-th one, of size s, among k.
Nth(s, k, a, m, j) == [ip |-> ((a + j) % k) * s, mask |-> m]

\* How many blocks of size s the first n addresses lie in; there is one at the
\* start already.
Found(s, n) == IF n = 0 THEN 1 ELSE ((n - 1) \div s) + 1

\* The blocks found after n rounds.
Expected(s, k, a, m, n) == [i \in 1 .. Found(s, n) |-> Nth(s, k, a, m, i - 1)]

LEMMA FoundNext ==
  ASSUME NEW s \in Nat \ {0}, NEW n \in Nat, NEW q, q = n \div s
  PROVE  /\ q \in Nat /\ Found(s, n + 1) = q + 1
         /\ Found(s, n) = q + 1 \/ (Found(s, n) = q /\ s * q = n /\ q > 0)
<1>1. PICK r : r = n % s OBVIOUS
<1>2. q \in Nat /\ r \in 0 .. s - 1 /\ n = s * q + r
  BY <1>1, DivMod, Zenon
<1>3. Found(s, n + 1) = q + 1
  <2>1. n + 1 # 0 /\ (n + 1) - 1 = n OBVIOUS
  <2> QED BY <2>1 DEF Found
<1>4. CASE n = 0
  <2>1. n = s * 0 + 0 BY <1>4
  <2>2. q = 0 BY <2>1, Divided
  <2> QED BY <1>2, <1>3, <1>4, <2>2 DEF Found
<1>5. CASE n # 0 /\ r # 0
  <2>1. PICK x, y : x = n - 1 /\ y = r - 1 OBVIOUS
  <2>2. x = s * q + y /\ y \in 0 .. s - 1 BY <1>2, <1>5, <2>1, s * q \in Nat
  <2>3. x \div s = q BY <1>2, <2>2, Divided, ZenonT(60)
  <2> QED BY <1>2, <1>3, <1>5, <2>1, <2>3 DEF Found
<1>6. CASE n # 0 /\ r = 0
  <2>1. q # 0 /\ n = s * q BY <1>2, <1>6, s * q \in Nat
  <2>2. PICK p \in Nat : q = p + 1 BY <1>2, <2>1
  <2>3. s * q = s * p + s /\ s * p \in Nat BY <2>2
  <2>4. n - 1 = s * p + (s - 1) /\ s - 1 \in 0 .. s - 1 BY <2>1, <2>3
  <2>5. (n - 1) \div s = p BY <2>2, <2>4, Divided
  <2> QED BY <1>2, <1>3, <1>6, <2>1, <2>2, <2>5 DEF Found
<1> QED BY <1>4, <1>5, <1>6

\* One round adds the block of its address, if that is a new one.
AddsAt(s, k, a, m, n, found, next) ==
  Expected(s, k, a, m, n + 1) = IF next \in Range(found) THEN found ELSE Append(found, next)

LEMMA NextRound ==
  ASSUME NEW s \in Nat \ {0}, NEW k \in Nat \ {0}, NEW a \in Nat, NEW m, NEW n \in Nat, n < s * k,
         NEW found, found = Expected(s, k, a, m, n),
         NEW next, next = Nth(s, k, a, m, n \div s)
  PROVE  AddsAt(s, k, a, m, n, found, next)
<1>1. PICK q : q = n \div s OBVIOUS
<1>2. /\ q \in Nat /\ Found(s, n + 1) = q + 1
      /\ Found(s, n) = q + 1 \/ (Found(s, n) = q /\ s * q = n /\ q > 0)
  BY <1>1, FoundNext, Zenon
<1>3. Expected(s, k, a, m, n + 1) = [i \in 1 .. q + 1 |-> Nth(s, k, a, m, i - 1)]
  BY <1>2 DEF Expected
<1>4. CASE Found(s, n) = q + 1
  <2>1. found = [i \in 1 .. q + 1 |-> Nth(s, k, a, m, i - 1)]
    BY <1>4 DEF Expected
  <2>2. q + 1 \in 1 .. q + 1 /\ (q + 1) - 1 = q BY <1>2
  <2>3. found[q + 1] = next BY <1>1, <2>1, <2>2
  <2>4. q + 1 \in DOMAIN found BY <2>1, <2>2
  <2>5. next \in Range(found) BY <2>3, <2>4 DEF Range
  <2> QED BY <1>3, <2>1, <2>5 DEF AddsAt
<1>5. CASE Found(s, n) = q /\ s * q = n /\ q > 0
  <2>1. found = [i \in 1 .. q |-> Nth(s, k, a, m, i - 1)]
    BY <1>5 DEF Expected
  <2>2. q < k
    <3> SUFFICES ASSUME k <= q PROVE FALSE BY <1>2
    <3>1. s * k <= s * q /\ s * k \in Nat /\ s * q \in Nat BY <1>2
    <3> QED BY <1>5, <3>1
  <2>3. ASSUME NEW i \in 1 .. q PROVE found[i] # next
    <3>1. PICK j : j = i - 1 OBVIOUS
    <3>2. j \in Nat /\ j < q BY <1>2, <3>1
    <3>3. (a + j) % k # (a + q) % k BY <1>2, <2>2, <3>2, Elsewhere, Zenon
    <3>4. PICK u, v : u = (a + j) % k /\ v = (a + q) % k OBVIOUS
    <3>5. u \in Nat /\ v \in Nat /\ u # v
      BY <1>2, <3>2, <3>3, <3>4, DivMod, a + j \in Nat, a + q \in Nat
    <3>6. u * s # v * s
      <4>1. CASE u < v BY <4>1, <3>5, Apart, s * u + s <= s * v, s * u \in Nat
      <4>2. CASE v < u BY <4>2, <3>5, Apart, s * v + s <= s * u, s * v \in Nat
      <4> QED BY <4>1, <4>2, <3>5
    <3>7. found[i] = Nth(s, k, a, m, j) BY <2>1, <3>1
    <3>8. found[i].ip = u * s /\ next.ip = v * s
      BY <1>1, <3>4, <3>7 DEF Nth
    <3> QED BY <3>6, <3>8
  <2>4. next \notin Range(found)
    BY <2>1, <2>3 DEF Range
  <2>5. Append(found, next) = [i \in 1 .. q + 1 |-> Nth(s, k, a, m, i - 1)]
    <3>1. found \in Seq({Nth(s, k, a, m, i - 1) : i \in 1 .. q}) /\ Len(found) = q
      <4>1. PICK T : T = {Nth(s, k, a, m, i - 1) : i \in 1 .. q} BY Zenon
      <4>2. found \in [1 .. q -> T] BY <2>1, <4>1, Zenon
      <4>3. found \in Seq(T) /\ Len(found) = q BY <1>2, <4>2
      <4> QED BY <4>1, <4>3
    <3>2. Append(found, next) = [i \in 1 .. q + 1 |-> IF i <= q THEN found[i] ELSE next]
      BY <3>1
    <3>3. ASSUME NEW i \in 1 .. q + 1
          PROVE  (IF i <= q THEN found[i] ELSE next) = Nth(s, k, a, m, i - 1)
      <4>1. CASE i <= q BY <4>1, <2>1, i \in 1 .. q, <1>2
      <4>2. CASE ~(i <= q) BY <4>2, <1>1, i - 1 = q, <1>2
      <4> QED BY <4>1, <4>2
    <3> QED BY <3>2, <3>3, Zenon
  <2> QED BY <1>3, <2>4, <2>5, Zenon DEF AddsAt
<1> QED BY <1>2, <1>4, <1>5

LEMMA AddNetwork ==
  ASSUME NEW found \in Seq(CIDRs), NEW next \in CIDRs
  PROVE  addNetwork[<<found, next>>] = IF next \in Range(found) THEN found ELSE Append(found, next)
  BY DEF addNetwork

\* All of these blocks lie in the address space.
LEMMA ExpectedType ==
  ASSUME NEW m \in 0 .. AddrBits, NEW s \in Nat \ {0}, NEW k \in Nat \ {0}, 2^AddrBits = s * k,
         NEW a \in Nat, NEW n \in Nat
  PROVE  Nth(s, k, a, m, n \div s) \in CIDRs /\ Expected(s, k, a, m, n) \in Seq(CIDRs)
<1>1. ASSUME NEW j \in Nat PROVE Nth(s, k, a, m, j) \in CIDRs
  <2>1. PICK v : v = (a + j) % k OBVIOUS
  <2>2. a + j \in Nat OBVIOUS
  <2>3. v \in 0 .. k - 1 BY <2>1, <2>2, DivMod, Zenon
  <2>4. s * v + s <= s * k /\ s * v \in Nat /\ s * k \in Nat BY <2>3, Apart
  <2>5. v * s = s * v BY <2>3
  <2>6. v * s \in 0 .. 2^AddrBits - 1 BY <2>4, <2>5
  <2> QED BY <2>1, <2>6 DEF Nth, CIDRs, Addrs
<1>2. n \div s \in Nat /\ Found(s, n) \in Nat
  <2>1. PICK q : q = n \div s OBVIOUS
  <2>2. q \in Nat /\ (Found(s, n) = q + 1 \/ Found(s, n) = q)
    BY <2>1, FoundNext, Zenon
  <2> QED BY <2>1, <2>2
<1>3. PICK c \in Nat : c = Found(s, n) BY <1>2
<1>4. \A i \in 1 .. c : Nth(s, k, a, m, i - 1) \in CIDRs
  <2> SUFFICES ASSUME NEW i \in 1 .. c PROVE Nth(s, k, a, m, i - 1) \in CIDRs OBVIOUS
  <2>1. i - 1 \in Nat OBVIOUS
  <2> QED BY <1>1, <2>1, Zenon
<1>5. PICK e : e = [i \in 1 .. c |-> Nth(s, k, a, m, i - 1)] BY Zenon
<1>6. e \in [1 .. c -> CIDRs] BY <1>4, <1>5, Zenon
<1>7. e \in Seq(CIDRs) BY <1>6
<1>8. Expected(s, k, a, m, n) = e BY <1>3, <1>5, Zenon DEF Expected
<1> QED BY <1>1, <1>2, <1>7, <1>8, ZenonT(60)

\* What the loop has found after any number of rounds.
FoundAt(s, k, a, m, to) ==
  \A n \in 0 .. 2^AddrBits : Networks(to, n) = Expected(s, k, a, m, n)

LEMMA NetworksExact ==
  ASSUME NEW m \in 0 .. AddrBits, NEW s \in Nat \ {0}, s = Size(m),
         NEW k \in Nat \ {0}, 2^AddrBits = s * k, NEW a \in Nat, a < k,
         NEW to, to = [ip |-> s * a, mask |-> m]
  PROVE  FoundAt(s, k, a, m, to)
<1> DEFINE D == 0 .. 2^AddrBits
           Step(f, i) ==
             IF i = 0 THEN <<to>>
             ELSE addNetwork[<<f[i - 1], ParseCIDR(incrementIP(to.ip, i - 1), to.mask)>>]
           E == [n \in D |-> Expected(s, k, a, m, n)]
<1>0. 2^AddrBits \in Nat /\ s * k \in Nat
  BY SizeFacts
<1>1. Expected(s, k, a, m, 0) = <<to>>
  <2>2. a % k = a BY Small, Zenon
  <2>3. Nth(s, k, a, m, 0) = to
    BY <2>2, a + 0 = a, a * s = s * a DEF Nth
  <2>4. Found(s, 0) = 1 BY DEF Found
  <2>5. Expected(s, k, a, m, 0) = [i \in 1 .. 1 |-> Nth(s, k, a, m, i - 1)]
    BY <2>4 DEF Expected
  <2>6. [i \in 1 .. 1 |-> Nth(s, k, a, m, i - 1)] = [i \in 1 .. 1 |-> to]
    BY <2>3, \A i \in 1 .. 1 : i - 1 = 0
  <2> QED BY <2>5, <2>6
<1>2. ASSUME NEW f, NEW n \in Nat, n < 2^AddrBits, f[n] = Expected(s, k, a, m, n)
      PROVE  Step(f, n + 1) = Expected(s, k, a, m, n + 1)
  <2>1. PICK found, next : /\ found = f[n]
                           /\ next = ParseCIDR(incrementIP(to.ip, n), to.mask)
    OBVIOUS
  <2>2. n + 1 # 0 /\ (n + 1) - 1 = n OBVIOUS
  <2>3. Step(f, n + 1) = addNetwork[<<found, next>>]
    BY <2>1, <2>2
  <2>4. MaskedAt(m, s, k, a, n)
    BY MaskedNext, Zenon
  <2>5. to.ip = s * a /\ to.mask = m OBVIOUS
  <2>6. next = Nth(s, k, a, m, n \div s)
    BY <2>1, <2>4, <2>5 DEF ParseCIDR, Nth, MaskedAt
  <2>7. n < s * k BY <1>2
  <2>8. found = Expected(s, k, a, m, n) BY <1>2, <2>1, Zenon
  <2>9. AddsAt(s, k, a, m, n, found, next)
    BY <2>6, <2>7, <2>8, NextRound, Zenon
  <2>10. found \in Seq(CIDRs) /\ next \in CIDRs
    BY <2>6, <2>8, ExpectedType, Zenon
  <2>11. addNetwork[<<found, next>>] = IF next \in Range(found) THEN found ELSE Append(found, next)
    BY <2>10, AddNetwork, Zenon
  <2> QED BY <2>3, <2>9, <2>11, Zenon DEF AddsAt
<1> HIDE DEF Step
<1>3. \A i \in D : E[i] = Step(E, i)
  <2> SUFFICES ASSUME NEW i \in D PROVE E[i] = Step(E, i) OBVIOUS
  <2>1. CASE i = 0
    BY <2>1, <1>1 DEF Step
  <2>2. CASE i # 0
    <3>1. PICK n \in Nat : i = n + 1 /\ n < 2^AddrBits /\ n \in D
      BY <1>0, <2>2
    <3>2. E[n] = Expected(s, k, a, m, n) /\ E[i] = Expected(s, k, a, m, i)
      BY <3>1
    <3> QED BY <3>1, <3>2, <1>2
  <2> QED BY <2>1, <2>2
<1>4. E = [i \in D |-> Step(E, i)]
  BY <1>3
<1>5. ASSUME NEW f, f = [i \in D |-> Step(f, i)] PROVE f = E
  <2> DEFINE S == {n \in Nat : n \in D => f[n] = Expected(s, k, a, m, n)}
  <2>1. 0 \in S
    BY <1>1, <1>5 DEF Step
  <2>2. ASSUME NEW n \in Nat, n \in S PROVE n + 1 \in S
    <3> SUFFICES ASSUME n + 1 \in D PROVE f[n + 1] = Expected(s, k, a, m, n + 1)
      OBVIOUS
    <3>1. n \in D /\ n < 2^AddrBits BY <1>0
    <3>2. f[n] = Expected(s, k, a, m, n) BY <2>2, <3>1
    <3>3. f[n + 1] = Step(f, n + 1) BY <1>5, Zenon
    <3> QED BY <3>1, <3>2, <3>3, <1>2
  <2> HIDE DEF S
  <2>3. Nat \subseteq S BY <2>1, <2>2, NatInduct, Zenon
  <2>4. \A n \in D : f[n] = Expected(s, k, a, m, n)
    BY <2>3, <1>0 DEF S
  <2> QED BY <1>5, <2>4, Zenon
<1> DEFINE F == CHOOSE f : f = [i \in D |-> Step(f, i)]
<1>6. \A n : Networks(to, n) = F[n]
  BY DEF Networks, Step
<1>7. F = E
  <2> HIDE DEF E, D
  <2> QED BY <1>4, <1>5
<1> HIDE DEF F
<1> QED BY <1>6, <1>7, Zenon DEF FoundAt

\* The loop finds the blocks of mask m that make up the VPC, in order, each
\* once, in a VPC anywhere in the address space
\* (aws/cluster_vpc.go:358-401).
THEOREM SubnetsGenerated ==
  ASSUME NEW b \in Blocks, b.mask > 0, NEW m \in b.mask .. AddrBits
  PROVE  generateAvailableSubnets(b, ParseCIDR(b.ip, m)) =
           [i \in 1 .. Size(b.mask) \div Size(m) |->
              [ip |-> b.ip + (i - 1) * Size(m), mask |-> m]]
<1>1. b.ip \in Nat /\ b.mask \in 0 .. AddrBits /\ m \in 0 .. AddrBits
  BY SizeFacts DEF Blocks, CIDRs, Addrs
<1>2. PICK s \in Nat \ {0}, t \in Nat \ {0} : s = Size(b.mask) /\ t = Size(m)
  BY <1>1, SizeFacts
<1>3. PICK p \in Nat, c \in Nat \ {0} : b.ip = s * p /\ 2^AddrBits = s * c /\ p < c
  BY <1>2, BlockPlace
<1>4. PICK l \in Nat \ {0} : s = t * l
  BY <1>1, <1>2, SizeMultiple
<1>5. PICK a \in Nat, k \in Nat \ {0} : a = l * p /\ k = l * c
  <2>1. l * p \in Nat /\ l * c \in Nat \ {0} BY <1>3, <1>4
  <2> QED BY <2>1
<1>6. b.ip = t * a /\ 2^AddrBits = t * k
  BY <1>3, <1>4, <1>5
<1>7. a + l <= k
  BY <1>3, <1>4, <1>5, Apart
<1>8. a < k BY <1>4, <1>7
<1>9. ParseCIDR(b.ip, m) = [ip |-> t * a, mask |-> m]
  <2>1. t * a = t * a + 0 /\ t * a \in Nat OBVIOUS
  <2>2. (t * a) \div t = a BY <2>1, Divided
  <2> QED BY <1>2, <1>6, <2>2, a * t = t * a DEF ParseCIDR, Masked
<1>10. PICK to : to = ParseCIDR(b.ip, m) OBVIOUS
<1>11. \A n \in 0 .. 2^AddrBits : Networks(to, n) = Expected(t, k, a, m, n)
  <2>1. m \in 0 .. AddrBits /\ t = Size(m) /\ 2^AddrBits = t * k /\ to = [ip |-> t * a, mask |-> m]
    BY <1>1, <1>2, <1>6, <1>9, <1>10, Zenon
  <2>2. FoundAt(t, k, a, m, to) BY <1>8, <2>1, NetworksExact, ZenonT(60)
  <2> QED BY <2>2, Zenon DEF FoundAt
<1>12. Rounds(b, to) = s
  <2>1. to.ip = b.ip BY <1>6, <1>9, <1>10
  <2> QED BY <1>2, <2>1, RoundsExact
<1>13. s \in 0 .. 2^AddrBits
  BY <1>3, s <= s * c, s * c \in Nat
<1>14. generateAvailableSubnets(b, to) = Expected(t, k, a, m, s)
  BY <1>11, <1>12, <1>13 DEF generateAvailableSubnets
<1>15. Found(t, s) = l /\ s \div t = l
  <2>1. PICK j \in Nat : l = j + 1 BY <1>4
  <2>2. t * l = t * j + t /\ t * j \in Nat BY <2>1
  <2>3. s - 1 = t * j + (t - 1) /\ t - 1 \in 0 .. t - 1 BY <1>4, <2>2
  <2>4. (s - 1) \div t = j BY <2>3, Divided
  <2>5. s = t * l + 0 BY <1>4
  <2>6. s \div t = l BY <2>5, Divided
  <2> QED BY <2>1, <2>4, <2>6 DEF Found
<1>16. ASSUME NEW i \in 1 .. l
       PROVE  Nth(t, k, a, m, i - 1) = [ip |-> b.ip + (i - 1) * t, mask |-> m]
  <2>1. PICK j \in Nat : j = i - 1 BY <1>4
  <2>2. a + j \in Nat /\ a + j < k BY <1>7, <2>1, <1>4
  <2>3. (a + j) % k = a + j BY <2>2, Small, Zenon
  <2>4. (a + j) * t = t * a + j * t OBVIOUS
  <2> QED BY <1>6, <2>1, <2>3, <2>4 DEF Nth
<1>17. Expected(t, k, a, m, s) = [i \in 1 .. l |-> [ip |-> b.ip + (i - 1) * t, mask |-> m]]
  BY <1>15, <1>16 DEF Expected
<1> QED BY <1>2, <1>10, <1>14, <1>15, <1>17
----------------------------------------------------------------------------
(* The candidates of the two controllers are the blocks of subnet size.    *)

BlocksOf(vpc) ==
  LET n == IF vpc.mask >= SubnetMask THEN 0 ELSE Size(vpc.mask) \div Size(SubnetMask)
  IN  [i \in 1 .. n |-> [ip |-> vpc.ip + (i - 1) * Size(SubnetMask), mask |-> SubnetMask]]

\* The blocks of mask m that make up a block lie in the address space.
LEMMA PartsInSpace ==
  ASSUME NEW b \in Blocks, NEW m \in b.mask .. AddrBits,
         NEW i \in 1 .. Size(b.mask) \div Size(m)
  PROVE  [ip |-> b.ip + (i - 1) * Size(m), mask |-> m] \in CIDRs
<1>1. b.ip \in Nat /\ b.mask \in 0 .. AddrBits /\ m \in 0 .. AddrBits
  BY SizeFacts DEF Blocks, CIDRs, Addrs
<1>2. PICK s \in Nat \ {0}, t \in Nat \ {0} : s = Size(b.mask) /\ t = Size(m)
  BY <1>1, SizeFacts
<1>3. PICK p \in Nat, c \in Nat \ {0} : b.ip = s * p /\ 2^AddrBits = s * c /\ p < c
  BY <1>2, BlockPlace
<1>4. s * p + s <= s * c /\ s * p \in Nat /\ s * c \in Nat
  BY <1>3, Apart
<1>5. PICK l : l = s \div t OBVIOUS
<1>6. l \in Nat /\ s % t \in 0 .. t - 1 /\ s = t * l + (s % t)
  BY <1>5, DivMod, Zenon
<1>7. PICK j \in Nat : j = i - 1 /\ j < l
  BY <1>2, <1>5, <1>6
<1>8. t * j + t <= t * l /\ t * j \in Nat /\ t * l \in Nat
  BY <1>6, <1>7, Apart
<1>9. j * t = t * j BY <1>7
<1>10. b.ip + j * t \in 0 .. 2^AddrBits - 1
  BY <1>3, <1>4, <1>6, <1>8, <1>9
<1> QED BY <1>1, <1>2, <1>7, <1>10 DEF CIDRs, Addrs

\* aws/cluster_vpc.go:318-356.
LEMMA Candidates ==
  ASSUME NEW v \in Blocks, v.mask > 0, NEW list, list = BlocksOf(v)
  PROVE  buildSubnetAddress(v) = list /\ list \in Seq(CIDRs)
<1>1. v.mask \in 0 .. AddrBits /\ SubnetMask \in 0 .. AddrBits /\ Size(v.mask) \div Size(SubnetMask) \in Nat
  <2>1. v.mask \in 0 .. AddrBits /\ SubnetMask \in 0 .. AddrBits
    BY MasksAssumption DEF Blocks, CIDRs
  <2>2. PICK x \in Nat \ {0}, y \in Nat \ {0} : x = Size(v.mask) /\ y = Size(SubnetMask)
    BY <2>1, SizeFacts
  <2>3. x \in Nat BY <2>2
  <2>4. x \div y \in Nat BY <2>3, DivMod, Zenon
  <2> QED BY <2>1, <2>2, <2>4
<1>2. CASE v.mask >= SubnetMask
  <2>1. list = [i \in 1 .. 0 |-> [ip |-> v.ip + (i - 1) * Size(SubnetMask), mask |-> SubnetMask]]
    BY <1>2 DEF BlocksOf
  <2>2. list = <<>> BY <2>1
  <2> QED BY <1>2, <2>2 DEF buildSubnetAddress
<1>3. CASE ~(v.mask >= SubnetMask)
  <2>1. SubnetMask \in v.mask .. AddrBits BY <1>1, <1>3
  <2>2. PICK n \in Nat : n = Size(v.mask) \div Size(SubnetMask) BY <1>1
  <2>3. list = [i \in 1 .. n |-> [ip |-> v.ip + (i - 1) * Size(SubnetMask), mask |-> SubnetMask]]
    BY <1>3, <2>2, Zenon DEF BlocksOf
  <2>4. buildSubnetAddress(v) = list
    BY <1>3, <2>1, <2>2, <2>3, SubnetsGenerated, ZenonT(60) DEF buildSubnetAddress
  <2>5. \A i \in 1 .. n : [ip |-> v.ip + (i - 1) * Size(SubnetMask), mask |-> SubnetMask] \in CIDRs
    BY <2>1, <2>2, PartsInSpace
  <2> QED BY <2>3, <2>4, <2>5
<1> QED BY <1>2, <1>3

\* A block that is large enough falls into two halves
\* (aws/cluster_network_provider.go:1042-1058).
LEMMA TwoHalves ==
  ASSUME NEW b \in Blocks, b.mask > 0, b.mask < SubnetMask, NEW nets, nets = StandaloneSubnets(b)
  PROVE  /\ Len(nets) = 2 /\ Disjoint(nets[1], nets[2])
         /\ Span(nets[1]) \cup Span(nets[2]) = Span(b)
<1>1. b.ip \in Nat /\ b.mask \in 0 .. AddrBits - 1 /\ b.mask + 1 \in 0 .. AddrBits
      /\ b.mask + 1 \in b.mask .. AddrBits
  BY MasksAssumption, SizeFacts DEF Blocks, CIDRs, Addrs
<1>2. PICK m \in b.mask .. AddrBits : m = b.mask + 1 BY <1>1
<1>3. PICK t \in Nat \ {0} : t = Size(m) BY <1>1, <1>2, SizeFacts
<1>4. Size(b.mask) = 2 * t BY <1>1, <1>2, <1>3, SizeHalves
<1>5. (2 * t) \div t = 2
  <2>1. 2 * t = t * 2 + 0 OBVIOUS
  <2> QED BY <2>1, Divided
<1>6. PICK g : g = generateAvailableSubnets(b, ParseCIDR(b.ip, m)) OBVIOUS
<1>7. g = [i \in 1 .. 2 |-> [ip |-> b.ip + (i - 1) * t, mask |-> m]]
  <2>1. g = [i \in 1 .. Size(b.mask) \div Size(m) |-> [ip |-> b.ip + (i - 1) * Size(m), mask |-> m]]
    BY <1>6, SubnetsGenerated, Zenon
  <2> QED BY <1>3, <1>4, <1>5, <2>1, Zenon
<1>8. /\ g[1] = [ip |-> b.ip + (1 - 1) * t, mask |-> m]
      /\ g[2] = [ip |-> b.ip + (2 - 1) * t, mask |-> m]
  BY <1>7
<1>9. b.ip + (1 - 1) * t = b.ip /\ b.ip + (2 - 1) * t = b.ip + t
  BY <1>1
<1>10. Len(g) = 2 BY <1>7
<1>11. nets = g
  <2>1. ~(b.mask >= SubnetMask) BY <1>1, MasksAssumption
  <2> QED BY <1>2, <1>6, <1>10, <2>1 DEF StandaloneSubnets
<1>12. /\ Span(nets[1]) = b.ip .. b.ip + t - 1
       /\ Span(nets[2]) = b.ip + t .. b.ip + t + t - 1
  BY <1>3, <1>8, <1>9, <1>11 DEF Span
<1>13. Span(b) = b.ip .. b.ip + 2 * t - 1
  BY <1>4 DEF Span
<1> QED BY <1>1, <1>10, <1>11, <1>12, <1>13 DEF Disjoint
----------------------------------------------------------------------------
(* Which blocks the controllers try.  A worker's candidates are the first   *)
(* of the VPC's blocks, and each later one was in use when it was tried; a *)
(* block in use stays in use.                                              *)

Taken(have, b) == \E s \in have : Overlaps(s.block, b)

Typed(r) ==
  /\ r.pc \in Labels
  /\ r.privs \subseteq Subnets /\ r.new \subseteq Subnets
  /\ r.todo \subseteq Zones /\ r.cands \in Seq(CIDRs)

Untried(c, have, list) ==
  /\ Len(c) <= Len(list) /\ c = SubSeq(list, 1, Len(c))
  /\ \A i \in Len(c) + 1 .. Len(list) : Taken(have, list[i])

Tries(r, have, list) == r.pc = "create" => Untried(r.cands, have, list)

ExactInv ==
  /\ cluster \in Clusters /\ TypeOK /\ Halved
  /\ \A k \in Kinds : Tries(w[k], subnets, BlocksOf(cluster.vpc))

\* What every step of worker k that leads to r does.
Tracks(k, r) ==
  /\ w' = [w EXCEPT ![k] = r] /\ Typed(r) /\ Tries(r, subnets', BlocksOf(cluster.vpc))
  /\ subnets' \subseteq Subnets /\ \A s \in subnets : \E t \in subnets' : t.block = s.block
  /\ group' = group \/ group' = [group EXCEPT ![k] = w[k].privs]
  /\ sg' \in {"none", "closed", "open"} /\ trouble' \in 0 .. MaxTrouble
  /\ UNCHANGED <<cluster, plan, down>>

\* The worker before its step.
LEMMA WorkerTyped ==
  ASSUME SubnetsInv, ExactInv, NEW k \in Kinds
  PROVE  /\ Typed(w[k]) /\ Tries(w[k], subnets, BlocksOf(cluster.vpc))
         /\ w[k] = [pc |-> w[k].pc, privs |-> w[k].privs, todo |-> w[k].todo, cands |-> w[k].cands,
                    new |-> w[k].new]
         /\ subnets \subseteq Subnets /\ sg \in {"none", "closed", "open"} /\ trouble \in 0 .. MaxTrouble
         /\ cluster.vpc \in Blocks /\ cluster.vpc.mask > 0
<1>1. cluster \in Clusters /\ TypeOK /\ Tries(w[k], subnets, BlocksOf(cluster.vpc))
  BY Zenon DEF ExactInv
<1>2. Typed(w[k])
  BY <1>1, Zenon DEF TypeOK, Typed
<1>3. Knows(w[k], subnets, group[k])
  BY Zenon DEF SubnetsInv
<1>4. cluster.vpc \in Blocks /\ cluster.vpc.mask > 0
  BY <1>1, ClustersAssumption, Zenon
<1>5. w[k] = [pc |-> w[k].pc, privs |-> w[k].privs, todo |-> w[k].todo, cands |-> w[k].cands,
                    new |-> w[k].new]
  BY <1>3, Zenon DEF Knows
<1>6. subnets \subseteq Subnets /\ sg \in {"none", "closed", "open"} /\ trouble \in 0 .. MaxTrouble
  BY <1>1, Zenon DEF TypeOK
<1> QED BY <1>1, <1>2, <1>4, <1>5, <1>6, Zenon

LEMMA StartTyped ==
  ASSUME NEW have, NEW list
  PROVE  Typed(Start) /\ Tries(Start, have, list)
  BY StartFacts DEF Typed, Tries, Labels

\* A worker that changes no candidates and goes to l, which is not to create.
LEMMA ElseTyped ==
  ASSUME NEW v, NEW r, NEW p, Typed(v), p \subseteq Subnets, r.pc \in Labels \ {"create"},
         r.privs = p, r.todo = v.todo, r.new = v.new, r.cands = v.cands, NEW have, NEW list
  PROVE  Typed(r) /\ Tries(r, have, list)
  BY Zenon DEF Typed, Tries

\* The next zone is tried from the last block on.
LEMMA NextZoneTyped ==
  ASSUME ExactInv, NEW todo, NEW privs, NEW r, r = NextZone(todo, privs), NEW have,
         todo \subseteq Zones, privs \subseteq Subnets
  PROVE  Typed(r) /\ Tries(r, have, BlocksOf(cluster.vpc))
<1>1. PICK list : list = BlocksOf(cluster.vpc) BY Zenon
<1>2. buildSubnetAddress(cluster.vpc) = list /\ list \in Seq(CIDRs)
  <2>1. cluster.vpc \in Blocks /\ cluster.vpc.mask > 0
    BY ClustersAssumption, Zenon DEF ExactInv
  <2> QED BY <1>1, <2>1, Candidates, Zenon
<1>3. /\ r.pc = (IF todo = {} THEN "group" ELSE "create") /\ r.privs = privs /\ r.todo = todo /\ r.new = {}
      /\ r.cands = IF todo = {} THEN <<>> ELSE list
  BY <1>2, NextZoneFacts, SMTT(60)
<1>4. r.cands \in Seq(CIDRs) /\ (r.pc = "create" => r.cands = list)
  BY <1>2, <1>3
<1>5. r.pc \in Labels BY <1>3 DEF Labels
<1>6. Typed(r) BY <1>3, <1>4, <1>5 DEF Typed
<1>7. Len(list) \in Nat /\ Len(list) <= Len(list) /\ SubSeq(list, 1, Len(list)) = list
      /\ \A i : i \notin Len(list) + 1 .. Len(list)
  BY <1>2
<1>8. Tries(r, have, list) BY <1>4, <1>7 DEF Tries, Untried
<1> QED BY <1>1, <1>6, <1>8

\* A step that changes nothing but the worker.
LEMMA StillTracks ==
  ASSUME SubnetsInv, ExactInv, NEW k \in Kinds, NEW r, w' = [w EXCEPT ![k] = r],
         UNCHANGED <<cluster, plan, subnets, down, group, sg, trouble>>,
         Typed(r), Tries(r, subnets, BlocksOf(cluster.vpc))
  PROVE  Tracks(k, r)
<1>1. subnets \subseteq Subnets /\ sg \in {"none", "closed", "open"} /\ trouble \in 0 .. MaxTrouble
  BY WorkerTyped, Zenon
<1> QED BY <1>1, Zenon DEF Tracks

\* A step that ends the reconcile.
LEMMA RestartTracks ==
  ASSUME SubnetsInv, ExactInv, NEW k \in Kinds, w' = [w EXCEPT ![k] = Start],
         UNCHANGED <<cluster, plan, down>>, subnets' \subseteq Subnets,
         \A s \in subnets : \E t \in subnets' : t.block = s.block,
         group' = group \/ group' = [group EXCEPT ![k] = w[k].privs],
         sg' \in {"none", "closed", "open"}, Trouble \/ UNCHANGED trouble
  PROVE  Tracks(k, Start)
<1>1. trouble \in 0 .. MaxTrouble BY WorkerTyped, Zenon
<1>2. trouble' \in 0 .. MaxTrouble BY <1>1, BoundsAssumption DEF Trouble
<1>3. Typed(Start) /\ Tries(Start, subnets', BlocksOf(cluster.vpc)) BY StartTyped, Zenon
<1> QED BY <1>2, <1>3, Zenon DEF Tracks

LEMMA DescribesTrack ==
  ASSUME SubnetsInv, ExactInv, NEW k \in Kinds,
         DescribeSubnetGroups(k) \/ DescribeSecurityGroups(k)
  PROVE  \E r : Tracks(k, r)
<1>1. UNCHANGED <<cluster, plan, subnets, down, group, sg, trouble>>
  BY Zenon DEF DescribeSubnetGroups, DescribeSecurityGroups, cloud
<1>2. PICK l \in Labels \ {"create"} : Goto(k, l)
  <2>1. CASE DescribeSubnetGroups(k)
    BY <2>1 DEF DescribeSubnetGroups, Labels
  <2>2. CASE DescribeSecurityGroups(k)
    <3> DEFINE next == CASE sg = "none" -> "sg_create" [] sg = "closed" -> "sg_open" [] OTHER -> "groups"
    <3>1. Goto(k, next)
      BY <2>2, Zenon DEF DescribeSecurityGroups
    <3>2. next \in Labels \ {"create"}
      BY DEF Labels
    <3> QED BY <3>1, <3>2, Zenon
  <2> QED BY <2>1, <2>2
<1>3. CASE l = "groups"
  <2>1. w' = [w EXCEPT ![k] = Start] BY <1>2, <1>3, Zenon DEF Goto
  <2>2. Typed(Start) /\ Tries(Start, subnets, BlocksOf(cluster.vpc)) BY StartTyped, Zenon
  <2> QED BY <1>1, <2>1, <2>2, StillTracks, Zenon
<1>4. CASE l # "groups"
  <2>1. PICK r : r = [w[k] EXCEPT !.pc = l] BY Zenon
  <2>2. w' = [w EXCEPT ![k] = r] BY <1>2, <1>4, <2>1, Zenon DEF Goto
  <2>3. /\ Typed(w[k])
        /\ w[k] = [pc |-> w[k].pc, privs |-> w[k].privs, todo |-> w[k].todo, cands |-> w[k].cands,
                    new |-> w[k].new]
    BY WorkerTyped, Zenon
  <2>4. r.pc = l /\ r.privs = w[k].privs /\ r.todo = w[k].todo /\ r.new = w[k].new /\ r.cands = w[k].cands
    BY <2>1, <2>3
  <2>5. w[k].privs \subseteq Subnets BY <2>3, Zenon DEF Typed
  <2>6. Typed(r) /\ Tries(r, subnets, BlocksOf(cluster.vpc))
    BY <2>3, <2>4, <2>5, ElseTyped, Zenon
  <2> QED BY <1>1, <2>2, <2>6, StillTracks, Zenon
<1> QED BY <1>3, <1>4

LEMMA GetVPCSubnetsTracks ==
  ASSUME SubnetsInv, ExactInv, NEW k \in Kinds, GetVPCSubnets(k)
  PROVE  \E r : Tracks(k, r)
<1>1. UNCHANGED <<cluster, plan, subnets, down, group, sg, trouble>>
  BY Zenon DEF GetVPCSubnets, cloud
<1>2. PICK p : p = {s \in subnets : s.private} BY Zenon
<1>3. PICK r : r = [w[k] EXCEPT !.pc = "zones", !.privs = p] BY Zenon
<1>4. w' = [w EXCEPT ![k] = r]
  BY <1>2, <1>3, Zenon DEF GetVPCSubnets, SubnetsInv
<1>5. /\ Typed(w[k]) /\ subnets \subseteq Subnets
      /\ w[k] = [pc |-> w[k].pc, privs |-> w[k].privs, todo |-> w[k].todo, cands |-> w[k].cands,
                    new |-> w[k].new]
  BY WorkerTyped, Zenon
<1>6. r.pc = "zones" /\ r.privs = p /\ r.todo = w[k].todo /\ r.new = w[k].new /\ r.cands = w[k].cands
  BY <1>3, <1>5, ListedFacts, Zenon
<1>7. p \subseteq Subnets BY <1>2, <1>5, Zenon
<1>8. r.pc \in Labels \ {"create"} BY <1>6 DEF Labels
<1>9. Typed(r) /\ Tries(r, subnets, BlocksOf(cluster.vpc))
  BY <1>5, <1>6, <1>7, <1>8, ElseTyped, ZenonT(60)
<1> QED BY <1>1, <1>4, <1>9, StillTracks, Zenon

LEMMA getAZsTracks ==
  ASSUME SubnetsInv, ExactInv, NEW k \in Kinds, getAZs(k)
  PROVE  \E r : Tracks(k, r)
<1>1. UNCHANGED <<cluster, plan, subnets, down, group, sg, trouble>>
  BY Zenon DEF getAZs, cloud
<1>2. PICK todo : todo = {z \in Zones : ~privateSubnetExists(w[k].privs, z)} BY Zenon
<1>3. PICK r : r = NextZone(todo, w[k].privs) BY Zenon
<1>4. w' = [w EXCEPT ![k] = r] BY <1>2, <1>3, Zenon DEF getAZs
<1>5. todo \subseteq Zones BY <1>2, Zenon
<1>6. w[k].privs \subseteq Subnets BY WorkerTyped, Zenon DEF Typed
<1>7. Typed(r) /\ Tries(r, subnets, BlocksOf(cluster.vpc))
  BY <1>3, <1>5, <1>6, NextZoneTyped, ZenonT(60)
<1> QED BY <1>1, <1>4, <1>7, StillTracks, Zenon

\* A candidate that is in use is dropped.
LEMMA DroppedTries ==
  ASSUME NEW c \in Seq(CIDRs), NEW list \in Seq(CIDRs), NEW have, NEW n, n = Len(c), n > 0,
         Untried(c, have, list), Taken(have, c[n]), NEW d, d = SubSeq(c, 1, n - 1)
  PROVE  d \in Seq(CIDRs) /\ Untried(d, have, list)
<1>1. /\ n \in Nat /\ Len(list) \in Nat /\ n <= Len(list) /\ c = SubSeq(list, 1, n)
      /\ \A i \in n + 1 .. Len(list) : Taken(have, list[i])
  BY DEF Untried
<1>2. \A i \in 1 .. n : c[i] = list[i] BY <1>1
<1>3. d \in Seq(CIDRs) /\ Len(d) = n - 1 BY <1>1
<1>4. d = SubSeq(list, 1, n - 1)
  <2>1. d = [i \in 1 .. n - 1 |-> c[i]] BY <1>1
  <2>2. SubSeq(list, 1, n - 1) = [i \in 1 .. n - 1 |-> list[i]] BY <1>1
  <2>3. \A i \in 1 .. n - 1 : i \in 1 .. n BY <1>1
  <2>4. \A i \in 1 .. n - 1 : c[i] = list[i] BY <1>2, <2>3, Zenon
  <2> QED BY <2>1, <2>2, <2>4, Zenon
<1>5. ASSUME NEW i \in (n - 1) + 1 .. Len(list) PROVE Taken(have, list[i])
  <2>1. CASE i = n BY <1>1, <1>2, <2>1
  <2>2. CASE i # n BY <1>1, <2>2, i \in n + 1 .. Len(list)
  <2> QED BY <2>1, <2>2, Zenon
<1> QED BY <1>1, <1>3, <1>4, <1>5 DEF Untried

LEMMA createPrivateSubnetTracks ==
  ASSUME SubnetsInv, ExactInv, NEW k \in Kinds, createPrivateSubnet(k)
  PROVE  \E r : Tracks(k, r)
<1>1. w[k].pc = "create" /\ UNCHANGED <<cluster, plan, down, group, sg>>
  BY Zenon DEF createPrivateSubnet, At
<1>2. PICK c, n, list : c = w[k].cands /\ n = Len(c) /\ list = BlocksOf(cluster.vpc) BY Zenon
<1>3. /\ Typed(w[k]) /\ Tries(w[k], subnets, list)
      /\ w[k] = [pc |-> w[k].pc, privs |-> w[k].privs, todo |-> w[k].todo, cands |-> w[k].cands,
                    new |-> w[k].new]
      /\ subnets \subseteq Subnets /\ sg \in {"none", "closed", "open"} /\ trouble \in 0 .. MaxTrouble
      /\ cluster.vpc \in Blocks /\ cluster.vpc.mask > 0
  BY <1>2, WorkerTyped, Zenon
<1>4. list \in Seq(CIDRs) BY <1>2, <1>3, Candidates, Zenon
<1>5. c \in Seq(CIDRs) BY <1>2, <1>3, Zenon DEF Typed
<1>6. CASE Goto(k, "groups") /\ UNCHANGED <<subnets, trouble>>
  <2>1. w' = [w EXCEPT ![k] = Start] BY <1>6, Zenon DEF Goto
  <2>2. Typed(Start) /\ Tries(Start, subnets, BlocksOf(cluster.vpc)) BY StartTyped, Zenon
  <2> QED BY <1>1, <1>6, <2>1, <2>2, StillTracks, Zenon
<1>7. CASE n > 0 /\ Conflicts(c[n]) /\ w' = [w EXCEPT ![k].cands = SubSeq(c, 1, n - 1)]
           /\ UNCHANGED <<subnets, trouble>>
  <2>1. PICK d : d = SubSeq(c, 1, n - 1) BY Zenon
  <2>2. PICK r : r = [w[k] EXCEPT !.cands = d] BY Zenon
  <2>3. w' = [w EXCEPT ![k] = r] BY <1>7, <2>1, <2>2, Zenon
  <2>4. r.pc = w[k].pc /\ r.privs = w[k].privs /\ r.todo = w[k].todo /\ r.new = w[k].new /\ r.cands = d
    BY <1>3, <2>2, TriedFacts, Zenon
  <2>5. Taken(subnets, c[n]) BY <1>7, Zenon DEF Conflicts, Taken
  <2>6. Untried(c, subnets, list) BY <1>1, <1>2, <1>3, Zenon DEF Tries
  <2>7. d \in Seq(CIDRs) /\ Untried(d, subnets, list)
    BY <1>2, <1>4, <1>5, <1>7, <2>1, <2>5, <2>6, DroppedTries, ZenonT(60)
  <2>8. Typed(r) BY <1>3, <2>4, <2>7, Zenon DEF Typed
  <2>9. Tries(r, subnets, list) BY <2>4, <2>7, Zenon DEF Tries
  <2> QED BY <1>1, <1>2, <1>7, <2>3, <2>8, <2>9, StillTracks, ZenonT(60)
<1>8. CASE n > 0 /\ \E z \in w[k].todo :
               LET s == [block |-> c[n], zone |-> z, private |-> FALSE]
               IN  /\ subnets' = subnets \cup {s}
                   /\ Reply(k, [w[k] EXCEPT !.pc = "tag", !.cands = <<>>, !.new = {s}])
  <2>1. PICK z \in w[k].todo :
               LET s == [block |-> c[n], zone |-> z, private |-> FALSE]
               IN  /\ subnets' = subnets \cup {s}
                   /\ Reply(k, [w[k] EXCEPT !.pc = "tag", !.cands = <<>>, !.new = {s}])
    BY <1>8, Zenon
  <2>2. PICK s : s = [block |-> c[n], zone |-> z, private |-> FALSE] BY Zenon
  <2>3. s \in Subnets
    <3>1. c[n] \in CIDRs BY <1>2, <1>5, <1>8
    <3>2. z \in Zones BY <1>3, Zenon DEF Typed
    <3> QED BY <2>2, <3>1, <3>2 DEF Subnets
  <2>4. PICK r : r = [w[k] EXCEPT !.pc = "tag", !.cands = <<>>, !.new = {s}] BY Zenon
  <2>5. subnets' = subnets \cup {s} /\ Reply(k, r) BY <2>1, <2>2, <2>4, Zenon
  <2>6. subnets' \subseteq Subnets /\ \A x \in subnets : \E t \in subnets' : t.block = x.block
    BY <1>3, <2>3, <2>5, Zenon
  <2>7. CASE w' = [w EXCEPT ![k] = Start] /\ Trouble
    <3>1. Tracks(k, Start) BY <1>1, <1>3, <2>6, <2>7, RestartTracks, ZenonT(60)
    <3> QED BY <3>1, Zenon
  <2>8. CASE w' = [w EXCEPT ![k] = r] /\ UNCHANGED trouble
    <3>1. r.pc = "tag" /\ r.privs = w[k].privs /\ r.todo = w[k].todo /\ r.new = {s} /\ r.cands = <<>>
      BY <1>3, <2>4, CreatedFacts, Zenon
    <3>2. <<>> \in Seq(CIDRs) /\ "tag" \in Labels /\ "tag" # "create" BY DEF Labels
    <3>3. Typed(r) /\ Tries(r, subnets', BlocksOf(cluster.vpc))
      BY <1>3, <2>3, <3>1, <3>2, Zenon DEF Typed, Tries
    <3>4. Tracks(k, r) BY <1>1, <1>3, <2>6, <2>8, <3>3, ZenonT(60) DEF Tracks
    <3> QED BY <3>4, Zenon
  <2> QED BY <2>5, <2>7, <2>8, Zenon DEF Reply
<1> QED BY <1>2, <1>6, <1>7, <1>8, ZenonT(60) DEF createPrivateSubnet

LEMMA tagPrivateSubnetTracks ==
  ASSUME SubnetsInv, ExactInv, NEW k \in Kinds, tagPrivateSubnet(k)
  PROVE  \E r : Tracks(k, r)
<1>1. UNCHANGED <<cluster, plan, down, group, sg>>
  BY Zenon DEF tagPrivateSubnet
<1>2. PICK new, tagged : new = w[k].new /\ tagged = {[s EXCEPT !.private = TRUE] : s \in new} BY Zenon
<1>3. PICK todo, privs : /\ todo = w[k].todo \ {s.zone : s \in tagged}
                         /\ privs = w[k].privs \cup tagged
  BY Zenon
<1>4. subnets' = (subnets \ new) \cup tagged /\ Reply(k, NextZone(todo, privs))
  BY <1>2, <1>3, Zenon DEF tagPrivateSubnet
<1>5. /\ Typed(w[k]) /\ subnets \subseteq Subnets
      /\ sg \in {"none", "closed", "open"} /\ trouble \in 0 .. MaxTrouble
  BY WorkerTyped, Zenon
<1>6. \A s \in Subnets : [s EXCEPT !.private = TRUE] \in Subnets /\ [s EXCEPT !.private = TRUE].block = s.block
  BY Zenon DEF Subnets
<1>7. new \subseteq Subnets /\ w[k].privs \subseteq Subnets /\ w[k].todo \subseteq Zones
  BY <1>2, <1>5, Zenon DEF Typed
<1>8. tagged \subseteq Subnets /\ todo \subseteq Zones /\ privs \subseteq Subnets
  BY <1>2, <1>3, <1>6, <1>7, Zenon
<1>9. subnets' \subseteq Subnets /\ \A s \in subnets : \E t \in subnets' : t.block = s.block
  BY <1>2, <1>4, <1>5, <1>6, <1>7, <1>8, Zenon
<1>10. CASE w' = [w EXCEPT ![k] = Start] /\ Trouble
  <2>1. Tracks(k, Start) BY <1>1, <1>5, <1>9, <1>10, RestartTracks, Zenon
  <2> QED BY <2>1, Zenon
<1>11. CASE w' = [w EXCEPT ![k] = NextZone(todo, privs)] /\ UNCHANGED trouble
  <2>1. PICK r : r = NextZone(todo, privs) BY Zenon
  <2>2. Typed(r) /\ Tries(r, subnets', BlocksOf(cluster.vpc))
    BY <1>8, <2>1, NextZoneTyped, Zenon
  <2>3. Tracks(k, r) BY <1>1, <1>5, <1>9, <1>11, <2>1, <2>2, ZenonT(60) DEF Tracks
  <2> QED BY <2>3, Zenon
<1> QED BY <1>4, <1>10, <1>11, Zenon DEF Reply

LEMMA CreateSubnetGroupTracks ==
  ASSUME SubnetsInv, ExactInv, NEW k \in Kinds, CreateSubnetGroup(k)
  PROVE  \E r : Tracks(k, r)
<1>1. /\ UNCHANGED <<cluster, plan, subnets, down, sg>>
      /\ group' = [group EXCEPT ![k] = w[k].privs] /\ Reply(k, [Start EXCEPT !.pc = "sg"])
  BY Zenon DEF CreateSubnetGroup
<1>2. subnets \subseteq Subnets /\ sg \in {"none", "closed", "open"} /\ trouble \in 0 .. MaxTrouble
  BY WorkerTyped, Zenon
<1>3. CASE w' = [w EXCEPT ![k] = Start] /\ Trouble
  <2>1. Tracks(k, Start) BY <1>1, <1>2, <1>3, RestartTracks, Zenon
  <2> QED BY <2>1, Zenon
<1>4. CASE w' = [w EXCEPT ![k] = [Start EXCEPT !.pc = "sg"]] /\ UNCHANGED trouble
  <2>1. PICK r : r = [Start EXCEPT !.pc = "sg"] BY Zenon
  <2>2. r.pc = "sg" /\ r.privs = {} /\ r.todo = {} /\ r.new = {} /\ r.cands = <<>>
    BY <2>1, Zenon DEF Start
  <2>3. <<>> \in Seq(CIDRs) /\ "sg" \in Labels /\ "sg" # "create" BY DEF Labels
  <2>4. Typed(r) /\ Tries(r, subnets', BlocksOf(cluster.vpc))
    BY <2>2, <2>3, Zenon DEF Typed, Tries
  <2>5. Tracks(k, r) BY <1>1, <1>2, <1>4, <2>1, <2>4, Zenon DEF Tracks
  <2> QED BY <2>5, Zenon
<1> QED BY <1>1, <1>3, <1>4, Zenon DEF Reply

LEMMA EndsTrack ==
  ASSUME SubnetsInv, ExactInv, NEW k \in Kinds,
         CreateSecurityGroup(k) \/ AuthorizeIngress(k) \/ CallFails(k)
  PROVE  \E r : Tracks(k, r)
<1>1. /\ UNCHANGED <<cluster, plan, subnets, down, group>> /\ (Trouble \/ UNCHANGED trouble)
      /\ Goto(k, "groups") /\ (sg' = sg \/ sg' = "closed" \/ sg' = "open")
  BY Zenon DEF CreateSecurityGroup, AuthorizeIngress, CallFails, cloud
<1>2. w' = [w EXCEPT ![k] = Start] BY <1>1, Zenon DEF Goto
<1>3. subnets \subseteq Subnets /\ sg \in {"none", "closed", "open"}
  BY WorkerTyped, Zenon
<1>4. Tracks(k, Start) BY <1>1, <1>2, <1>3, RestartTracks, Zenon
<1> QED BY <1>4, Zenon

LEMMA WorkerTracks ==
  ASSUME SubnetsInv, ExactInv, NEW k \in Kinds, Worker(k) \/ CallFails(k)
  PROVE  \E r : Tracks(k, r)
  BY DescribesTrack, GetVPCSubnetsTracks, getAZsTracks, createPrivateSubnetTracks,
     tagPrivateSubnetTracks, CreateSubnetGroupTracks, EndsTrack, ZenonT(60) DEF Worker

\* What is taken stays taken, also for the other worker.
LEMMA TracksKeep ==
  ASSUME SubnetsInv, ExactInv, NEW k \in Kinds, NEW r, Tracks(k, r)
  PROVE  ExactInv'
<1>1. /\ UNCHANGED <<cluster, plan, down>> /\ subnets' \subseteq Subnets
      /\ sg' \in {"none", "closed", "open"} /\ trouble' \in 0 .. MaxTrouble
      /\ Typed(r) /\ Tries(r, subnets', BlocksOf(cluster.vpc))
      /\ \A s \in subnets : \E t \in subnets' : t.block = s.block
  BY Zenon DEF Tracks
<1>2. w' = [j \in Kinds |-> w'[j]] /\ w'[k] = r /\ \A j \in Kinds : j # k => w'[j] = w[j]
  <2>1. w = [j \in Kinds |-> w[j]] /\ w' = [w EXCEPT ![k] = r]
    BY Zenon DEF SubnetsInv, Tracks
  <2> QED BY <2>1, ExceptFacts, Zenon
<1>3. \A j \in Kinds : group'[j] = group[j] \/ (j = k /\ group'[j] = w[k].privs)
  <2>1. group = [j \in Kinds |-> group[j]] BY Zenon DEF SubnetsInv
  <2>2. CASE group' = group BY <2>2, Zenon
  <2>3. CASE group' = [group EXCEPT ![k] = w[k].privs]
    BY <2>1, <2>3, ExceptFacts, Zenon
  <2> QED BY <2>2, <2>3, Zenon DEF Tracks
<1>4. \A j \in Kinds : Typed(w[j]) /\ Tries(w[j], subnets, BlocksOf(cluster.vpc))
  BY WorkerTyped, Zenon
<1>5. \A j \in Kinds : Typed(w'[j]) BY <1>1, <1>2, <1>4, Zenon
<1>6. \A j \in Kinds : group'[j] \subseteq Subnets
  BY <1>3, <1>4, Zenon DEF Typed, ExactInv, TypeOK
<1>7. \A b : Taken(subnets, b) => Taken(subnets', b)
  BY <1>1, Zenon DEF Taken
<1>8. ASSUME NEW j \in Kinds PROVE Tries(w'[j], subnets', BlocksOf(cluster.vpc))
  <2>1. CASE j = k BY <1>1, <1>2, <2>1, Zenon
  <2>2. CASE j # k
    <3>1. Tries(w[j], subnets', BlocksOf(cluster.vpc)) BY <1>4, <1>7, Zenon DEF Tries, Untried
    <3> QED BY <1>2, <2>2, <3>1, Zenon
  <2> QED BY <2>1, <2>2
<1>9. TypeOK'
  <2>1. plan \in CIDRs \cup {None, Error, [ip |-> None.ip, mask |-> GCPMask]} /\ down \subseteq Zones
    BY Zenon DEF ExactInv, TypeOK
  <2> QED BY <1>1, <1>5, <1>6, <2>1, ZenonT(60) DEF TypeOK, Typed
<1>10. Halved' BY <1>1, Zenon DEF ExactInv, Halved
<1>11. cluster' \in Clusters /\ BlocksOf(cluster.vpc)' = BlocksOf(cluster.vpc)
  BY <1>1, Zenon DEF ExactInv
<1> QED BY <1>8, <1>9, <1>10, <1>11, Zenon DEF ExactInv

\* A mask that is admitted for a VPC leaves room for subnets.
LEMMA AdmittedMask ==
  ASSUME NEW m \in Nat, MinMask <= m, m <= DefaultMask
  PROVE  m > 0 /\ m < SubnetMask
BY MasksAssumption

\* What is planned, in a mode of its own.
LEMMA PlanFacts ==
  ASSUME ExactInv, PlanNetwork
  PROVE  /\ plan' \in CIDRs \cup {None, Error, [ip |-> None.ip, mask |-> GCPMask]}
         /\ cluster.mode = "standalone" /\ plan' \in CIDRs =>
              plan' \in Blocks /\ plan'.mask > 0 /\ plan'.mask < SubnetMask
<1>1. PICK b, d : /\ b = ReconcileNetworkProviderConfig
                  /\ d = getNonOverlappingDefaultCIDR(cluster.vpc, cluster.pods, cluster.services)
  BY Zenon
<1>2. cluster.config \in Blocks \cup {None} /\ cluster.mode \in {"bundled", "standalone", "gcp"}
  BY ClustersAssumption, Zenon DEF ExactInv
<1>3. d = Error \/ d \in Blocks BY <1>1, DefaultClear, Zenon
<1>4. b = IF cluster.config # None THEN cluster.config
          ELSE IF cluster.mode = "gcp" THEN [ip |-> None.ip, mask |-> GCPMask] ELSE d
  BY <1>1, Zenon DEF ReconcileNetworkProviderConfig
<1>5. Blocks \subseteq CIDRs BY Zenon DEF Blocks
<1>6. b \in CIDRs \cup {None, Error, [ip |-> None.ip, mask |-> GCPMask]}
  BY <1>2, <1>3, <1>4, <1>5, Zenon
<1>7. plan' = b \/ plan' = Error
  BY <1>1, Zenon DEF PlanNetwork
<1>8. ASSUME cluster.mode = "standalone", plan' \in CIDRs
      PROVE  plan' \in Blocks /\ plan'.mask > 0 /\ plan'.mask < SubnetMask
  <2>1. b # Error /\ validateStandaloneCidrBlock(b, cluster.vpc) /\ plan' = b
    BY <1>1, <1>8, NoBlock, ZenonT(60) DEF PlanNetwork
  <2>2. b \in Blocks BY <1>2, <1>3, <1>4, <1>8, <2>1, ZenonT(60)
  <2>3. MinMask <= b.mask /\ b.mask <= DefaultMask
    BY <2>1, Zenon DEF validateStandaloneCidrBlock, isValidCIDRRange
  <2>4. b.mask \in Nat BY <2>2, BlockType
  <2>5. b.mask > 0 /\ b.mask < SubnetMask BY <2>3, <2>4, AdmittedMask, Zenon
  <2> QED BY <2>1, <2>2, <2>5, Zenon
<1> QED BY <1>6, <1>7, <1>8, ZenonT(60)

LEMMA ExactInit ==
  ASSUME Init
  PROVE  ExactInv
<1>1. /\ cluster \in Clusters /\ plan = None /\ subnets = cluster.subnets /\ down = {} /\ trouble = 0
      /\ sg = "none" /\ w = [k \in Kinds |-> Start] /\ group = [k \in Kinds |-> {}]
  BY Zenon DEF Init
<1>2. \A k \in Kinds : w[k] = Start /\ group[k] = {} BY <1>1, Zenon
<1>3. \A k \in Kinds : Typed(w[k]) /\ Tries(w[k], subnets, BlocksOf(cluster.vpc))
  BY <1>2, StartTyped, Zenon
<1>4. subnets \subseteq Subnets
  <2>1. subnets \subseteq [block : Blocks, zone : Zones, private : BOOLEAN]
    BY <1>1, ClustersAssumption, Zenon
  <2> QED BY <2>1 DEF Subnets, Blocks
<1>5. trouble \in 0 .. MaxTrouble BY <1>1, BoundsAssumption
<1>6. TypeOK BY <1>1, <1>2, <1>3, <1>4, <1>5, ZenonT(60) DEF TypeOK, Typed
<1>7. Halved BY <1>1, NoBlock, Zenon DEF Halved
<1> QED BY <1>1, <1>3, <1>6, <1>7, Zenon DEF ExactInv

LEMMA ExactStep ==
  ASSUME SubnetsInv, ExactInv, [Next]_vars
  PROVE  ExactInv'
<1>1. CASE \E k \in Kinds : Worker(k) \/ CallFails(k)
  BY <1>1, WorkerTracks, TracksKeep, Zenon
<1>2. CASE ZoneChanges
  <2>1. UNCHANGED <<cluster, plan, subnets, group, sg, w>> BY <1>2, Zenon DEF ZoneChanges
  <2>2. down' \subseteq Zones /\ trouble' \in 0 .. MaxTrouble
    <3>1. down \subseteq Zones /\ trouble \in 0 .. MaxTrouble BY Zenon DEF ExactInv, TypeOK
    <3> QED BY <1>2, <3>1, BoundsAssumption DEF ZoneChanges, Trouble
  <2>3. TypeOK' BY <2>1, <2>2, Zenon DEF ExactInv, TypeOK
  <2>4. Halved' BY <2>1, Zenon DEF ExactInv, Halved
  <2>5. \A k \in Kinds : Tries(w'[k], subnets', BlocksOf(cluster'.vpc))
    BY <2>1, Zenon DEF ExactInv
  <2> QED BY <2>1, <2>3, <2>4, <2>5, Zenon DEF ExactInv
<1>3. CASE PlanNetwork
  <2>1. UNCHANGED <<cluster, subnets, down, group, sg, w, trouble>> BY <1>3, Zenon DEF PlanNetwork, cloud
  <2>2. /\ plan' \in CIDRs \cup {None, Error, [ip |-> None.ip, mask |-> GCPMask]}
        /\ cluster.mode = "standalone" /\ plan' \in CIDRs =>
             plan' \in Blocks /\ plan'.mask > 0 /\ plan'.mask < SubnetMask
    BY <1>3, PlanFacts, Zenon
  <2>3. TypeOK' BY <2>1, <2>2, Zenon DEF ExactInv, TypeOK
  <2>4. Halved'
    <3>1. PICK p : p = plan' BY Zenon
    <3>2. ASSUME cluster.mode = "standalone", p \in CIDRs
          PROVE  LET nets == StandaloneSubnets(p)
                 IN  /\ Len(nets) = 2 /\ Disjoint(nets[1], nets[2])
                     /\ Span(nets[1]) \cup Span(nets[2]) = Span(p)
      BY <2>2, <3>1, <3>2, TwoHalves, Zenon
    <3> QED BY <2>1, <3>1, <3>2, Zenon DEF Halved
  <2>5. \A k \in Kinds : Tries(w'[k], subnets', BlocksOf(cluster'.vpc))
    BY <2>1, Zenon DEF ExactInv
  <2> QED BY <2>1, <2>3, <2>4, <2>5, Zenon DEF ExactInv
<1>4. CASE UNCHANGED vars
  <2>1. UNCHANGED <<cluster, plan, subnets, down, group, sg, w, trouble>> BY <1>4, Zenon DEF vars, cloud
  <2>2. TypeOK' BY <2>1, Zenon DEF ExactInv, TypeOK
  <2>3. Halved' BY <2>1, Zenon DEF ExactInv, Halved
  <2>4. \A k \in Kinds : Tries(w'[k], subnets', BlocksOf(cluster'.vpc))
    BY <2>1, Zenon DEF ExactInv
  <2> QED BY <2>1, <2>2, <2>3, <2>4, Zenon DEF ExactInv
<1> QED BY <1>1, <1>2, <1>3, <1>4, ZenonT(60) DEF Next

\* aws/cluster_vpc.go:222-258, 318-401, aws/cluster_network_provider.go:1042-1058:
\* in a VPC of any size, anywhere in the address space, both controllers try
\* the blocks of subnet size from the last to the first and pass over none
\* that is free, and a planned block of any admitted size falls into two
\* halves.
THEOREM SubnetsAlwaysExact == Spec => []SubnetsExact
<1>1. Init => SubnetsInv /\ ExactInv
  BY SubnetsInit, ExactInit
<1>2. ASSUME SubnetsInv /\ SpareInv, SubnetsInv /\ ExactInv, [Next]_vars PROVE (SubnetsInv /\ ExactInv)'
  BY <1>2, SubnetsStep, ExactStep
<1>3. ASSUME ExactInv PROVE SubnetsExact
  <2>1. BlocksOf(cluster.vpc) = SubnetBlocks BY Zenon DEF BlocksOf, SubnetBlocks
  <2>2. \A k \in Kinds : Tries(w[k], subnets, SubnetBlocks) BY <1>3, <2>1, Zenon DEF ExactInv
  <2>3. \A b : Taken(subnets, b) <=> Conflicts(b) BY Zenon DEF Taken, Conflicts
  <2> QED BY <1>3, <2>2, <2>3, Zenon DEF ExactInv, SubnetsExact, Tries, Untried
<1> QED BY <1>1, <1>2, <1>3, SubnetsInvariance, PTL DEF Spec
============================================================================
