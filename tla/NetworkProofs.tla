--------------------------- MODULE NetworkProofs ---------------------------
(***************************************************************************)
(* The receive rings, the devices, the DHCP, BOOTP and NFS clients, PING,  *)
(* CDP and SNTP, for every number of devices, slots, frames, servers,      *)
(* options and files; and the commands of the network together.            *)
(***************************************************************************)
EXTENDS MCNetwork, FiniteSetTheorems, SequenceTheorems, WellFoundedInduction, TLAPS

-----------------------------------------------------------------------------
(* Induction with a set in the place of a formula: the least number of     *)
(* what is left out has no predecessor there.                              *)

LEMMA LeastNumber ==
    ASSUME NEW T \in SUBSET Nat, T # {}
    PROVE  \E x \in T : \A y \in T : x <= y
<1> DEFINE Less == {ss \in Nat \X Nat : ss[1] < ss[2]}
<1>1. IsWellFoundedOn(Less, Nat)
    BY NatLessThanWellFounded DEF OpToRel
<1>2. PICK x \in T : \A y \in T : ~(<<y, x>> \in Less)
    BY <1>1, WFMin
<1>3. \A y \in T : <<y, x>> \in Less <=> y < x
    BY <1>2
<1>4. x \in Nat /\ T \subseteq Nat
    BY <1>2
<1> HIDE DEF Less
<1>5. \A y \in T : ~(y < x)
    BY <1>2, <1>3
<1> QED
    BY <1>4, <1>5

LEMMA SetInduction ==
    ASSUME NEW S, 0 \in S, \A n \in Nat : n \in S => n + 1 \in S
    PROVE  Nat \subseteq S
<1>1. SUFFICES ASSUME Nat \ S # {} PROVE FALSE
    OBVIOUS
<1>2. PICK x \in Nat \ S : \A y \in Nat \ S : x <= y
    BY <1>1, LeastNumber
<1>3. x # 0 /\ x - 1 \in Nat
    BY <1>2
<1>4. x - 1 \in S
    BY <1>2, <1>3
<1>5. (x - 1) + 1 = x
    BY <1>2
<1> QED
    BY <1>2, <1>3, <1>4, <1>5

LEMMA ModOfSum ==
    ASSUME NEW n \in Nat \ {0}, NEW x \in Nat, x < n + n
    PROVE  x % n = IF x < n THEN x ELSE x - n
<1>1. CASE x < n
    BY <1>1
<1>2. CASE x >= n
    BY <1>2
<1> QED
    BY <1>1, <1>2

-----------------------------------------------------------------------------
(* The list of the devices is a ring, and a walk goes round it.            *)

RingOf(n) == [first |-> IF n = 0 THEN NoDevice ELSE 0,
              next |-> [d \in 0 .. n - 1 |-> IF d = n - 1 THEN 0 ELSE d + 1]]

LEMMA RegisterRing ==
    ASSUME NEW n \in Nat
    PROVE  eth_register(RingOf(n), n) = RingOf(n + 1)
<1>1. CASE n = 0
    <2>1. 0 .. n = {n} /\ [d \in 0 .. n |-> IF d = n THEN 0 ELSE d + 1] = [d \in {n} |-> n]
        BY <1>1
    <2> QED
        BY <1>1, <2>1 DEF eth_register, RingOf, NoDevice
<1>2. CASE n # 0
    <2>1. eth_register(RingOf(n), n).first = 0
        BY <1>2 DEF eth_register, RingOf, NoDevice
    <2>2. {n} \cup (0 .. n - 1) = 0 .. n
        BY <1>2
    <2>3. eth_register(RingOf(n), n).next = [d \in 0 .. n |-> IF d = n THEN 0 ELSE d + 1]
        BY <1>2, <2>2 DEF eth_register, RingOf, NoDevice
    <2>4. eth_register(RingOf(n), n) = [first |-> eth_register(RingOf(n), n).first,
                                        next |-> eth_register(RingOf(n), n).next]
        BY <1>2 DEF eth_register, RingOf, NoDevice
    <2>5. RingOf(n + 1) = [first |-> 0, next |-> [d \in 0 .. n |-> IF d = n THEN 0 ELSE d + 1]]
        BY DEF RingOf
    <2> QED
        BY <2>1, <2>3, <2>4, <2>5
<1> QED
    BY <1>1, <1>2

LEMMA RegisteredIs == Registered = [n \in 0 .. EthDevices |-> RingOf(n)]
<1> DEFINE F == [n \in 0 .. EthDevices |-> RingOf(n)]
           Body(f) == [n \in 0 .. EthDevices |->
                          IF n = 0 THEN [first |-> NoDevice, next |-> <<>>]
                          ELSE eth_register(f[n - 1], n - 1)]
<1>1. F = Body(F)
    <2>1. RingOf(0) = [first |-> NoDevice, next |-> <<>>]
        <3>1. 0 .. (0 - 1) = {} /\ [d \in {} |-> IF d = 0 - 1 THEN 0 ELSE d + 1] = <<>>
            OBVIOUS
        <3> QED
            BY <3>1 DEF RingOf
    <2>2. ASSUME NEW n \in 0 .. EthDevices, n # 0
          PROVE  F[n] = eth_register(F[n - 1], n - 1)
        <3>1. n - 1 \in 0 .. EthDevices /\ n - 1 \in Nat /\ (n - 1) + 1 = n
            BY <2>2, EthAssumption
        <3>2. RingOf(n) = eth_register(RingOf(n - 1), n - 1)
            BY <3>1, RegisterRing
        <3> QED
            BY <3>1, <3>2
    <2> QED
        BY <2>1, <2>2
<1>2. ASSUME NEW f, f = Body(f) PROVE f = F
    <2> DEFINE S == {n \in Nat : n \in 0 .. EthDevices => f[n] = F[n]}
    <2>1. f = [n \in 0 .. EthDevices |-> f[n]]
        BY <1>2
    <2>2. 0 \in S
        BY <1>1, <1>2
    <2>3. ASSUME NEW n \in Nat, n \in S PROVE n + 1 \in S
        <3>1. SUFFICES ASSUME n + 1 \in 0 .. EthDevices PROVE f[n + 1] = F[n + 1]
            OBVIOUS
        <3>2. n \in 0 .. EthDevices /\ (n + 1) - 1 = n /\ n + 1 # 0
            BY <3>1, EthAssumption
        <3>3. f[n] = F[n]
            BY <2>3, <3>2
        <3> HIDE DEF F
        <3> QED
            BY <1>1, <1>2, <3>1, <3>2, <3>3
    <2> HIDE DEF S
    <2>4. Nat \subseteq S
        BY <2>2, <2>3, SetInduction
    <2> USE DEF S
    <2>5. ASSUME NEW n \in 0 .. EthDevices PROVE f[n] = F[n]
        <3> HIDE DEF F
        <3> QED
            BY <2>4, EthAssumption
    <2> QED
        BY <2>1, <2>5
<1>3. Registered = CHOOSE f : f = Body(f)
    BY DEF Registered
<1> HIDE DEF F, Body
<1>4. Registered = F
    BY <1>1, <1>2, <1>3
<1> QED
    BY <1>4 DEF F

LEMMA EthListIs ==
    /\ EthList.first = 0
    /\ EthList.next = [d \in Devs |-> IF d = EthDevices - 1 THEN 0 ELSE d + 1]
<1>1. EthDevices \in 0 .. EthDevices /\ EthDevices # 0
    BY EthAssumption
<1>2. EthList = RingOf(EthDevices)
    BY <1>1, RegisteredIs DEF EthList
<1> QED
    BY <1>1, <1>2 DEF RingOf, Devs

Round(x) == IF x < EthDevices THEN x ELSE x - EthDevices

LEMMA WalkIs ==
    ASSUME NEW c \in Devs, NEW k \in 0 .. EthDevices
    PROVE  Walk(c, k) = Round(c + k)
<1> DEFINE F == [i \in 0 .. k |-> Round(c + i)]
           Body(f) == [i \in 0 .. k |-> IF i = 0 THEN c ELSE EthList.next[f[i - 1]]]
<1>0. k \in Nat /\ c \in Nat /\ EthDevices \in Nat \ {0} /\ c < EthDevices
    BY EthAssumption DEF Devs
<1>1. F = Body(F)
    <2>1. F[0] = c
        BY <1>0 DEF Round
    <2>2. ASSUME NEW i \in 0 .. k, i # 0 PROVE F[i] = EthList.next[F[i - 1]]
        BY <1>0, <2>2, EthListIs DEF Round, Devs
    <2> QED
        BY <2>1, <2>2
<1>2. ASSUME NEW f, f = Body(f) PROVE f = F
    <2> DEFINE S == {n \in Nat : n \in 0 .. k => f[n] = F[n]}
    <2>1. f = [n \in 0 .. k |-> f[n]]
        BY <1>2
    <2>2. 0 \in S
        BY <1>1, <1>2
    <2>3. ASSUME NEW n \in Nat, n \in S PROVE n + 1 \in S
        <3>1. SUFFICES ASSUME n + 1 \in 0 .. k PROVE f[n + 1] = F[n + 1]
            OBVIOUS
        <3>2. n \in 0 .. k /\ (n + 1) - 1 = n /\ n + 1 # 0
            BY <3>1, <1>0
        <3>3. f[n] = F[n]
            BY <2>3, <3>2
        <3> HIDE DEF F
        <3> QED
            BY <1>1, <1>2, <3>1, <3>2, <3>3
    <2> HIDE DEF S
    <2>4. Nat \subseteq S
        BY <2>2, <2>3, SetInduction
    <2> USE DEF S
    <2>5. ASSUME NEW n \in 0 .. k PROVE f[n] = F[n]
        <3> HIDE DEF F
        <3> QED
            BY <2>4, <1>0
    <2> QED
        BY <2>1, <2>5
<1>3. Walk(c, k) = (CHOOSE f : f = Body(f))[k]
    BY DEF Walk
<1> HIDE DEF F, Body
<1>4. (CHOOSE f : f = Body(f)) = F
    BY <1>1, <1>2
<1>5. F[k] = Round(c + k)
    BY <1>0 DEF F
<1> QED
    BY <1>3, <1>4, <1>5

(* A walk from any device finds the device of a name, if there is one.     *)
LEMMA FoundIs ==
    ASSUME NEW d \in Devs, NEW name \in Devs \cup {EthDevices}
    PROVE  Found(d, name) = IF name \in Devs THEN name ELSE NoDevice
<1> DEFINE S == {k \in 0 .. EthDevices - 1 : Walk(d, k) = name /\ \A j \in 1 .. k : Walk(d, j) # d}
           Nearest == CHOOSE k \in S : \A j \in S : k <= j
<1>1. EthDevices \in Nat \ {0} /\ d \in Nat /\ d < EthDevices /\ name \in Nat
    BY EthAssumption DEF Devs
<1>2. \A k \in 0 .. EthDevices - 1 : Walk(d, k) = Round(d + k) /\ Round(d + k) \in Devs
    BY <1>1, WalkIs DEF Round, Devs
<1>3. Found(d, name) = IF S = {} THEN NoDevice ELSE Walk(d, Nearest)
    BY DEF Found
<1>4. CASE name \notin Devs
    <2>1. S = {}
        BY <1>2, <1>4
    <2> QED
        BY <1>3, <1>4, <2>1
<1>5. CASE name \in Devs
    <2> DEFINE n == IF name >= d THEN name - d ELSE (name - d) + EthDevices
    <2>1. n \in 0 .. EthDevices - 1 /\ Round(d + n) = name /\ \A j \in 1 .. n : Round(d + j) # d
        BY <1>1, <1>5 DEF Round, Devs
    <2>2. n \in S
        <3> HIDE DEF n
        <3>1. \A j \in 1 .. n : j \in 0 .. EthDevices - 1
            BY <1>1, <2>1
        <3> QED
            BY <1>2, <2>1, <3>1
    <2>3. S \in SUBSET Nat
        BY <1>1
    <2> HIDE DEF S
    <2>4. Nearest \in S
        BY <2>2, <2>3, LeastNumber
    <2> USE DEF S
    <2>5. Walk(d, Nearest) = name
        BY <2>4
    <2> QED
        BY <1>3, <1>5, <2>2, <2>5
<1> QED
    BY <1>4, <1>5

LEMMA AddressOfIndex ==
    /\ \A c \in Devs : AddressOf(eth_get_dev_index(c)) = c
    /\ AddressOf(EthDevices) = NoDevice
<1>1. EthDevices \in Nat \ {0} /\ 0 \in Devs /\ EthList.first = 0
    BY EthAssumption, EthListIs DEF Devs
<1>2. \A k \in 0 .. EthDevices : Walk(0, k) = IF k = EthDevices THEN 0 ELSE k
    BY <1>1, WalkIs DEF Round
<1>3. ASSUME NEW c \in Devs PROVE AddressOf(eth_get_dev_index(c)) = c
    <2>1. c \in 0 .. EthDevices - 1 /\ \A n \in 0 .. EthDevices - 1 : n \in 0 .. EthDevices /\ n # EthDevices
        BY <1>1 DEF Devs
    <2>2. \A n \in 0 .. EthDevices - 1 : Walk(0, n) = n
        BY <1>2, <2>1
    <2>3. \A j \in 0 .. c - 1 : j \in 0 .. EthDevices - 1 /\ j # c
        BY <1>1, <2>1
    <2>4. \A n \in 0 .. EthDevices - 1 :
              (Walk(0, n) = c /\ \A j \in 0 .. n - 1 : Walk(0, j) # c) <=> n = c
        BY <2>1, <2>2, <2>3
    <2>5. eth_get_dev_index(c) = c
        BY <1>1, <2>1, <2>4 DEF eth_get_dev_index
    <2>6. \A j \in 1 .. c : j \in 0 .. EthDevices - 1 /\ j # 0
        BY <1>1, <2>1
    <2> QED
        BY <1>1, <2>1, <2>2, <2>5, <2>6 DEF AddressOf
<1>4. AddressOf(EthDevices) = NoDevice
    <2>1. EthDevices \in 1 .. EthDevices /\ EthDevices \in 0 .. EthDevices
        BY <1>1
    <2> QED
        BY <1>1, <1>2, <2>1 DEF AddressOf
<1> QED
    BY <1>3, <1>4

LEMMA DevicesFound == ethact = current /\ current \in Devs => DevicesAreFound
<1>1. 0 \in Devs /\ EthList.first = 0 /\ NoDevice \notin Devs /\ EthDevices \notin Devs
    BY EthAssumption, EthListIs DEF Devs, NoDevice
<1>2. ASSUME current \in Devs, NEW act \in Devs \cup {EthDevices}
      PROVE  LET r == eth_set_current(current, act) IN
             r.act = r.current /\ r.current = IF act \in Devs THEN act ELSE current
    BY <1>1, <1>2, FoundIs DEF eth_set_current
<1>3. \A name \in Devs \cup {EthDevices} :
          /\ eth_get_dev_by_name(name) = IF name \in Devs THEN name ELSE NoDevice
          /\ eth_initialize(name) = IF name \in Devs THEN name ELSE EthList.first
    BY <1>1, FoundIs DEF eth_get_dev_by_name, eth_initialize
<1> QED
    BY <1>2, <1>3, AddressOfIndex DEF DevicesAreFound

-----------------------------------------------------------------------------
(* eth_init: with a link anywhere it finds a device.                       *)

Linked == \E d \in Devs : linkUp[d]

LEMMA InitFinds ==
    ASSUME NEW c \in Devs, Linked
    PROVE  Candidates(c) # {} /\ InitDevice(c) \in Devs
<1>1. EthDevices \in Nat \ {0} /\ c \in Nat /\ c < EthDevices
    BY EthAssumption DEF Devs
<1>2. \A k \in 0 .. EthDevices - 1 : Walk(c, k) = Round(c + k) /\ Round(c + k) \in Devs
    BY <1>1, WalkIs DEF Round, Devs
<1>3. PICK d \in Devs : linkUp[d]
    BY DEF Linked
<1>4. PICK k \in 0 .. EthDevices - 1 : Round(c + k) = d
    <2>1. (IF d >= c THEN d - c ELSE (d - c) + EthDevices) \in 0 .. EthDevices - 1
        BY <1>1 DEF Devs
    <2>2. Round(c + (IF d >= c THEN d - c ELSE (d - c) + EthDevices)) = d
        BY <1>1 DEF Devs, Round
    <2> QED
        BY <2>1, <2>2
<1>5. k \in Candidates(c)
    BY <1>2, <1>3, <1>4 DEF Candidates
<1>6. Candidates(c) \in SUBSET Nat
    BY <1>1 DEF Candidates
<1>7. (CHOOSE m \in Candidates(c) : \A j \in Candidates(c) : m <= j) \in Candidates(c)
    BY <1>5, <1>6, LeastNumber
<1> QED
    BY <1>2, <1>5, <1>7 DEF InitDevice, Candidates

LEMMA StartIsFirst == current \in Devs => StartDevice = 0 /\ StartDevice \in Devs
BY FoundIs, EthAssumption DEF StartDevice, eth_set_current, Devs, NoDevice

LEMMA NextInRing == current \in Devs => EthList.next[current] \in Devs
BY EthListIs, EthAssumption DEF Devs

-----------------------------------------------------------------------------
(* One ring: k slots from next_rx on are the program's, the others the     *)
(* engine's, and the engine fills the one behind them.                     *)

Wrap(x) == IF x < RxSlots THEN x ELSE x - RxSlots
Ahead(s, n) == IF s >= n THEN s - n ELSE (s - n) + RxSlots

InStepBy(r, k) ==
    Wrap(r.next + k) = r.pos /\ \A s \in Slots : r.owner[s] = "cpu" <=> Ahead(s, r.next) < k

InStep(r) == \E k \in 0 .. RxSlots : InStepBy(r, k)

RingType == [owner : [Slots -> {"dma", "cpu"}], described : [Slots -> 0 .. MaxFrames],
             next : Slots, pos : Slots, on : BOOLEAN]

LEMMA RxIs == RxSlots \in Nat \ {0} /\ MaxFrames \in Nat /\ 0 \in Slots /\ 0 \in 0 .. RxSlots
BY EthAssumption DEF Slots

LEMMA AfterIs ==
    ASSUME NEW i \in Slots
    PROVE  After(i, RxSlots) = NextSlot(i) /\ NextSlot(i) \in Slots
<1>1. i + 1 \in Nat /\ i + 1 < RxSlots + RxSlots /\ i < RxSlots
    BY RxIs DEF Slots
<1>2. (i + 1) % RxSlots = IF i + 1 < RxSlots THEN i + 1 ELSE (i + 1) - RxSlots
    BY <1>1, RxIs, ModOfSum
<1>3. After(i, RxSlots) = IF i + 1 < RxSlots THEN i + 1 ELSE (i + 1) - RxSlots
    BY <1>2 DEF After
<1> QED
    BY <1>1, <1>3, RxIs DEF NextSlot, Slots

LEMMA ModIsWrap ==
    ASSUME NEW n \in Slots, NEW k \in 0 .. RxSlots
    PROVE  (n + k) % RxSlots = Wrap(n + k)
<1>1. n + k \in Nat /\ n + k < RxSlots + RxSlots
    BY RxIs DEF Slots
<1> QED
    BY <1>1, RxIs, ModOfSum DEF Wrap

LEMMA AheadIs ==
    ASSUME NEW s \in Slots, NEW n \in Slots
    PROVE  /\ Ahead(s, n) \in Slots /\ Wrap(n + Ahead(s, n)) = s
           /\ Wrap(n + s) \in Slots /\ Ahead(Wrap(n + s), n) = s
BY RxIs DEF Ahead, Wrap, Slots

LEMMA NextSlotIs ==
    ASSUME NEW n \in Slots
    PROVE  /\ \A k \in 0 .. RxSlots - 1 : Wrap(n + (k + 1)) = NextSlot(Wrap(n + k))
           /\ \A s \in Slots : s # n => Ahead(s, NextSlot(n)) = Ahead(s, n) - 1
<1>1. n \in Nat /\ n < RxSlots /\ RxSlots \in Nat
    BY RxIs DEF Slots
<1>2. ASSUME NEW k \in 0 .. RxSlots - 1 PROVE Wrap(n + (k + 1)) = NextSlot(Wrap(n + k))
    BY <1>1 DEF Wrap, NextSlot
<1>3. ASSUME NEW s \in Slots, s # n PROVE Ahead(s, NextSlot(n)) = Ahead(s, n) - 1
    <2>1. s \in Nat /\ s < RxSlots
        BY <1>1 DEF Slots
    <2>2. CASE n + 1 >= RxSlots
        BY <1>1, <1>3, <2>1, <2>2 DEF Ahead, NextSlot
    <2>3. CASE ~(n + 1 >= RxSlots)
        BY <1>1, <1>3, <2>1, <2>3 DEF Ahead, NextSlot
    <2> QED
        BY <2>2, <2>3
<1> QED
    BY <1>2, <1>3

(* What RingInStep says of the current ring.                               *)
LEMMA InStepMeans ==
    ASSUME NEW r \in RingType, InStep(r)
    PROVE  \E k \in 0 .. RxSlots :
               /\ (r.next + k) % RxSlots = r.pos
               /\ \A i \in Slots : r.owner[(r.next + i) % RxSlots] = "cpu" <=> i < k
<1>1. PICK k \in 0 .. RxSlots : InStepBy(r, k)
    BY DEF InStep
<1>2. r.next \in Slots /\ Slots \subseteq 0 .. RxSlots
    BY RxIs DEF RingType, Slots
<1>3. (r.next + k) % RxSlots = r.pos
    BY <1>1, <1>2, ModIsWrap DEF InStepBy
<1>4. ASSUME NEW i \in Slots PROVE r.owner[(r.next + i) % RxSlots] = "cpu" <=> i < k
    <2>1. (r.next + i) % RxSlots = Wrap(r.next + i) /\ Wrap(r.next + i) \in Slots
          /\ Ahead(Wrap(r.next + i), r.next) = i
        BY <1>2, ModIsWrap, AheadIs
    <2> QED
        BY <1>1, <2>1 DEF InStepBy
<1> QED
    BY <1>3, <1>4

(* The engine fills a slot, the program gives the first one back, and an   *)
(* engine that had stopped starts where the program looks.                 *)
LEMMA StoreKeepsStep ==
    ASSUME NEW r \in RingType, InStep(r), r.owner[r.pos] = "dma", NEW q \in RingType,
           q.owner = [r.owner EXCEPT ![r.pos] = "cpu"], q.next = r.next, q.pos = After(r.pos, RxSlots)
    PROVE  InStep(q)
<1>1. PICK k \in 0 .. RxSlots : InStepBy(r, k)
    BY DEF InStep
<1>2. r.next \in Slots /\ r.pos \in Slots /\ r.owner \in [Slots -> {"dma", "cpu"}]
    BY DEF RingType
<1>3. k < RxSlots /\ Ahead(r.pos, r.next) = k
    <2>1. ~(Ahead(r.pos, r.next) < k) /\ Wrap(r.next + k) = r.pos
        BY <1>1, <1>2 DEF InStepBy
    <2> QED
        BY <1>2, <2>1, RxIs DEF Wrap, Ahead, Slots
<1>4. Wrap(r.next + (k + 1)) = q.pos
    <2>1. q.pos = NextSlot(r.pos) /\ Wrap(r.next + k) = r.pos
        BY <1>1, <1>2, AfterIs DEF InStepBy
    <2>2. Wrap(r.next + (k + 1)) = NextSlot(Wrap(r.next + k))
        <3>1. k \in 0 .. RxSlots - 1
            BY <1>3, RxIs
        <3> QED
            BY <1>2, <3>1, NextSlotIs
    <2> QED
        BY <2>1, <2>2
<1>5. ASSUME NEW s \in Slots PROVE q.owner[s] = "cpu" <=> Ahead(s, r.next) < k + 1
    <2>1. Ahead(s, r.next) = k <=> s = r.pos
        BY <1>2, <1>3, AheadIs
    <2>2. Ahead(s, r.next) \in Int /\ k \in Int
        <3>1. Ahead(s, r.next) \in Slots
            BY <1>2, AheadIs
        <3> QED
            BY <3>1, RxIs DEF Slots
    <2>3. s # r.pos => q.owner[s] = r.owner[s]
        BY <1>2
    <2>4. q.owner[r.pos] = "cpu"
        BY <1>2
    <2> QED
        BY <1>1, <2>1, <2>2, <2>3, <2>4 DEF InStepBy
<1> QED
    BY <1>3, <1>4, <1>5, RxIs DEF InStep, InStepBy

LEMMA GiveKeepsStep ==
    ASSUME NEW r \in RingType, InStep(r), r.owner[r.next] = "cpu", NEW q \in RingType,
           q.owner = [r.owner EXCEPT ![r.next] = "dma"], q.next = NextSlot(r.next), q.pos = r.pos
    PROVE  InStep(q)
<1>1. PICK k \in 0 .. RxSlots : InStepBy(r, k)
    BY DEF InStep
<1>2. r.next \in Slots /\ r.pos \in Slots /\ r.owner \in [Slots -> {"dma", "cpu"}]
    BY DEF RingType
<1>3. k > 0
    BY <1>1, <1>2, RxIs DEF InStepBy, Ahead, Slots
<1>4. Wrap(q.next + (k - 1)) = q.pos
    BY <1>1, <1>2, <1>3, RxIs DEF InStepBy, Wrap, NextSlot, Slots
<1>5. ASSUME NEW s \in Slots PROVE q.owner[s] = "cpu" <=> Ahead(s, q.next) < k - 1
    <2>1. CASE s = r.next
        <3>1. Ahead(s, q.next) = RxSlots - 1
            BY <1>2, <2>1, RxIs DEF Ahead, NextSlot, Slots
        <3> QED
            BY <1>2, <2>1, <3>1, RxIs
    <2>2. CASE s # r.next
        <3>1. Ahead(s, NextSlot(r.next)) = Ahead(s, r.next) - 1 /\ Ahead(s, r.next) \in Int
            <4>1. Ahead(s, r.next) \in Slots
                BY <1>2, AheadIs
            <4> QED
                BY <1>2, <2>2, <4>1, NextSlotIs, RxIs DEF Slots
        <3>2. q.owner[s] = r.owner[s]
            BY <1>2, <2>2
        <3> QED
            BY <1>1, <3>1, <3>2 DEF InStepBy
    <2> QED
        BY <2>1, <2>2
<1> QED
    BY <1>3, <1>4, <1>5, RxIs DEF InStep, InStepBy

LEMMA ResumeKeepsStep ==
    ASSUME NEW r \in RingType, InStep(r), r.owner[r.next] # "cpu", NEW q \in RingType,
           q.owner = r.owner, q.next = r.next, q.pos = IF r.on THEN r.pos ELSE r.next
    PROVE  InStep(q)
<1>1. PICK k \in 0 .. RxSlots : InStepBy(r, k)
    BY DEF InStep
<1>2. r.next \in Slots
    BY DEF RingType
<1>3. k = 0
    BY <1>1, <1>2, RxIs DEF InStepBy, Ahead, Slots
<1>4. r.pos = r.next
    BY <1>1, <1>2, <1>3, RxIs DEF InStepBy, Wrap, Slots
<1> QED
    BY <1>1, <1>4 DEF InStep, InStepBy

LEMMA CleanIsInStep ==
    ASSUME NEW q, q.owner = [s \in Slots |-> "dma"], q.next = 0, q.pos = 0
    PROVE  InStep(q)
<1>1. InStepBy(q, 0)
    BY RxIs DEF InStepBy, Wrap, Ahead, Slots
<1> QED
    BY <1>1, RxIs DEF InStep

LEMMA UnusedIsInStep ==
    ASSUME NEW q, q.owner = [s \in Slots |-> "cpu"], q.next = 0, q.pos = 0
    PROVE  InStep(q)
<1>1. InStepBy(q, RxSlots)
    BY RxIs DEF InStepBy, Wrap, Ahead, Slots
<1> QED
    BY <1>1, RxIs DEF InStep

-----------------------------------------------------------------------------
(* As long as no handler started again: only the current device may be     *)
(* running, every ring is in step, also one that is stopped, the current   *)
(* ring's frames are still in the buffers, and recv works on the current   *)
(* ring's first.                                                           *)

FramesIntact == handed.found = handed.described
OnlyCurrentRuns == \A d \in Devs : rings[d].on => d = current
AllInStep == \A d \in Devs : InStep(rings[d])
BuffersIntact ==
    \A s \in Slots : rings[current].owner[s] = "cpu" => rings[current].described[s] = packets[s]

RecvAtCurrent ==
    /\ at \in {"look", "receive", "give"} => recvOf.device = current
    /\ at \in {"receive", "give"} => /\ recvOf.slot = rings[current].next
                                     /\ rings[current].owner[recvOf.slot] = "cpu"
    /\ at = "receive" => recvOf.described = rings[current].described[recvOf.slot]

EthKept ==
    /\ EthTypeOK /\ FramesIntact /\ Linked /\ ethact = current
    /\ OnlyCurrentRuns /\ AllInStep /\ BuffersIntact /\ RecvAtCurrent

RingsTyped == rings \in [Devs -> RingType]

LEMMA HaltedIs ==
    ASSUME RingsTyped, NEW d \in Devs
    PROVE  /\ Halted(rings, d) \in [Devs -> RingType]
           /\ \A e \in Devs : /\ Halted(rings, d)[e].owner = rings[e].owner
                             /\ Halted(rings, d)[e].described = rings[e].described
                             /\ Halted(rings, d)[e].next = rings[e].next
                             /\ Halted(rings, d)[e].pos = rings[e].pos
                             /\ Halted(rings, d)[e].on = IF e = d THEN FALSE ELSE rings[e].on
BY DEF RingsTyped, RingType, Halted

LEMMA CleanRingIs ==
    ASSUME NEW r \in [Devs -> RingType], NEW d \in Devs
    PROVE  /\ CleanRing(r, d) \in [Devs -> RingType]
           /\ \A e \in Devs : e # d => CleanRing(r, d)[e] = r[e]
           /\ CleanRing(r, d)[d].owner = [s \in Slots |-> "dma"]
           /\ CleanRing(r, d)[d].next = 0 /\ CleanRing(r, d)[d].pos = 0 /\ CleanRing(r, d)[d].on
<1>1. 0 \in Slots
    BY RxIs
<1> QED
    BY <1>1 DEF RingType, CleanRing

LEMMA HaltKeepsStep ==
    ASSUME RingsTyped, AllInStep, NEW d \in Devs
    PROVE  \A e \in Devs : InStep(Halted(rings, d)[e])
<1> SUFFICES ASSUME NEW e \in Devs PROVE InStep(Halted(rings, d)[e])
    OBVIOUS
<1>1. InStep(rings[e])
    BY DEF AllInStep
<1>2. /\ Halted(rings, d)[e].owner = rings[e].owner /\ Halted(rings, d)[e].next = rings[e].next
      /\ Halted(rings, d)[e].pos = rings[e].pos
    BY HaltedIs
<1> QED
    BY <1>1, <1>2 DEF InStep, InStepBy

(* The current device is stopped.                                          *)
LEMMA HaltKeeps ==
    ASSUME EthKept, rings' = Halted(rings, current), UNCHANGED <<packets, current>>
    PROVE  RingsTyped' /\ OnlyCurrentRuns' /\ AllInStep' /\ BuffersIntact'
<1>1. RingsTyped /\ current \in Devs
    BY DEF EthKept, EthTypeOK, RingsTyped, RingType
<1>2. RingsTyped' /\ OnlyCurrentRuns'
    BY <1>1, HaltedIs DEF EthKept, RingsTyped, OnlyCurrentRuns
<1>3. AllInStep'
    BY <1>1, HaltKeepsStep DEF EthKept, AllInStep
<1>4. BuffersIntact'
    BY <1>1, HaltedIs DEF EthKept, BuffersIntact
<1> QED
    BY <1>2, <1>3, <1>4

(* It is stopped and one with a link starts, from device c on.             *)
LEMMA RestartKeeps ==
    ASSUME EthKept, NEW c \in Devs, rings' = eth_init(Halted(rings, current), c),
           current' = InitDevice(c), UNCHANGED packets
    PROVE  RingsTyped' /\ current' \in Devs /\ OnlyCurrentRuns' /\ AllInStep' /\ BuffersIntact'
<1> DEFINE h == Halted(rings, current)
<1>1. RingsTyped /\ current \in Devs
    BY DEF EthKept, EthTypeOK, RingsTyped, RingType
<1>2. Candidates(c) # {} /\ InitDevice(c) \in Devs
    BY InitFinds DEF EthKept
<1>3. h \in [Devs -> RingType] /\ \A e \in Devs : ~h[e].on /\ InStep(h[e])
    <2>1. \A e \in Devs : ~h[e].on
        BY <1>1, HaltedIs DEF EthKept, OnlyCurrentRuns
    <2>2. \A e \in Devs : InStep(h[e])
        BY <1>1, HaltKeepsStep DEF EthKept
    <2> QED
        BY <1>1, <2>1, <2>2, HaltedIs
<1> HIDE DEF h
<1>4. rings' = CleanRing(h, current')
    BY <1>2 DEF eth_init, h
<1>5. RingsTyped' /\ OnlyCurrentRuns'
    BY <1>2, <1>3, <1>4, CleanRingIs DEF RingsTyped, OnlyCurrentRuns
<1>6. AllInStep'
    BY <1>2, <1>3, <1>4, CleanRingIs, CleanIsInStep DEF AllInStep
<1>7. BuffersIntact'
    BY <1>2, <1>3, <1>4, CleanRingIs DEF BuffersIntact
<1> QED
    BY <1>2, <1>5, <1>6, <1>7

(* Steps that leave the rings alone.                                       *)
LEMMA SameRings ==
    ASSUME EthKept, UNCHANGED <<rings, packets, current>>
    PROVE  RingsTyped' /\ OnlyCurrentRuns' /\ AllInStep' /\ BuffersIntact'
BY DEF EthKept, EthTypeOK, RingsTyped, RingType, OnlyCurrentRuns, AllInStep, BuffersIntact, InStep, InStepBy

LEMMA InitEth == EthInit => EthKept
<1> SUFFICES ASSUME EthInit PROVE EthKept
    OBVIOUS
<1>1. EthList.first = 0 /\ NoDevice \notin Devs /\ 0 \in Devs
    BY EthListIs, EthAssumption DEF Devs, NoDevice
<1>2. eth_get_dev_by_name(NoDevice) = NoDevice
    <2>1. \A k \in 0 .. EthDevices - 1 : Walk(0, k) \in Devs
        BY <1>1, WalkIs, EthAssumption DEF Round, Devs
    <2>2. {k \in 0 .. EthDevices - 1 : Walk(0, k) = NoDevice /\ \A j \in 1 .. k : Walk(0, j) # 0} = {}
        BY <1>1, <2>1
    <2> QED
        BY <1>1, <2>2 DEF eth_get_dev_by_name, Found
<1>3. current = 0 /\ ethact = 0
    BY <1>1, <1>2 DEF EthInit, eth_initialize
<1>4. EthTypeOK
    BY <1>1, <1>3, RxIs DEF EthInit, EthTypeOK, NoFrame
<1>5. AllInStep
    BY UnusedIsInStep DEF EthInit, AllInStep
<1>6. Linked /\ OnlyCurrentRuns /\ BuffersIntact /\ RecvAtCurrent /\ FramesIntact
    BY <1>1, <1>3 DEF EthInit, Linked, OnlyCurrentRuns, BuffersIntact, RecvAtCurrent, FramesIntact
<1> QED
    BY <1>3, <1>4, <1>5, <1>6 DEF EthKept

LEMMA StartLoopStep ==
    ASSUME EthKept, NEW level \in 0 .. 1, StartLoop(level)
    PROVE  EthKept'
<1>1. StartDevice = 0 /\ StartDevice \in Devs
    BY StartIsFirst DEF EthKept, EthTypeOK
<1>2. RingsTyped' /\ current' \in Devs /\ OnlyCurrentRuns' /\ AllInStep' /\ BuffersIntact'
    BY <1>1, RestartKeeps DEF StartLoop
<1>3. Candidates(StartDevice) # {}
    BY <1>1, InitFinds DEF EthKept
<1>4. at' = "poll" /\ netState' = "continue" /\ depth' = level
    BY <1>3 DEF StartLoop
<1>5. EthTypeOK' /\ ethact' = current'
    BY <1>2, <1>4 DEF EthKept, EthTypeOK, StartLoop, RingsTyped, RingType
<1>6. FramesIntact' /\ Linked' /\ RecvAtCurrent'
    BY <1>4 DEF EthKept, FramesIntact, Linked, RecvAtCurrent, StartLoop
<1> QED
    BY <1>2, <1>5, <1>6 DEF EthKept

LEMMA NetStartAgainStep ==
    ASSUME EthKept, NetStartAgain, UNCHANGED <<packets, linkUp>>
    PROVE  /\ RingsTyped' /\ OnlyCurrentRuns' /\ AllInStep' /\ BuffersIntact'
           /\ current' \in Devs /\ ethact' = current' /\ netState' \in {"restart", "continue", "fail"}
<1>1. current \in Devs /\ ethact = current
    BY DEF EthKept, EthTypeOK
<1>2. CASE /\ rings' = RestartedRings /\ current' = RestartedCurrent /\ ethact' = current'
           /\ netState' \in {"restart", "continue", "fail"}
    <2>1. EthList.next[current] \in Devs
        BY <1>1, NextInRing
    <2> QED
        BY <1>2, <2>1, RestartKeeps DEF RestartedRings, RestartedCurrent
<1>3. CASE rings' = Halted(rings, current) /\ netState' = "fail" /\ UNCHANGED <<current, ethact>>
    BY <1>1, <1>3, HaltKeeps
<1> QED
    BY <1>2, <1>3 DEF NetStartAgain

LEMMA StoreStep ==
    ASSUME EthKept, NEW d \in Devs, Store(d)
    PROVE  EthKept'
<1> DEFINE p == rings[d].pos
<1>1. RingsTyped /\ current = d /\ p \in Slots /\ frames' \in 0 .. MaxFrames
    BY RxIs DEF EthKept, EthTypeOK, RingsTyped, RingType, OnlyCurrentRuns, Store
<1>2. After(p, RxSlots) \in Slots
    BY <1>1, AfterIs
<1>3. RingsTyped'
    <2> DEFINE q == [rings[d] EXCEPT !.owner[p] = "cpu", !.described[p] = frames', !.pos = After(p, RxSlots)]
    <2>1. q \in RingType
        BY <1>1, <1>2 DEF RingsTyped, RingType
    <2>2. rings' = [rings EXCEPT ![d] = q]
        BY <1>1 DEF RingsTyped, RingType, Store
    <2> QED
        BY <1>1, <2>1, <2>2 DEF RingsTyped
<1>4. /\ rings'[d].owner = [rings[d].owner EXCEPT ![p] = "cpu"]
      /\ rings'[d].described = [rings[d].described EXCEPT ![p] = frames']
      /\ rings'[d].next = rings[d].next /\ rings'[d].pos = After(p, RxSlots)
      /\ \A e \in Devs : e # d => rings'[e] = rings[e]
      /\ packets' = [packets EXCEPT ![p] = frames']
    BY <1>1 DEF RingsTyped, RingType, Store
<1>5. AllInStep'
    <2>1. InStep(rings[d]) /\ rings[d] \in RingType /\ rings'[d] \in RingType /\ rings[d].owner[p] = "dma"
        BY <1>1, <1>3 DEF EthKept, AllInStep, RingsTyped, Store
    <2>2. InStep(rings'[d])
        BY <1>4, <2>1, StoreKeepsStep
    <2> QED
        BY <1>4, <2>2 DEF EthKept, AllInStep
<1>6. BuffersIntact' /\ current' = current /\ UNCHANGED <<at, recvOf, ethact, linkUp, netState, depth, handed, restarted>>
    <2>1. current' = current /\ UNCHANGED <<at, recvOf, ethact, linkUp, netState, depth, handed, restarted>>
        BY DEF Store
    <2>2. packets \in [Slots -> 0 .. MaxFrames] /\ rings[d].owner \in [Slots -> {"dma", "cpu"}]
          /\ rings[d].described \in [Slots -> 0 .. MaxFrames]
        BY <1>1 DEF EthKept, EthTypeOK, RingsTyped, RingType
    <2> QED
        BY <1>1, <1>4, <2>1, <2>2 DEF EthKept, BuffersIntact
<1>7. RecvAtCurrent'
    <2>1. rings[d].owner[p] = "dma"
        BY DEF Store
    <2> QED
        BY <1>1, <1>4, <1>6, <2>1 DEF EthKept, EthTypeOK, RecvAtCurrent, RingsTyped, RingType
<1>8. OnlyCurrentRuns'
    BY <1>1, <1>4, <1>6 DEF EthKept, OnlyCurrentRuns
<1>9. EthTypeOK'
    BY <1>1, <1>3, <1>4, <1>6 DEF EthKept, EthTypeOK, RingsTyped, RingType
<1> QED
    BY <1>5, <1>6, <1>7, <1>8, <1>9 DEF EthKept, FramesIntact, Linked

LEMMA OverrunStep ==
    ASSUME EthKept, NEW d \in Devs, Overrun(d)
    PROVE  EthKept'
<1>1. d = current /\ UNCHANGED <<packets, linkUp, current, ethact, netState, depth, at, recvOf, frames, handed, restarted>>
    BY DEF EthKept, OnlyCurrentRuns, Overrun
<1>2. RingsTyped' /\ OnlyCurrentRuns' /\ AllInStep' /\ BuffersIntact'
    BY <1>1, HaltKeeps DEF Overrun
<1>3. RecvAtCurrent'
    <2>1. RingsTyped /\ current \in Devs
        BY DEF EthKept, EthTypeOK, RingsTyped, RingType
    <2>2. /\ rings'[current].owner = rings[current].owner /\ rings'[current].next = rings[current].next
          /\ rings'[current].described = rings[current].described
        BY <1>1, <2>1, HaltedIs DEF Overrun
    <2> QED
        BY <1>1, <2>2 DEF EthKept, RecvAtCurrent
<1> QED
    BY <1>1, <1>2, <1>3 DEF EthKept, EthTypeOK, RingsTyped, RingType, FramesIntact, Linked

LEMMA CableStep ==
    ASSUME MinLinks \in Nat \ {0}, EthKept, NEW d \in Devs, Cable(d)
    PROVE  EthKept'
<1>1. Linked'
    <2>1. {e \in Devs : linkUp'[e]} # {}
        BY FS_EmptySet DEF Cable
    <2> QED
        BY <2>1 DEF Linked
<1>2. RingsTyped' /\ OnlyCurrentRuns' /\ AllInStep' /\ BuffersIntact'
    BY SameRings DEF Cable
<1>3. linkUp' \in [Devs -> BOOLEAN]
    BY DEF EthKept, EthTypeOK, Cable
<1> QED
    BY <1>1, <1>2, <1>3 DEF EthKept, EthTypeOK, RingsTyped, RingType, FramesIntact, RecvAtCurrent, Cable

LEMMA PollStep ==
    ASSUME EthKept, Poll
    PROVE  EthKept'
<1>1. RingsTyped' /\ OnlyCurrentRuns' /\ AllInStep' /\ BuffersIntact'
    BY SameRings DEF Poll
<1>2. EthTypeOK'
    BY RxIs DEF EthKept, EthTypeOK, Poll, NoFrame
<1> QED
    BY <1>1, <1>2 DEF EthKept, FramesIntact, Linked, RecvAtCurrent, Poll

LEMMA LookStep ==
    ASSUME EthKept, Look
    PROVE  EthKept'
<1>1. /\ RingsTyped /\ current \in Devs /\ recvOf.device = current /\ Ring = rings[current]
      /\ UNCHANGED <<packets, linkUp, current, ethact, netState, depth, frames, handed, restarted>>
    BY DEF EthKept, EthTypeOK, RingsTyped, RingType, RecvAtCurrent, Look, Ring
<1>2. CASE Ring.owner[Ring.next] = "cpu"
    <2>1. at' = "receive" /\ rings' = rings
          /\ recvOf' = [recvOf EXCEPT !.slot = Ring.next, !.described = Ring.described[Ring.next]]
        BY <1>2 DEF Look
    <2>2. RingsTyped' /\ OnlyCurrentRuns' /\ AllInStep' /\ BuffersIntact'
        BY <1>1, <2>1, SameRings
    <2>3. recvOf' \in [device : Devs, slot : Slots, described : 0 .. MaxFrames]
          /\ recvOf'.device = current /\ recvOf'.slot = Ring.next
          /\ recvOf'.described = Ring.described[Ring.next]
        <3>1. rings[current] \in RingType
            BY <1>1 DEF RingsTyped
        <3>2. Ring.next \in Slots /\ Ring.described[Ring.next] \in 0 .. MaxFrames
            BY <1>1, <3>1 DEF RingType
        <3>3. recvOf \in [device : Devs, slot : Slots, described : 0 .. MaxFrames]
            BY DEF EthKept, EthTypeOK
        <3> HIDE DEF Ring
        <3> QED
            BY <1>1, <2>1, <3>2, <3>3
    <2>4. RecvAtCurrent'
        BY <1>1, <1>2, <2>1, <2>3 DEF RecvAtCurrent
    <2> QED
        BY <1>1, <2>1, <2>2, <2>3, <2>4 DEF EthKept, EthTypeOK, FramesIntact, Linked
<1>3. CASE Ring.owner[Ring.next] # "cpu"
    <2> DEFINE r == rings[current]
               q == [r EXCEPT !.pos = IF r.on THEN @ ELSE r.next, !.on = TRUE]
    <2>1. at' = "ctrlc" /\ rings' = Resumed /\ recvOf' = recvOf
        BY <1>3 DEF Look
    <2>2. r \in RingType /\ q \in RingType /\ q.owner = r.owner /\ q.described = r.described
          /\ q.next = r.next /\ q.pos = IF r.on THEN r.pos ELSE r.next
        BY <1>1 DEF RingsTyped, RingType
    <2>3. rings' = [rings EXCEPT ![current] = q]
        BY <1>1, <2>1 DEF Resumed, RingsTyped, RingType
    <2>4. InStep(q)
        BY <1>1, <1>3, <2>2, ResumeKeepsStep DEF EthKept, AllInStep
    <2> HIDE DEF q, r
    <2>5. RingsTyped' /\ OnlyCurrentRuns' /\ AllInStep'
        BY <1>1, <2>2, <2>3, <2>4 DEF EthKept, RingsTyped, OnlyCurrentRuns, AllInStep
    <2>6. BuffersIntact'
        BY <1>1, <2>2, <2>3 DEF EthKept, RingsTyped, BuffersIntact, r
    <2> QED
        BY <1>1, <2>1, <2>5, <2>6
        DEF EthKept, EthTypeOK, RingsTyped, RingType, FramesIntact, Linked, RecvAtCurrent
<1> QED
    BY <1>2, <1>3

LEMMA ReceiveStep ==
    ASSUME EthKept, Receive, restarted' # "now"
    PROVE  EthKept'
<1>1. /\ UNCHANGED <<rings, current, ethact, packets, linkUp, depth, recvOf, frames, restarted>>
      /\ netState' \in {netState, "success"} /\ at' = "give"
      /\ handed' = [described |-> recvOf.described, found |-> packets[recvOf.slot]]
    BY DEF Receive
<1>2. RingsTyped' /\ OnlyCurrentRuns' /\ AllInStep' /\ BuffersIntact'
    BY <1>1, SameRings
<1>3. FramesIntact'
    <2>1. recvOf.slot \in Slots /\ at = "receive"
        BY DEF EthKept, EthTypeOK, Receive
    <2> QED
        BY <1>1, <2>1 DEF EthKept, RecvAtCurrent, BuffersIntact, FramesIntact
<1>4. EthTypeOK'
    BY <1>1 DEF EthKept, EthTypeOK
<1>5. RecvAtCurrent' /\ Linked'
    BY <1>1 DEF EthKept, RecvAtCurrent, Receive, Linked
<1> QED
    BY <1>1, <1>2, <1>3, <1>4, <1>5 DEF EthKept

LEMMA GiveStep ==
    ASSUME EthKept, Give
    PROVE  EthKept'
<1> DEFINE r == rings[current]
           q == [r EXCEPT !.owner[r.next] = "dma", !.next = NextSlot(r.next)]
<1>1. /\ RingsTyped /\ current \in Devs /\ recvOf.device = current /\ recvOf.slot = r.next
      /\ r.owner[r.next] = "cpu" /\ at' = "look"
      /\ UNCHANGED <<packets, linkUp, current, ethact, netState, depth, recvOf, frames, handed, restarted>>
    BY DEF EthKept, EthTypeOK, RingsTyped, RingType, RecvAtCurrent, Give
<1>2. r \in RingType /\ NextSlot(r.next) \in Slots
    BY <1>1, AfterIs DEF RingsTyped, RingType
<1>3. q \in RingType /\ q.owner = [r.owner EXCEPT ![r.next] = "dma"] /\ q.described = r.described
      /\ q.next = NextSlot(r.next) /\ q.pos = r.pos /\ q.on = r.on
    BY <1>2 DEF RingType
<1>4. rings' = [rings EXCEPT ![current] = q]
    BY <1>1 DEF Give, RingsTyped, RingType
<1>5. InStep(q)
    BY <1>1, <1>2, <1>3, GiveKeepsStep DEF EthKept, AllInStep
<1>6. \A s \in Slots : q.owner[s] = "cpu" => r.owner[s] = "cpu"
    BY <1>2, <1>3 DEF RingType
<1>7. OnlyCurrentRuns
    BY DEF EthKept
<1> HIDE DEF q
<1>8. RingsTyped' /\ AllInStep' /\ BuffersIntact'
    BY <1>1, <1>3, <1>4, <1>5, <1>6 DEF EthKept, RingsTyped, AllInStep, BuffersIntact
<1>9. OnlyCurrentRuns'
    BY <1>1, <1>3, <1>4, <1>7 DEF OnlyCurrentRuns, RingsTyped
<1> QED
    BY <1>1, <1>8, <1>9 DEF EthKept, EthTypeOK, RingsTyped, RingType, FramesIntact, Linked, RecvAtCurrent

LEMMA CtrlcStep ==
    ASSUME EthKept, Ctrlc
    PROVE  EthKept'
<1>1. CASE /\ rings' = Halted(rings, current) /\ at' = Leave /\ depth' = 0
           /\ UNCHANGED <<packets, linkUp, current, ethact, netState, recvOf, frames, handed, restarted>>
    <2>1. RingsTyped' /\ OnlyCurrentRuns' /\ AllInStep' /\ BuffersIntact'
        BY <1>1, HaltKeeps
    <2>2. EthTypeOK'
        BY <1>1, <2>1 DEF EthKept, EthTypeOK, RingsTyped, RingType, Leave
    <2> QED
        BY <1>1, <2>1, <2>2 DEF EthKept, FramesIntact, Linked, RecvAtCurrent, Leave
<1>2. CASE StartLoop(1)
    BY <1>2, StartLoopStep
<1>3. CASE at' = "examine" /\ UNCHANGED <<rings, packets, linkUp, current, ethact, netState, depth, recvOf, frames, handed, restarted>>
    <2>1. RingsTyped' /\ OnlyCurrentRuns' /\ AllInStep' /\ BuffersIntact'
        BY <1>3, SameRings
    <2> QED
        BY <1>3, <2>1 DEF EthKept, EthTypeOK, FramesIntact, Linked, RecvAtCurrent
<1> QED
    BY <1>1, <1>2, <1>3 DEF Ctrlc

LEMMA TimeoutStep ==
    ASSUME EthKept, Timeout \/ NoTimeout
    PROVE  EthKept'
<1>1. CASE Timeout
    <2>1. UNCHANGED <<packets, linkUp, depth, recvOf, frames, handed, restarted>> /\ at' = "state" /\ NetStartAgain
        BY <1>1 DEF Timeout
    <2>2. /\ RingsTyped' /\ OnlyCurrentRuns' /\ AllInStep' /\ BuffersIntact'
          /\ current' \in Devs /\ ethact' = current' /\ netState' \in {"restart", "continue", "fail"}
        BY <2>1, NetStartAgainStep
    <2> QED
        BY <2>1, <2>2 DEF EthKept, EthTypeOK, RingsTyped, RingType, FramesIntact, Linked, RecvAtCurrent
<1>2. CASE NoTimeout
    <2>1. RingsTyped' /\ OnlyCurrentRuns' /\ AllInStep' /\ BuffersIntact'
        BY <1>2, SameRings DEF NoTimeout
    <2> QED
        BY <1>2, <2>1 DEF EthKept, EthTypeOK, FramesIntact, Linked, RecvAtCurrent, NoTimeout
<1> QED
    BY <1>1, <1>2

LEMMA LookAtNetStateStep ==
    ASSUME EthKept, LookAtNetState
    PROVE  EthKept'
<1>1. netState \in {"continue", "restart", "success", "fail"}
      /\ UNCHANGED <<packets, linkUp, current, ethact, recvOf, frames, handed, restarted>>
    BY DEF EthKept, EthTypeOK, LookAtNetState
<1>2. CASE netState \in {"continue", "restart"}
    <2>1. at' = "poll" /\ netState' = "continue" /\ UNCHANGED <<rings, depth>>
        BY <1>2 DEF LookAtNetState
    <2>2. RingsTyped' /\ OnlyCurrentRuns' /\ AllInStep' /\ BuffersIntact'
        BY <1>1, <2>1, SameRings
    <2> QED
        BY <1>1, <2>1, <2>2 DEF EthKept, EthTypeOK, FramesIntact, Linked, RecvAtCurrent
<1>3. CASE netState = "success"
    <2>1. at' = Leave /\ rings' = Halted(rings, current) /\ depth' = 0 /\ UNCHANGED netState
        BY <1>3 DEF LookAtNetState
    <2>2. RingsTyped' /\ OnlyCurrentRuns' /\ AllInStep' /\ BuffersIntact'
        BY <1>1, <2>1, HaltKeeps
    <2> QED
        BY <1>1, <2>1, <2>2 DEF EthKept, EthTypeOK, RingsTyped, RingType, FramesIntact, Linked, RecvAtCurrent, Leave
<1>4. CASE netState = "fail"
    <2>1. at' = Leave /\ depth' = 0 /\ UNCHANGED <<rings, netState>>
        BY <1>4 DEF LookAtNetState
    <2>2. RingsTyped' /\ OnlyCurrentRuns' /\ AllInStep' /\ BuffersIntact'
        BY <1>1, <2>1, SameRings
    <2> QED
        BY <1>1, <2>1, <2>2 DEF EthKept, EthTypeOK, FramesIntact, Linked, RecvAtCurrent, Leave
<1> QED
    BY <1>1, <1>2, <1>3, <1>4

LEMMA KeptStep ==
    ASSUME MinLinks \in Nat \ {0}, EthKept, [EthNext]_ethVars, restarted' # "now"
    PROVE  EthKept'
<1>1. CASE Program
    <2>1. CASE Command
        BY <2>1, StartLoopStep DEF Command
    <2> QED
        BY <1>1, <2>1, PollStep, LookStep, ReceiveStep, GiveStep, CtrlcStep, TimeoutStep, LookAtNetStateStep
        DEF Program
<1>2. CASE Hardware
    BY <1>2, StoreStep, OverrunStep, CableStep DEF Hardware
<1>3. CASE UNCHANGED ethVars
    <2>1. RingsTyped' /\ OnlyCurrentRuns' /\ AllInStep' /\ BuffersIntact'
        BY <1>3, SameRings DEF ethVars
    <2> QED
        BY <1>3, <2>1 DEF EthKept, EthTypeOK, FramesIntact, Linked, RecvAtCurrent, ethVars
<1> QED
    BY <1>1, <1>2, <1>3 DEF EthNext

-----------------------------------------------------------------------------
(* Whatever handlers did: the types, and once a loop has set up the ring   *)
(* again, its being in step, while other engines may be running.           *)

EthTyped == EthTypeOK /\ Linked /\ ethact = current
CurrentInStep == InStep(rings[current]) /\ RecvAtCurrent

LEMMA TypedRings == EthTyped => RingsTyped /\ current \in Devs
BY DEF EthTyped, EthTypeOK, RingsTyped, RingType

LEMMA HaltedInStep ==
    ASSUME RingsTyped, NEW d \in Devs, NEW k \in Devs, InStep(rings[k])
    PROVE  InStep(Halted(rings, d)[k])
<1>1. /\ Halted(rings, d)[k].owner = rings[k].owner /\ Halted(rings, d)[k].next = rings[k].next
      /\ Halted(rings, d)[k].pos = rings[k].pos
    BY HaltedIs
<1> QED
    BY <1>1 DEF InStep, InStepBy

LEMMA SetUpAgain ==
    ASSUME EthTyped, NEW c \in Devs, rings' = eth_init(Halted(rings, current), c), current' = InitDevice(c)
    PROVE  RingsTyped' /\ current' \in Devs /\ InStep(rings'[current'])
<1> DEFINE h == Halted(rings, current)
<1>1. Candidates(c) # {} /\ InitDevice(c) \in Devs
    BY InitFinds DEF EthTyped
<1>2. h \in [Devs -> RingType]
    BY TypedRings, HaltedIs
<1> HIDE DEF h
<1>3. rings' = CleanRing(h, current')
    BY <1>1 DEF eth_init, h
<1>4. /\ CleanRing(h, current') \in [Devs -> RingType] /\ current' \in Devs
      /\ CleanRing(h, current')[current'].owner = [s \in Slots |-> "dma"]
      /\ CleanRing(h, current')[current'].next = 0 /\ CleanRing(h, current')[current'].pos = 0
    BY <1>1, <1>2, CleanRingIs
<1>5. InStep(CleanRing(h, current')[current'])
    BY <1>4, CleanIsInStep
<1> QED
    BY <1>3, <1>4, <1>5 DEF RingsTyped

(* NetLoop begins.                                                         *)
LEMMA LoopStarts ==
    ASSUME EthTyped, NEW level \in 0 .. 1, StartLoop(level)
    PROVE  EthTyped' /\ InStep(rings'[current']) /\ at' = "poll"
<1>1. StartDevice = 0 /\ StartDevice \in Devs
    BY StartIsFirst DEF EthTyped, EthTypeOK
<1>2. RingsTyped' /\ current' \in Devs /\ InStep(rings'[current'])
    BY <1>1, SetUpAgain DEF StartLoop
<1>3. Candidates(StartDevice) # {}
    BY <1>1, InitFinds DEF EthTyped
<1>4. at' = "poll" /\ netState' = "continue" /\ depth' = level /\ ethact' = current'
      /\ UNCHANGED <<packets, linkUp, recvOf, frames, handed>>
    BY <1>3 DEF StartLoop
<1>5. restarted' \in {"never", "now", "before"}
    BY DEF EthTyped, EthTypeOK, StartLoop
<1>6. EthTypeOK' /\ Linked'
    BY <1>2, <1>4, <1>5 DEF EthTyped, EthTypeOK, RingsTyped, RingType, Linked
<1> QED
    BY <1>2, <1>4, <1>6 DEF EthTyped

(* NetStartAgain, called by whichever.                                     *)
LEMMA StartsAgain ==
    ASSUME EthTyped, NetStartAgain
    PROVE  /\ RingsTyped' /\ current' \in Devs /\ ethact' = current' /\ netState' \in {"restart", "continue", "fail"}
           /\ InStep(rings[current]) => InStep(rings'[current'])
<1>1. current \in Devs /\ ethact = current /\ RingsTyped
    BY TypedRings DEF EthTyped
<1>2. CASE /\ rings' = RestartedRings /\ current' = RestartedCurrent /\ ethact' = current'
           /\ netState' \in {"restart", "continue", "fail"}
    <2>1. EthList.next[current] \in Devs
        BY <1>1, NextInRing
    <2> QED
        BY <1>2, <2>1, SetUpAgain DEF RestartedRings, RestartedCurrent
<1>3. CASE rings' = Halted(rings, current) /\ netState' = "fail" /\ UNCHANGED <<current, ethact>>
    <2>1. RingsTyped' /\ current' \in Devs
        BY <1>1, <1>3, HaltedIs DEF RingsTyped
    <2>2. InStep(rings[current]) => InStep(rings'[current'])
        BY <1>1, <1>3, HaltedInStep
    <2> QED
        BY <1>1, <1>3, <2>1, <2>2
<1> QED
    BY <1>2, <1>3 DEF NetStartAgain

(* A device is stopped.                                                    *)
LEMMA HaltsOne ==
    ASSUME EthTyped, NEW d \in Devs, rings' = Halted(rings, d), current' = current, recvOf' = recvOf
    PROVE  /\ RingsTyped'
           /\ CurrentInStep /\ at' = at => CurrentInStep'
           /\ CurrentInStep => InStep(rings'[current'])
<1>1. RingsTyped /\ current \in Devs
    BY TypedRings
<1>2. RingsTyped'
    BY <1>1, HaltedIs DEF RingsTyped
<1>3. /\ rings'[current].owner = rings[current].owner /\ rings'[current].next = rings[current].next
      /\ rings'[current].pos = rings[current].pos /\ rings'[current].described = rings[current].described
    BY <1>1, HaltedIs
<1>4. CurrentInStep => InStep(rings'[current'])
    BY <1>3 DEF CurrentInStep, InStep, InStepBy
<1>5. CurrentInStep /\ at' = at => RecvAtCurrent'
    BY <1>3 DEF CurrentInStep, RecvAtCurrent
<1> QED
    BY <1>2, <1>4, <1>5 DEF CurrentInStep

LEMMA EngineSteps ==
    ASSUME MinLinks \in Nat \ {0}, EthTyped, Hardware
    PROVE  EthTyped' /\ restarted' = restarted /\ (CurrentInStep => CurrentInStep')
<1>1. RingsTyped /\ current \in Devs
    BY TypedRings
<1>2. ASSUME NEW d \in Devs, Store(d)
      PROVE  EthTyped' /\ restarted' = restarted /\ (CurrentInStep => CurrentInStep')
    <2> DEFINE p == rings[d].pos
               q == [rings[d] EXCEPT !.owner[p] = "cpu", !.described[p] = frames', !.pos = After(p, RxSlots)]
    <2>1. p \in Slots /\ frames' \in 0 .. MaxFrames /\ rings[d] \in RingType /\ rings[d].owner[p] = "dma"
        BY <1>1, <1>2, RxIs DEF EthTyped, EthTypeOK, RingsTyped, RingType, Store
    <2>2. After(p, RxSlots) \in Slots
        BY <2>1, AfterIs
    <2>3. /\ q \in RingType /\ q.owner = [rings[d].owner EXCEPT ![p] = "cpu"] /\ q.next = rings[d].next
          /\ q.pos = After(p, RxSlots) /\ q.described = [rings[d].described EXCEPT ![p] = frames']
        BY <2>1, <2>2 DEF RingType
    <2>4. rings' = [rings EXCEPT ![d] = q] /\ packets' = [packets EXCEPT ![p] = frames']
          /\ UNCHANGED <<linkUp, current, ethact, netState, depth, at, recvOf, handed, restarted>>
        BY <1>1, <1>2 DEF RingsTyped, RingType, Store
    <2> HIDE DEF q
    <2>5. RingsTyped'
        BY <1>1, <2>3, <2>4 DEF RingsTyped
    <2>6. EthTyped'
        BY <2>1, <2>4, <2>5 DEF EthTyped, EthTypeOK, RingsTyped, RingType, Linked
    <2>7. CurrentInStep => InStep(rings'[current'])
        <3>1. CASE d = current
            <4>1. CurrentInStep => InStep(q)
                BY <2>1, <2>3, <3>1, StoreKeepsStep DEF CurrentInStep
            <4> QED
                BY <1>1, <2>4, <3>1, <4>1 DEF RingsTyped
        <3>2. CASE d # current
            BY <1>1, <2>4, <3>2 DEF RingsTyped, CurrentInStep
        <3> QED
            BY <3>1, <3>2
    <2>8. CurrentInStep => RecvAtCurrent'
        <3>1. CASE d = current
            <4>1. /\ rings'[current].next = rings[current].next
                  /\ \A s \in Slots : rings[current].owner[s] = "cpu" =>
                         rings'[current].owner[s] = "cpu" /\ rings'[current].described[s] = rings[current].described[s]
                BY <1>1, <2>1, <2>3, <2>4, <3>1 DEF RingsTyped, RingType
            <4>2. recvOf.slot \in Slots
                BY DEF EthTyped, EthTypeOK
            <4> QED
                BY <2>4, <4>1, <4>2 DEF CurrentInStep, RecvAtCurrent
        <3>2. CASE d # current
            BY <1>1, <2>4, <3>2 DEF RingsTyped, CurrentInStep, RecvAtCurrent
        <3> QED
            BY <3>1, <3>2
    <2> QED
        BY <2>4, <2>6, <2>7, <2>8 DEF CurrentInStep
<1>3. ASSUME NEW d \in Devs, Overrun(d)
      PROVE  EthTyped' /\ restarted' = restarted /\ (CurrentInStep => CurrentInStep')
    <2>1. rings' = Halted(rings, d)
          /\ UNCHANGED <<packets, linkUp, current, ethact, netState, depth, at, recvOf, frames, handed, restarted>>
        BY <1>3 DEF Overrun
    <2>2. RingsTyped' /\ (CurrentInStep => CurrentInStep')
        BY <2>1, HaltsOne
    <2> QED
        BY <2>1, <2>2 DEF EthTyped, EthTypeOK, RingsTyped, RingType, Linked
<1>4. ASSUME NEW d \in Devs, Cable(d)
      PROVE  EthTyped' /\ restarted' = restarted /\ (CurrentInStep => CurrentInStep')
    <2>1. {e \in Devs : linkUp'[e]} # {}
        BY <1>4, FS_EmptySet DEF Cable
    <2>2. UNCHANGED <<rings, packets, current, ethact, netState, depth, at, recvOf, frames, handed, restarted>>
          /\ linkUp' \in [Devs -> BOOLEAN]
        BY <1>4 DEF Cable, EthTyped, EthTypeOK
    <2>3. CurrentInStep => CurrentInStep'
        BY <2>2 DEF CurrentInStep, InStep, InStepBy, RecvAtCurrent
    <2> QED
        BY <2>1, <2>2, <2>3 DEF EthTyped, EthTypeOK, Linked
<1> QED
    BY <1>2, <1>3, <1>4 DEF Hardware

(* The program, away from the packets.                                     *)
LEMMA LoopSteps ==
    ASSUME EthTyped, Command \/ Poll \/ Ctrlc \/ Timeout \/ NoTimeout \/ LookAtNetState
    PROVE  /\ EthTyped'
           /\ at' \notin {"look", "receive", "give"} \/ (at' = "look" /\ recvOf'.device = current')
           /\ InStep(rings[current]) \/ restarted' # restarted => InStep(rings'[current'])
<1>1. RingsTyped /\ current \in Devs
    BY TypedRings
<1>2. CASE Command
    BY <1>2, LoopStarts DEF Command
<1>3. CASE Poll
    <2>1. UNCHANGED <<rings, packets, linkUp, current, ethact, netState, depth, frames, handed, restarted>>
          /\ at' = "look" /\ recvOf' = [device |-> current, slot |-> 0, described |-> NoFrame]
        BY <1>3 DEF Poll
    <2> QED
        BY <2>1, RxIs DEF EthTyped, EthTypeOK, Linked, NoFrame, InStep, InStepBy
<1>4. CASE Ctrlc
    <2>1. CASE StartLoop(1)
        BY <2>1, LoopStarts
    <2>2. CASE /\ rings' = Halted(rings, current) /\ at' = Leave /\ depth' = 0
               /\ UNCHANGED <<packets, linkUp, current, ethact, netState, recvOf, frames, handed, restarted>>
        <3>1. RingsTyped'
            BY <1>1, <2>2, HaltedIs DEF RingsTyped
        <3>2. InStep(rings[current]) => InStep(rings'[current'])
            BY <1>1, <2>2, HaltedInStep
        <3> QED
            BY <2>2, <3>1, <3>2 DEF EthTyped, EthTypeOK, RingsTyped, RingType, Linked, Leave
    <2>3. CASE at' = "examine" /\ UNCHANGED <<rings, packets, linkUp, current, ethact, netState, depth, recvOf, frames, handed, restarted>>
        BY <2>3 DEF EthTyped, EthTypeOK, Linked, InStep, InStepBy
    <2> QED
        BY <1>4, <2>1, <2>2, <2>3 DEF Ctrlc
<1>5. CASE Timeout
    <2>1. UNCHANGED <<packets, linkUp, depth, recvOf, frames, handed, restarted>> /\ at' = "state" /\ NetStartAgain
        BY <1>5 DEF Timeout
    <2>2. /\ RingsTyped' /\ current' \in Devs /\ ethact' = current' /\ netState' \in {"restart", "continue", "fail"}
          /\ InStep(rings[current]) => InStep(rings'[current'])
        BY <2>1, StartsAgain
    <2> QED
        BY <2>1, <2>2 DEF EthTyped, EthTypeOK, RingsTyped, RingType, Linked
<1>6. CASE NoTimeout
    BY <1>6 DEF NoTimeout, EthTyped, EthTypeOK, Linked, InStep, InStepBy
<1>7. CASE LookAtNetState
    <2>1. netState \in {"continue", "restart", "success", "fail"}
          /\ UNCHANGED <<packets, linkUp, current, ethact, recvOf, frames, handed, restarted>>
        BY <1>7 DEF EthTyped, EthTypeOK, LookAtNetState
    <2>2. CASE netState # "success"
        <3>1. at' \in {"poll", "idle", "examine"} /\ netState' \in {"continue", "fail"} /\ rings' = rings /\ depth' \in {depth, 0}
            BY <1>7, <2>1, <2>2 DEF LookAtNetState, Leave
        <3> QED
            BY <2>1, <3>1 DEF EthTyped, EthTypeOK, Linked, InStep, InStepBy
    <2>3. CASE netState = "success"
        <3>1. at' = Leave /\ rings' = Halted(rings, current) /\ depth' = 0 /\ UNCHANGED netState
            BY <1>7, <2>3 DEF LookAtNetState
        <3>2. RingsTyped'
            BY <1>1, <3>1, HaltedIs DEF RingsTyped
        <3>3. InStep(rings[current]) => InStep(rings'[current'])
            BY <1>1, <2>1, <3>1, HaltedInStep
        <3> QED
            BY <2>1, <3>1, <3>2, <3>3 DEF EthTyped, EthTypeOK, RingsTyped, RingType, Linked, Leave
    <2> QED
        BY <2>2, <2>3
<1> QED
    BY <1>2, <1>3, <1>4, <1>5, <1>6, <1>7

(* The rest of ag7240_recv; the device it works on may be another one.     *)
LEMMA RecvSteps ==
    ASSUME EthTyped, Look \/ Give \/ Receive
    PROVE  EthTyped' /\ restarted' \in {restarted, "now"}
           /\ (restarted' # "now" /\ CurrentInStep => CurrentInStep')
<1> DEFINE e == recvOf.device
           r == rings[e]
<1>1. RingsTyped /\ current \in Devs /\ e \in Devs /\ r \in RingType /\ Ring = r
      /\ recvOf \in [device : Devs, slot : Slots, described : 0 .. MaxFrames]
    BY TypedRings DEF EthTyped, EthTypeOK, RingsTyped, Ring
<1>2. r.next \in Slots /\ r.described[r.next] \in 0 .. MaxFrames /\ NextSlot(r.next) \in Slots
    BY <1>1, AfterIs DEF RingType
<1>3. CASE Look /\ Ring.owner[Ring.next] = "cpu"
    <2>1. at' = "receive" /\ rings' = rings
          /\ recvOf' = [recvOf EXCEPT !.slot = r.next, !.described = r.described[r.next]]
          /\ UNCHANGED <<packets, linkUp, current, ethact, netState, depth, frames, handed, restarted>>
        BY <1>1, <1>3 DEF Look
    <2>2. /\ recvOf' \in [device : Devs, slot : Slots, described : 0 .. MaxFrames]
          /\ recvOf'.device = e /\ recvOf'.slot = r.next /\ recvOf'.described = r.described[r.next]
        BY <1>1, <1>2, <2>1
    <2>3. EthTyped'
        BY <2>1, <2>2 DEF EthTyped, EthTypeOK, Linked
    <2>4. CurrentInStep => CurrentInStep'
        <3>1. at = "look" /\ r.owner[r.next] = "cpu"
            BY <1>1, <1>3 DEF Look
        <3>2. CurrentInStep => e = current
            BY <3>1 DEF CurrentInStep, RecvAtCurrent
        <3> QED
            BY <2>1, <2>2, <3>1, <3>2 DEF CurrentInStep, RecvAtCurrent, InStep, InStepBy
    <2> QED
        BY <2>1, <2>3, <2>4
<1>4. CASE Look /\ Ring.owner[Ring.next] # "cpu"
    <2> DEFINE q == [r EXCEPT !.pos = IF r.on THEN @ ELSE r.next, !.on = TRUE]
    <2>1. at' = "ctrlc" /\ rings' = Resumed /\ recvOf' = recvOf /\ at = "look"
          /\ UNCHANGED <<packets, linkUp, current, ethact, netState, depth, frames, handed, restarted>>
        BY <1>4 DEF Look
    <2>2. q \in RingType /\ q.owner = r.owner /\ q.next = r.next /\ q.pos = IF r.on THEN r.pos ELSE r.next
        BY <1>1 DEF RingType
    <2>3. rings' = [rings EXCEPT ![e] = q]
        BY <1>1, <2>1 DEF Resumed, RingsTyped, RingType
    <2>4. CurrentInStep => e = current /\ InStep(q)
        BY <1>1, <1>4, <2>1, <2>2, ResumeKeepsStep DEF CurrentInStep, RecvAtCurrent
    <2> HIDE DEF q
    <2>5. RingsTyped'
        BY <1>1, <2>2, <2>3 DEF RingsTyped
    <2>6. EthTyped'
        BY <2>1, <2>5 DEF EthTyped, EthTypeOK, RingsTyped, RingType, Linked
    <2>7. CurrentInStep => CurrentInStep'
        BY <1>1, <2>1, <2>3, <2>4 DEF CurrentInStep, RecvAtCurrent, RingsTyped
    <2> QED
        BY <2>1, <2>6, <2>7
<1>5. CASE Give
    <2> DEFINE q == [r EXCEPT !.owner[recvOf.slot] = "dma", !.next = NextSlot(r.next)]
    <2>1. at' = "look" /\ at = "give" /\ rings' = [rings EXCEPT ![e] = q]
          /\ UNCHANGED <<packets, linkUp, current, ethact, netState, depth, recvOf, frames, handed, restarted>>
        BY <1>1, <1>5 DEF Give, RingsTyped, RingType
    <2>2. /\ q \in RingType /\ q.owner = [r.owner EXCEPT ![recvOf.slot] = "dma"] /\ q.next = NextSlot(r.next)
          /\ q.pos = r.pos
        BY <1>1, <1>2 DEF RingType
    <2>3. CurrentInStep => e = current /\ recvOf.slot = r.next /\ r.owner[r.next] = "cpu" /\ InStep(r)
        BY <2>1 DEF CurrentInStep, RecvAtCurrent
    <2>4. CurrentInStep => InStep(q)
        <3>1. SUFFICES ASSUME CurrentInStep PROVE InStep(q)
            OBVIOUS
        <3>2. recvOf.slot = r.next /\ r.owner[r.next] = "cpu" /\ InStep(r)
            BY <2>3, <3>1
        <3>3. q.owner = [r.owner EXCEPT ![r.next] = "dma"]
            BY <2>2, <3>2
        <3> HIDE DEF q, r
        <3> QED
            BY <1>1, <2>2, <3>2, <3>3, GiveKeepsStep
    <2> HIDE DEF q
    <2>5. RingsTyped'
        BY <1>1, <2>1, <2>2 DEF RingsTyped
    <2>6. EthTyped'
        BY <2>1, <2>5 DEF EthTyped, EthTypeOK, RingsTyped, RingType, Linked
    <2>7. CurrentInStep => CurrentInStep'
        BY <1>1, <2>1, <2>3, <2>4 DEF CurrentInStep, RecvAtCurrent, RingsTyped
    <2> QED
        BY <2>1, <2>6, <2>7
<1>6. CASE Receive
    <2>1. /\ at = "receive" /\ at' = "give" /\ UNCHANGED <<packets, linkUp, depth, recvOf, frames>>
          /\ handed' = [described |-> recvOf.described, found |-> packets[recvOf.slot]]
        BY <1>6 DEF Receive
    <2>2. CASE NetStartAgain /\ restarted' = "now"
        BY <2>1, <2>2, StartsAgain DEF EthTyped, EthTypeOK, RingsTyped, RingType, Linked
    <2>3. CASE netState' \in {netState, "success"} /\ UNCHANGED <<rings, current, ethact, restarted>>
        <3>1. EthTyped'
            BY <2>1, <2>3 DEF EthTyped, EthTypeOK, Linked
        <3>2. CurrentInStep => CurrentInStep'
            BY <2>1, <2>3 DEF CurrentInStep, InStep, InStepBy, RecvAtCurrent
        <3> QED
            BY <2>3, <3>1, <3>2
    <2> QED
        BY <1>6, <2>2, <2>3 DEF Receive
<1> QED
    BY <1>3, <1>4, <1>5, <1>6

(* The three together.                                                     *)
EthInv ==
    /\ EthTyped
    /\ restarted # "now" => CurrentInStep
    /\ restarted = "never" => EthKept

(* A handler's restart is never taken back but by the start of a loop.     *)
LEMMA NeverBefore ==
    ASSUME [EthNext]_ethVars, restarted' = "never"
    PROVE  restarted = "never"
<1>1. CASE Command \/ Ctrlc
    <2>1. ASSUME NEW level, StartLoop(level) PROVE restarted = "never"
        BY <2>1 DEF StartLoop
    <2> QED
        BY <1>1, <2>1 DEF Command, Ctrlc
<1>2. CASE Receive
    BY <1>2 DEF Receive
<1>3. CASE Look \/ Give \/ Poll \/ Timeout \/ NoTimeout \/ LookAtNetState
    BY <1>3 DEF Look, Give, Poll, Timeout, NoTimeout, LookAtNetState
<1>4. CASE Hardware
    BY <1>4 DEF Hardware, Store, Overrun, Cable
<1>5. CASE UNCHANGED ethVars
    BY <1>5 DEF ethVars
<1> QED
    BY <1>1, <1>2, <1>3, <1>4, <1>5 DEF EthNext, Program

LEMMA EthStep ==
    ASSUME MinLinks \in Nat \ {0}, EthInv, [EthNext]_ethVars
    PROVE  EthInv'
<1>1. EthTyped /\ (restarted # "now" => CurrentInStep) /\ (restarted = "never" => EthKept)
    BY DEF EthInv
<1>2. restarted' = "never" => EthKept'
    BY <1>1, NeverBefore, KeptStep
<1>3. EthTyped' /\ (restarted' # "now" => CurrentInStep')
    <2>1. CASE Look \/ Give \/ Receive
        BY <1>1, <2>1, RecvSteps
    <2>2. CASE Hardware
        BY <1>1, <2>2, EngineSteps
    <2>3. CASE Command \/ Poll \/ Ctrlc \/ Timeout \/ NoTimeout \/ LookAtNetState
        <3>1. /\ EthTyped'
              /\ at' \notin {"look", "receive", "give"} \/ (at' = "look" /\ recvOf'.device = current')
              /\ InStep(rings[current]) \/ restarted' # restarted => InStep(rings'[current'])
            BY <1>1, <2>3, LoopSteps
        <3>2. RecvAtCurrent'
            BY <3>1 DEF RecvAtCurrent
        <3>3. restarted' # "now" => InStep(rings'[current'])
            BY <1>1, <3>1 DEF CurrentInStep
        <3> QED
            BY <3>1, <3>2, <3>3 DEF CurrentInStep
    <2>4. CASE UNCHANGED ethVars
        BY <1>1, <2>4
        DEF ethVars, EthTyped, EthTypeOK, Linked, CurrentInStep, InStep, InStepBy, RecvAtCurrent
    <2> QED
        BY <2>1, <2>2, <2>3, <2>4 DEF EthNext, Program
<1> QED
    BY <1>2, <1>3 DEF EthInv

(* The driver, for every number of devices and slots (ag7240.c, eth.c and  *)
(* net.c), as long as one cable at least stays in: whatever sequence of    *)
(* arrivals, full rings, time-outs, switches of the device and loops of    *)
(* the console, every device is found by its name.  Until the handler of a *)
(* packet starts again, NetReceive gets the bytes that the descriptor      *)
(* announces and one engine at most stores into NetRxPackets; next_rx and  *)
(* the engine agree until then, and from the next start of a loop on.      *)
THEOREM RingsSafe ==
    ASSUME MinLinks \in Nat \ {0}
    PROVE  EthSpec => []RingsAreSafe
<1>1. EthInv => RingsAreSafe
    <2> SUFFICES ASSUME EthInv PROVE RingsAreSafe
        OBVIOUS
    <2>1. EthTypeOK /\ current \in Devs /\ rings[current] \in RingType /\ ethact = current
        BY DEF EthInv, EthTyped, EthTypeOK, RingType
    <2>2. OneReceiver
        <3>1. SUFFICES ASSUME restarted = "never" PROVE Cardinality({d \in Devs : rings[d].on}) <= 1
            BY DEF OneReceiver
        <3>2. {d \in Devs : rings[d].on} \subseteq {current}
            BY <3>1 DEF EthInv, EthKept, OnlyCurrentRuns
        <3>3. IsFiniteSet({current}) /\ Cardinality({current}) = 1
            BY FS_Singleton
        <3>4. Cardinality({d \in Devs : rings[d].on}) <= Cardinality({current})
            BY <3>2, <3>3, FS_Subset
        <3> QED
            BY <3>3, <3>4
    <2>3. RingInStep
        BY <2>1, InStepMeans DEF EthInv, CurrentInStep, RingInStep
    <2>4. DevicesAreFound
        BY <2>1, DevicesFound
    <2>5. HandedIntact
        BY DEF EthInv, EthKept, FramesIntact, HandedIntact
    <2> QED
        BY <2>1, <2>2, <2>3, <2>4, <2>5 DEF RingsAreSafe
<1>2. EthInit => EthInv
    <2> SUFFICES ASSUME EthInit PROVE EthInv
        OBVIOUS
    <2>1. EthKept
        BY InitEth
    <2> QED
        BY <2>1 DEF EthKept, EthInv, EthTyped, EthTypeOK, CurrentInStep, AllInStep
<1> QED
    BY <1>1, <1>2, EthStep, PTL DEF EthSpec

-----------------------------------------------------------------------------
(* The address table of the web failsafe.                                  *)

LEMMA FirstOfIs ==
    ASSUME NEW S \in SUBSET Entries, S # {}
    PROVE  FirstOf(S) \in S
<1>1. S \in SUBSET Nat
    BY UipArpAssumption DEF Entries
<1> QED
    BY <1>1, LeastNumber DEF FirstOf

(* After an update the address has one entry, and that one is right.       *)
LEMMA UpdateIs ==
    ASSUME ArpTypeOK, OneEntryPerAddress, NEW ip \in LocalHosts, NEW ether \in EthAddrs,
           arpTable' = uip_arp_update(arpTable, ip, ether)
    PROVE  /\ arpTable' \in [Entries -> [ip : LocalHosts \cup {NoIp}, ether : EthAddrs \cup {NullEther}]]
           /\ OneEntryPerAddress'
           /\ Using(arpTable', ip) # {} /\ \A t \in Using(arpTable', ip) : arpTable'[t].ether = ether
<1> DEFINE s == IF Using(arpTable, ip) # {} THEN FirstOf(Using(arpTable, ip))
                ELSE IF Using(arpTable, NoIp) # {} THEN FirstOf(Using(arpTable, NoIp))
                ELSE ArpSlots
<1>1. s \in Entries /\ (Using(arpTable, ip) # {} => s \in Using(arpTable, ip))
    <2>1. \A a : Using(arpTable, a) \in SUBSET Entries
        BY DEF Using
    <2>2. ArpSlots \in Entries
        BY UipArpAssumption DEF Entries
    <2> QED
        BY <2>1, <2>2, FirstOfIs
<1>2. arpTable' = [arpTable EXCEPT ![s] = [ip |-> ip, ether |-> ether]]
    BY DEF uip_arp_update
<1> HIDE DEF s
<1>3. arpTable' \in [Entries -> [ip : LocalHosts \cup {NoIp}, ether : EthAddrs \cup {NullEther}]]
    BY <1>1, <1>2 DEF ArpTypeOK
<1>4. arpTable'[s].ip = ip /\ arpTable'[s].ether = ether /\ \A t \in Entries : t # s => arpTable'[t] = arpTable[t]
    BY <1>1, <1>2 DEF ArpTypeOK
<1>5. \A t \in Entries : t # s => arpTable[t].ip # ip
    BY <1>1, UipArpAssumption DEF OneEntryPerAddress, Using
<1>6. Using(arpTable', ip) = {s}
    BY <1>1, <1>4, <1>5 DEF Using
<1> QED
    BY <1>1, <1>3, <1>4, <1>5, <1>6 DEF OneEntryPerAddress

(* What leaves for an address that was just learnt.                        *)
LEMMA OutReaches ==
    ASSUME NEW tab, NEW ip \in LocalHosts, NEW ether,
           Using(tab, ip) # {}, \A t \in Using(tab, ip) : tab[t].ether = ether
    PROVE  uip_arp_out(tab, ip) = [kind |-> "ip", to |-> ether]
<1>1. Using(tab, ip) \in SUBSET Entries /\ NextHop(ip) = ip
    BY DEF Using, NextHop
<1>2. FirstOf(Using(tab, ip)) \in Using(tab, ip)
    BY <1>1, FirstOfIs
<1> QED
    BY <1>1, <1>2 DEF uip_arp_out

(* The answer of the failsafe server goes to the PC that asked, for every  *)
(* number of hosts and entries: also when the table is full and when       *)
(* another PC has taken the address (uip_arp.c, NetReceiveHttpd).          *)
THEOREM AnswersReach == ArpSpec => []AnswerReachesAsker
<1>1. ArpInit => AnswerReachesAsker
    <2> SUFFICES ASSUME ArpInit PROVE AnswerReachesAsker
        OBVIOUS
    <2>1. ArpTypeOK
        BY UipArpAssumption DEF ArpInit, ArpTypeOK
    <2>2. OneEntryPerAddress /\ arpSent.ip \notin LocalHosts
        BY UipArpAssumption DEF ArpInit, OneEntryPerAddress
    <2> QED
        BY <2>1, <2>2 DEF AnswerReachesAsker
<1>2. AnswerReachesAsker /\ [ArpNext]_arpVars => AnswerReachesAsker'
    <2> SUFFICES ASSUME AnswerReachesAsker, [ArpNext]_arpVars PROVE AnswerReachesAsker'
        OBVIOUS
    <2>1. ArpTypeOK /\ OneEntryPerAddress
        BY DEF AnswerReachesAsker
    <2>2. ASSUME NEW ip \in LocalHosts \cup RemoteHosts, NEW e \in EthAddrs, NetReceiveIp(ip, e)
          PROVE  AnswerReachesAsker'
        <3>1. CASE ip \in LocalHosts
            <4>1. arpTable' = uip_arp_update(arpTable, ip, e) /\ pcOf' = pcOf
                BY <2>2, <3>1 DEF NetReceiveIp, uip_arp_ipin
            <4>2. uip_arp_out(arpTable', ip) = [kind |-> "ip", to |-> e]
                BY <2>1, <3>1, <4>1, UpdateIs, OutReaches
            <4>3. ArpTypeOK' /\ OneEntryPerAddress'
                BY <2>1, <3>1, <4>1, UpdateIs DEF ArpTypeOK
            <4>4. arpSent' \in {[ip |-> ip, from |-> e, sent |-> [kind |-> "ip", to |-> e]],
                                [ip |-> ip, from |-> e, sent |-> [kind |-> "nothing", to |-> "all"]]}
                BY <2>2, <4>2 DEF NetReceiveIp
            <4> QED
                BY <4>3, <4>4 DEF AnswerReachesAsker
        <3>2. CASE ip \notin LocalHosts
            <4>1. arpTable' = arpTable /\ pcOf' = pcOf /\ arpSent'.ip = ip
                BY <2>2, <3>2 DEF NetReceiveIp, uip_arp_ipin
            <4> QED
                BY <2>1, <3>2, <4>1 DEF AnswerReachesAsker, ArpTypeOK, OneEntryPerAddress
        <3> QED
            BY <3>1, <3>2
    <2>3. ASSUME NEW ip \in LocalHosts, NEW b \in BOOLEAN, NetReceiveArpRequest(ip, b)
          PROVE  AnswerReachesAsker'
        BY <2>1, <2>3 DEF NetReceiveArpRequest, AnswerReachesAsker, ArpTypeOK, OneEntryPerAddress
    <2>4. ASSUME NEW ip \in LocalHosts, NetReceiveArpReply(ip)
          PROVE  AnswerReachesAsker'
        <3>1. pcOf[ip] \in EthAddrs
            BY <2>1 DEF ArpTypeOK
        <3>2. ArpTypeOK' /\ OneEntryPerAddress'
            BY <2>1, <2>4, <3>1, UpdateIs DEF NetReceiveArpReply, ArpTypeOK
        <3> QED
            BY <2>4, <3>2 DEF NetReceiveArpReply, AnswerReachesAsker
    <2>5. ASSUME NEW ip \in LocalHosts, NEW e \in EthAddrs, NewPc(ip, e)
          PROVE  AnswerReachesAsker'
        BY <2>5 DEF NewPc, AnswerReachesAsker, ArpTypeOK, OneEntryPerAddress
    <2>6. CASE UNCHANGED arpVars
        BY <2>6 DEF arpVars, AnswerReachesAsker, ArpTypeOK, OneEntryPerAddress
    <2> QED
        BY <2>2, <2>3, <2>4, <2>5, <2>6 DEF ArpNext
<1> QED
    BY <1>1, <1>2, PTL DEF ArpSpec

-----------------------------------------------------------------------------
(* The address of the board: the inductive invariant                       *)

Places == Addresses \cup {NoAddr}
ClientRecords ==
    [state : {"INIT", "SELECTING", "REQUESTING", "BOUND"}, id : 0 .. MaxIds, try : 0 .. TimeoutCount + 1,
     ourIP : Places, dhcpServer : Servers \cup {NoServer}, netState : {"idle", "continue", "restart", "success", "fail"},
     timer : {"none", "bootp", "again", "tftp"}, devicesLeft : 1 .. NetDevices, ipaddr : Places]
Messages ==
    [type : {"DISCOVER", "OFFER", "REQUEST", "ACK", "NAK"}, id : 0 .. MaxIds, server : Servers \cup {NoServer},
     addr : Places]

DhcpTyped ==
    /\ client \in ClientRecords /\ messages \subseteq Messages
    /\ leases \in [Servers -> SUBSET Places] /\ elsewhere \subseteq Addresses

(* A server acknowledges what it was asked for and has leased.             *)
AcksLeased ==
    \A m \in messages : m.type = "ACK" =>
        /\ m.server \in Servers /\ m.addr \in leases[m.server]
        /\ Msg("REQUEST", m.id, m.server, m.addr) \in messages

LeasedOnce == \A s \in Servers : leases[s] \cap elsewhere = {}

(* Only a client that is bound goes on to TFTP or ends with success.       *)
SuccessIsBound == client.netState = "success" \/ client.timer = "tftp" => client.state = "BOUND"

BoundToServer ==
    client.state = "BOUND" =>
        /\ client.dhcpServer \in Servers /\ client.ourIP \in leases[client.dhcpServer]
        /\ Msg("REQUEST", client.id, client.dhcpServer, client.ourIP) \in messages

DhcpInv == DhcpTyped /\ AcksLeased /\ LeasedOnce /\ SuccessIsBound /\ BoundToServer /\ SavedIsLeased

-----------------------------------------------------------------------------
(* What the client does                                                    *)

LEMMA RequestOK ==
    ASSUME NEW c \in ClientRecords, c.id < MaxIds, c.try < TimeoutCount
    PROVE  LET n == BootpRequest(c)
           IN  n \in ClientRecords /\ n.state = "SELECTING" /\ n.timer = "bootp" /\ n.netState = c.netState /\ n.ipaddr = c.ipaddr
<1>1. /\ c.id \in 0 .. MaxIds /\ c.try \in 0 .. TimeoutCount + 1
      /\ MaxIds \in Nat /\ TimeoutCount \in Nat
    BY DhcpAssumption DEF ClientRecords
<1>2. c.id + 1 \in 0 .. MaxIds /\ c.try + 1 \in 0 .. TimeoutCount + 1
    BY <1>1
<1> QED
    BY <1>2 DEF BootpRequest, ClientRecords

LEMMA AgainOK ==
    ASSUME NEW c \in ClientRecords
    PROVE  LET n == DhcpStartAgain(c)
           IN  /\ n \in ClientRecords /\ n.netState \in {c.netState, "fail", "restart"} /\ n.timer \in {"none", "again"}
               /\ n.state = c.state /\ n.id = c.id /\ n.ourIP = c.ourIP /\ n.dhcpServer = c.dhcpServer
               /\ n.ipaddr = c.ipaddr
<1>1. c.devicesLeft \in 1 .. NetDevices /\ NetDevices \in Nat \ {0}
    BY DhcpAssumption DEF ClientRecords
<1>2. CASE c.devicesLeft > 1
    <2>1. c.devicesLeft - 1 \in 1 .. NetDevices
        BY <1>1, <1>2
    <2> QED
        BY <1>1, <1>2, <2>1 DEF DhcpStartAgain, ClientRecords
<1>3. CASE ~(c.devicesLeft > 1)
    <2>1. NetDevices \in 1 .. NetDevices
        BY <1>1
    <2> QED
        BY <1>1, <1>3, <2>1 DEF DhcpStartAgain, ClientRecords
<1> QED
    BY <1>2, <1>3

(* A step of the client that sends nothing and does not bind.              *)
LEMMA ClientStep ==
    ASSUME DhcpInv, client' \in ClientRecords, UNCHANGED <<messages, leases, elsewhere>>,
           client'.ipaddr = client.ipaddr,
           \/ client'.state # "BOUND"
           \/ /\ client'.state = client.state /\ client'.id = client.id
              /\ client'.ourIP = client.ourIP /\ client'.dhcpServer = client.dhcpServer,
           SuccessIsBound'
    PROVE  DhcpInv'
<1>1. DhcpTyped' /\ AcksLeased' /\ LeasedOnce'
    BY DEF DhcpInv, DhcpTyped, AcksLeased, LeasedOnce, Msg
<1>2. BoundToServer' /\ SavedIsLeased'
    BY DEF DhcpInv, BoundToServer, SavedIsLeased, Msg
<1> QED
    BY <1>1, <1>2 DEF DhcpInv

(* A message other than an acknowledgement is sent.                        *)
LEMMA SendStep ==
    ASSUME DhcpInv, client' \in ClientRecords, UNCHANGED <<leases, elsewhere>>,
           client'.ipaddr = client.ipaddr,
           client' = client \/ client'.state # "BOUND", SuccessIsBound',
           NEW m \in Messages, m.type # "ACK", messages' = messages \cup {m}
    PROVE  DhcpInv'
<1>1. DhcpTyped' /\ LeasedOnce'
    BY DEF DhcpInv, DhcpTyped, LeasedOnce
<1>2. AcksLeased'
    BY DEF DhcpInv, AcksLeased, Msg
<1>3. BoundToServer' /\ SavedIsLeased'
    BY DEF DhcpInv, BoundToServer, SavedIsLeased, Msg
<1> QED
    BY <1>1, <1>2, <1>3 DEF DhcpInv

LEMMA DhcpStarts == DhcpInit => DhcpInv
<1> SUFFICES ASSUME DhcpInit PROVE DhcpInv
    OBVIOUS
<1>1. client \in ClientRecords
    BY DhcpAssumption DEF DhcpInit, ClientRecords, Places
<1>2. DhcpTyped /\ AcksLeased /\ LeasedOnce
    BY <1>1 DEF DhcpInit, DhcpTyped, AcksLeased, LeasedOnce
<1>3. SuccessIsBound /\ BoundToServer /\ SavedIsLeased
    BY DEF DhcpInit, SuccessIsBound, BoundToServer, SavedIsLeased
<1> QED
    BY <1>2, <1>3 DEF DhcpInv

LEMMA CommandKeeps ==
    ASSUME DhcpInv, Restart PROVE DhcpInv'
<1> DEFINE c == [client EXCEPT !.try = 0, !.ourIP = NoAddr, !.netState = "continue"]
<1>1. client \in ClientRecords
    BY DEF DhcpInv, DhcpTyped
<1>2. client.id < MaxIds
    <2>1. client.id \in Int /\ NetDevices \in Nat \ {0} /\ TimeoutCount \in Nat \ {0} /\ MaxIds \in Nat
        BY <1>1, DhcpAssumption DEF ClientRecords
    <2>2. ASSUME NEW d \in Nat \ {0}, NEW t \in Nat \ {0} PROVE d * t >= 1
        BY <2>2
    <2>3. NetDevices * TimeoutCount >= 1 /\ NetDevices * TimeoutCount \in Int
        BY <2>1, <2>2
    <2> QED
        BY <2>1, <2>3 DEF Restart
<1>3. c \in ClientRecords /\ c.id = client.id /\ c.try = 0 /\ c.netState = "continue" /\ c.ipaddr = client.ipaddr
    <2>1. 0 \in 0 .. TimeoutCount + 1
        BY DhcpAssumption
    <2> QED
        BY <1>1, <2>1 DEF ClientRecords, Places
<1>4. /\ client' = BootpRequest(c) /\ messages' = messages \cup {Discover(client')}
      /\ UNCHANGED <<leases, elsewhere>>
    BY DEF Restart, StartDhcp
<1> HIDE DEF c
<1>5. /\ client' \in ClientRecords /\ client'.state = "SELECTING" /\ client'.timer = "bootp"
      /\ client'.netState = "continue" /\ client'.ipaddr = client.ipaddr
    BY <1>2, <1>3, <1>4, RequestOK, DhcpAssumption
<1>6. Discover(client') \in Messages /\ Discover(client').type # "ACK"
    BY <1>5 DEF Discover, Msg, Messages, ClientRecords, Places
<1>7. SuccessIsBound'
    BY <1>5 DEF SuccessIsBound
<1> QED
    BY <1>4, <1>5, <1>6, <1>7, SendStep

LEMMA TimeoutKeeps ==
    ASSUME DhcpInv, DhcpTimeout PROVE DhcpInv'
<1>1. client \in ClientRecords /\ client.netState = "continue" /\ client.timer = "bootp"
    BY DEF DhcpInv, DhcpTyped, DhcpTimeout, DhcpRunning
<1>2. CASE client.try >= TimeoutCount
    <2> DEFINE c == [client EXCEPT !.timer = "none"]
    <2>1. c \in ClientRecords /\ \A f \in {"state", "id", "ourIP", "dhcpServer", "ipaddr", "netState"} : c[f] = client[f]
        BY <1>1 DEF ClientRecords
    <2>2. client' = DhcpStartAgain(c) /\ UNCHANGED <<messages, leases, elsewhere>>
        BY <1>2 DEF DhcpTimeout
    <2> HIDE DEF c
    <2>3. /\ client' \in ClientRecords /\ client'.netState \in {c.netState, "fail", "restart"} /\ client'.timer \in {"none", "again"}
          /\ client'.state = c.state /\ client'.id = c.id /\ client'.ourIP = c.ourIP
          /\ client'.dhcpServer = c.dhcpServer /\ client'.ipaddr = c.ipaddr
        BY <2>1, <2>2, AgainOK
    <2>4. SuccessIsBound'
        BY <1>1, <2>1, <2>3 DEF SuccessIsBound
    <2> QED
        BY <2>1, <2>2, <2>3, <2>4, ClientStep
<1>3. CASE ~(client.try >= TimeoutCount)
    <2>1. /\ client.id < MaxIds /\ client' = BootpRequest(client) /\ messages' = messages \cup {Discover(client')}
          /\ UNCHANGED <<leases, elsewhere>>
        BY <1>3 DEF DhcpTimeout
    <2>2. client.try < TimeoutCount
        BY <1>1, <1>3, DhcpAssumption DEF ClientRecords
    <2>3. /\ client' \in ClientRecords /\ client'.state = "SELECTING" /\ client'.timer = "bootp"
          /\ client'.netState = "continue" /\ client'.ipaddr = client.ipaddr
        BY <1>1, <2>1, <2>2, RequestOK
    <2>4. Discover(client') \in Messages /\ Discover(client').type # "ACK"
        BY <2>3 DEF Discover, Msg, Messages, ClientRecords, Places
    <2>5. SuccessIsBound'
        BY <2>3 DEF SuccessIsBound
    <2> QED
        BY <2>1, <2>3, <2>4, <2>5, SendStep
<1> QED
    BY <1>2, <1>3

LEMMA ReplyKeeps ==
    ASSUME DhcpInv, NEW m \in messages, DhcpHandler(m) PROVE DhcpInv'
<1>1. /\ client \in ClientRecords /\ client.netState = "continue" /\ client.timer = "bootp"
      /\ m \in Messages /\ m.id = client.id
    BY DEF DhcpInv, DhcpTyped, DhcpHandler, DhcpRunning, BootpCheckPkt
<1> DEFINE c == [client EXCEPT !.ourIP = m.addr, !.dhcpServer = m.server]
<1>2. /\ c \in ClientRecords /\ c.ourIP = m.addr /\ c.dhcpServer = m.server
      /\ \A f \in {"state", "id", "timer", "ipaddr", "netState"} : c[f] = client[f]
    BY <1>1 DEF ClientRecords, Messages
<1>3. TakeParams(client, m) = c
    BY DEF TakeParams
<1> HIDE DEF c
<1>4. CASE DhcpSelecting(m)
    <2>1. /\ client' = [c EXCEPT !.state = "REQUESTING", !.timer = "bootp"]
          /\ messages' = messages \cup {Msg("REQUEST", m.id, client'.dhcpServer, client'.ourIP)}
          /\ UNCHANGED <<leases, elsewhere>>
        BY <1>3, <1>4 DEF DhcpSelecting
    <2>2. /\ client' \in ClientRecords /\ client'.state = "REQUESTING" /\ client'.timer = "bootp"
          /\ client'.netState = "continue" /\ client'.ipaddr = client.ipaddr
        BY <1>1, <1>2, <2>1 DEF ClientRecords
    <2>3. LET r == Msg("REQUEST", m.id, client'.dhcpServer, client'.ourIP)
          IN  r \in Messages /\ r.type # "ACK"
        BY <1>1, <2>2 DEF Msg, Messages, ClientRecords
    <2>4. SuccessIsBound'
        BY <2>2 DEF SuccessIsBound
    <2> QED
        BY <2>1, <2>2, <2>3, <2>4, SendStep
<1>5. CASE DhcpBound(m)
    <2>1. /\ m.type = "ACK" /\ UNCHANGED <<messages, leases, elsewhere>>
          /\ \/ client' = [c EXCEPT !.state = "BOUND", !.netState = "success"]
             \/ client' = [c EXCEPT !.state = "BOUND", !.timer = "tftp"]
        BY <1>3, <1>5 DEF DhcpBound, IsAck
    <2>2. /\ client' \in ClientRecords /\ client'.state = "BOUND" /\ client'.ourIP = m.addr /\ client'.dhcpServer = m.server
          /\ client'.id = m.id /\ client'.ipaddr = client.ipaddr
        BY <1>1, <1>2, <2>1 DEF ClientRecords
    <2>3. /\ m.server \in Servers /\ m.addr \in leases[m.server]
          /\ Msg("REQUEST", m.id, m.server, m.addr) \in messages
        BY <2>1 DEF DhcpInv, AcksLeased
    <2>4. BoundToServer' /\ SuccessIsBound'
        BY <2>1, <2>2, <2>3 DEF BoundToServer, SuccessIsBound, Msg
    <2>5. DhcpTyped' /\ AcksLeased' /\ LeasedOnce' /\ SavedIsLeased'
        BY <2>1, <2>2 DEF DhcpInv, DhcpTyped, AcksLeased, LeasedOnce, SavedIsLeased, Msg
    <2> QED
        BY <2>4, <2>5 DEF DhcpInv
<1> QED
    BY <1>4, <1>5 DEF DhcpHandler

LEMMA EndsKeep ==
    ASSUME DhcpInv, AgainTimeout \/ TftpEnds PROVE DhcpInv'
<1>1. /\ client \in ClientRecords /\ client.netState = "continue"
      /\ client.timer = "tftp" => client.state = "BOUND"
      /\ UNCHANGED <<messages, leases, elsewhere>>
    BY DEF DhcpInv, DhcpTyped, SuccessIsBound, AgainTimeout, TftpEnds, DhcpRunning
<1> DEFINE c == [client EXCEPT !.timer = "none"]
<1>2. c \in ClientRecords /\ \A f \in {"state", "id", "ourIP", "dhcpServer", "ipaddr", "netState"} : c[f] = client[f]
    BY <1>1 DEF ClientRecords
<1> DEFINE Kept == \A f \in {"state", "id", "ourIP", "dhcpServer", "ipaddr"} : client'[f] = client[f]
<1>3. CASE AgainTimeout
    <2>1. client' \in ClientRecords /\ Kept /\ client'.netState = "restart" /\ client'.timer = "none"
        BY <1>1, <1>3 DEF AgainTimeout, ClientRecords
    <2>2. SuccessIsBound'
        BY <2>1 DEF SuccessIsBound
    <2> QED
        BY <1>1, <2>1, <2>2, ClientStep
<1>4. CASE TftpEnds /\ client' = [client EXCEPT !.netState = "success", !.timer = "none"]
    <2>1. client' \in ClientRecords /\ Kept
        BY <1>1, <1>4 DEF ClientRecords
    <2>2. SuccessIsBound'
        BY <1>1, <1>4, <2>1 DEF SuccessIsBound, TftpEnds
    <2> QED
        BY <1>1, <2>1, <2>2, ClientStep
<1>5. CASE TftpEnds /\ client' = DhcpStartAgain(c)
    <2> HIDE DEF c
    <2>1. /\ client' \in ClientRecords /\ client'.netState \in {c.netState, "fail", "restart"} /\ client'.timer \in {"none", "again"}
          /\ client'.state = c.state /\ client'.id = c.id /\ client'.ourIP = c.ourIP
          /\ client'.dhcpServer = c.dhcpServer /\ client'.ipaddr = c.ipaddr
        BY <1>2, <1>5, AgainOK
    <2>2. SuccessIsBound'
        BY <1>1, <1>2, <2>1 DEF SuccessIsBound
    <2> QED
        BY <1>1, <1>2, <2>1, <2>2, ClientStep
<1> QED
    BY <1>3, <1>4, <1>5 DEF TftpEnds

LEMMA ReturnKeepsLease ==
    ASSUME DhcpInv, Return PROVE DhcpInv'
<1>1. client \in ClientRecords /\ NetDevices \in 1 .. NetDevices
    BY DhcpAssumption DEF DhcpInv, DhcpTyped
<1>2. /\ UNCHANGED <<messages, leases, elsewhere>>
      /\ client' \in ClientRecords /\ client'.netState = "idle" /\ client'.timer = "none"
      /\ \A f \in {"state", "id", "ourIP", "dhcpServer"} : client'[f] = client[f]
      /\ client'.ipaddr = IF client.netState = "success" THEN client.ourIP ELSE client.ipaddr
    BY <1>1 DEF Return, netboot_update_env, ClientRecords
<1>3. DhcpTyped' /\ AcksLeased' /\ LeasedOnce' /\ SuccessIsBound' /\ BoundToServer'
    BY <1>2 DEF DhcpInv, DhcpTyped, AcksLeased, LeasedOnce, SuccessIsBound, BoundToServer, Msg
<1>4. SavedIsLeased'
    <2>1. CASE client.netState = "success"
        <3>1. client.dhcpServer \in Servers /\ client.ourIP \in leases[client.dhcpServer]
            BY <2>1 DEF DhcpInv, SuccessIsBound, BoundToServer
        <3> QED
            BY <1>2, <2>1, <3>1 DEF SavedIsLeased
    <2>2. CASE client.netState # "success"
        BY <1>2, <2>2 DEF DhcpInv, SavedIsLeased
    <2> QED
        BY <2>1, <2>2
<1> QED
    BY <1>3, <1>4 DEF DhcpInv

-----------------------------------------------------------------------------
(* What the servers and the other clients do                               *)

LEMMA ServersKeep ==
    ASSUME DhcpInv, NEW m \in messages, Acknowledge(m) PROVE DhcpInv'
<1>1. /\ m \in Messages /\ m.type = "REQUEST" /\ m.server \in Servers /\ UNCHANGED <<client, elsewhere>>
      /\ client \in ClientRecords /\ leases \in [Servers -> SUBSET Places] /\ SuccessIsBound'
    BY DEF DhcpInv, DhcpTyped, Acknowledge, SuccessIsBound
<1>2. CASE m.addr \in elsewhere
    <2>1. UNCHANGED leases /\ messages' = messages \cup {Msg("NAK", m.id, m.server, NoAddr)}
        BY <1>2 DEF Acknowledge
    <2>2. Msg("NAK", m.id, m.server, NoAddr) \in Messages /\ Msg("NAK", m.id, m.server, NoAddr).type # "ACK"
        BY <1>1 DEF Msg, Messages, Places
    <2> QED
        BY <1>1, <2>1, <2>2, SendStep
<1>3. CASE m.addr \notin elsewhere
    <2> DEFINE a == Msg("ACK", m.id, m.server, m.addr)
    <2>1. /\ messages' = messages \cup {a}
          /\ leases' = [leases EXCEPT ![m.server] = @ \cup {m.addr}]
        BY <1>3 DEF Acknowledge
    <2>2. /\ a \in Messages /\ a.server = m.server /\ a.addr = m.addr /\ a.id = m.id
          /\ Msg("REQUEST", a.id, a.server, a.addr) = m
        BY <1>1 DEF Msg, Messages
    <2>3. /\ leases' \in [Servers -> SUBSET Places] /\ m.addr \in leases'[m.server]
          /\ \A s \in Servers : leases[s] \subseteq leases'[s]
          /\ \A s \in Servers : leases'[s] \subseteq leases[s] \cup {m.addr}
        BY <1>1, <2>1 DEF Messages
    <2> HIDE DEF a
    <2>4. DhcpTyped'
        BY <1>1, <2>1, <2>2, <2>3 DEF DhcpInv, DhcpTyped
    <2>5. AcksLeased'
        <3> SUFFICES ASSUME NEW n \in messages', n.type = "ACK"
                     PROVE  /\ n.server \in Servers /\ n.addr \in leases'[n.server]
                            /\ Msg("REQUEST", n.id, n.server, n.addr) \in messages'
            BY DEF AcksLeased, Msg
        <3>1. CASE n \in messages
            BY <2>1, <2>3, <3>1 DEF DhcpInv, AcksLeased
        <3>2. CASE n = a
            BY <1>1, <2>1, <2>2, <2>3, <3>2
        <3> QED
            BY <2>1, <3>1, <3>2
    <2>6. LeasedOnce'
        BY <1>1, <1>3, <2>3 DEF DhcpInv, LeasedOnce
    <2>7. BoundToServer' /\ SavedIsLeased'
        BY <1>1, <2>1, <2>3 DEF DhcpInv, BoundToServer, SavedIsLeased, Msg
    <2> QED
        BY <1>1, <2>4, <2>5, <2>6, <2>7 DEF DhcpInv
<1> QED
    BY <1>2, <1>3

LEMMA OffersKeep ==
    ASSUME DhcpInv, NEW m \in messages, NEW s \in Servers, NEW a \in Addresses, Offer(s, m, a) PROVE DhcpInv'
<1>1. /\ m \in Messages /\ client \in ClientRecords /\ UNCHANGED <<client, leases, elsewhere>>
      /\ messages' = messages \cup {Msg("OFFER", m.id, s, a)} /\ SuccessIsBound'
    BY DEF DhcpInv, DhcpTyped, Offer, SuccessIsBound
<1>2. Msg("OFFER", m.id, s, a) \in Messages /\ Msg("OFFER", m.id, s, a).type # "ACK"
    BY <1>1 DEF Msg, Messages, Places
<1> QED
    BY <1>1, <1>2, SendStep

LEMMA OthersKeep ==
    ASSUME DhcpInv, NEW a \in Addresses, OtherClient(a) PROVE DhcpInv'
<1>1. /\ elsewhere' = elsewhere \cup {a} /\ \A s \in Servers : a \notin leases[s]
      /\ UNCHANGED <<client, messages, leases>>
    BY DEF OtherClient
<1>2. DhcpTyped' /\ LeasedOnce'
    BY <1>1 DEF DhcpInv, DhcpTyped, LeasedOnce
<1>3. AcksLeased' /\ SuccessIsBound' /\ BoundToServer' /\ SavedIsLeased'
    BY <1>1 DEF DhcpInv, AcksLeased, SuccessIsBound, BoundToServer, SavedIsLeased, Msg
<1> QED
    BY <1>2, <1>3 DEF DhcpInv

LEMMA DhcpKeeps == DhcpInv /\ [DhcpNext]_dhcpVars => DhcpInv'
<1> SUFFICES ASSUME DhcpInv, [DhcpNext]_dhcpVars PROVE DhcpInv'
    OBVIOUS
<1>1. CASE DhcpNext
    <2>1. CASE AgainTimeout \/ TftpEnds
        BY <2>1, EndsKeep
    <2>2. CASE DhcpTimeout
        BY <2>2, TimeoutKeeps
    <2>3. CASE Restart
        BY <2>3, CommandKeeps
    <2>4. CASE Return
        BY <2>4, ReturnKeepsLease
    <2>5. CASE \E m \in messages : DhcpHandler(m) \/ Acknowledge(m)
        BY <2>5, ReplyKeeps, ServersKeep
    <2>6. CASE \E m \in messages, s \in Servers, a \in Addresses : Offer(s, m, a)
        BY <2>6, OffersKeep
    <2>7. CASE \E a \in Addresses : OtherClient(a)
        BY <2>7, OthersKeep
    <2> QED
        BY <1>1, <2>1, <2>2, <2>3, <2>4, <2>5, <2>6, <2>7 DEF DhcpNext
<1>2. CASE UNCHANGED dhcpVars
    <2>1. UNCHANGED client /\ UNCHANGED <<messages, leases, elsewhere>>
        BY <1>2 DEF dhcpVars
    <2>2. client' \in ClientRecords /\ SuccessIsBound'
        BY <2>1 DEF DhcpInv, DhcpTyped, SuccessIsBound
    <2> QED
        BY <2>1, <2>2, ClientStep
<1> QED
    BY <1>1, <1>2

LEMMA DhcpReports == DhcpInv => LeaseIsExact
<1> SUFFICES ASSUME DhcpInv PROVE LeaseIsExact
    OBVIOUS
<1>1. DhcpTypeOK
    BY DEF DhcpInv, DhcpTyped, DhcpTypeOK, ClientRecords, Places
<1>2. BoundIsLeased
    BY DEF DhcpInv, BoundToServer, LeasedOnce, BoundIsLeased
<1>3. SavedIsLeased /\ BoundAsRequested
    BY DEF DhcpInv, BoundToServer, BoundAsRequested
<1> QED
    BY <1>1, <1>2, <1>3 DEF LeaseIsExact

(* For any servers, addresses and other clients, however messages are      *)
(* delayed, repeated, lost or overtaken: the address the board uses is one *)
(* its server leased to it and to nobody else, which it asked for under    *)
(* its present identifier, and no other is kept in the environment         *)
(* (DhcpHandler, netboot_update_env).                                      *)
THEOREM LeaseHeld == DhcpSpec => []LeaseIsExact
<1>1. DhcpSpec => []DhcpInv
    BY DhcpStarts, DhcpKeeps, PTL DEF DhcpSpec
<1> QED
    BY <1>1, DhcpReports, PTL

-----------------------------------------------------------------------------
(* The NFS client: the inductive invariant                                 *)

Files == [dir : Dirs, file : Names]
Handles == [dir : Dirs \cup {Garbled}, file : Names \cup {Garbled}]
Spelled == Names \cup {Garbled} \cup {Append(n, c) : n \in Names, c \in Chars}
Paths == [1 .. PathMax -> Chars \cup {Nul}]
NfsStates == {"none", "PRCLOOKUP_PROG_MOUNT", "PRCLOOKUP_PROG_NFS", "MOUNT", "UMOUNT", "LOOKUP", "READ", "READLINK"}
Loads ==
    [state : NfsStates, id : 0 .. MaxCalls, mountPort : BOOLEAN, nfsPort : BOOLEAN, mounted : BOOLEAN,
     dirfh : Dirs \cup {Garbled}, filefh : Handles, dir : Dirs \cup {Garbled}, file : Spelled,
     offset : Nat, download : {"success", "fail"}, net : {"idle", "continue", "restart", "success", "fail"},
     age : 0 .. 1, loads : Nat, path : Paths, ether : BOOLEAN, grown : BOOLEAN]
CallRecords ==
    [to : {"server"}, id : 0 .. MaxCalls, proc : NfsStates,
     fh : [dir : Dirs \cup {Garbled}, file : Spelled], from : Nat]

(* Links lead from one file to another, one after the other, to what is no *)
(* link.                                                                   *)
Target(h) ==
    LET t == Content[h.dir][h.file] IN [dir |-> IF t.relative THEN h.dir ELSE t.dir, file |-> t.file]
IsLink(h) == Content[h.dir][h.file].kind = "link"
Chain(p, n) ==
    /\ p \in [0 .. n -> Files] /\ ~IsLink(p[n])
    /\ \A i \in 0 .. n - 1 : IsLink(p[i]) /\ p[i + 1] = Target(p[i])
Reaches(h, f) == \E n \in Nat : \E p \in [0 .. n -> Files] : Chain(p, n) /\ p[0] = h /\ p[n] = f

(* The calls of this load, under way or waiting for the server's address.  *)
Under == nfsNet \cup nfsHeld

(* Identifiers: what a call or a reply carries was sent, no two calls of a *)
(* load carry the same, and 0 stands for an earlier one.                   *)
Numbered ==
    /\ NfsRunning \/ Under # {} => 0 < nfs.id
    /\ \A m \in Under :
          \/ m \in CallRecords /\ m.id <= nfs.id
          \/ m.to = "board" /\ (m.id = nfs.id \/ m = OldReply)
    /\ \A c, m \in Under : c.to = "server" /\ c.id # 0 /\ m.id = c.id => m = c
    /\ \A c \in Under : c.to = "server" /\ c.id # 0 /\ c.proc = "MOUNT" => c.fh.dir \in Dirs

(* Without the server's address nothing of this load has left.             *)
Waiting ==
    /\ \A c \in nfsHeld : c.to = "server" /\ c.id # 0 /\ ~nfs.ether
    /\ ~nfs.ether => \A m \in nfsNet : m.id = 0

CallOf(n) == [to |-> "server", id |-> n.id, proc |-> n.state, fh |-> Call(n).fh, from |-> Call(n).from]
(* What carries the identifier of the call that was sent last is this call *)
(* or what the server answers to it.                                       *)
Asks ==
    NfsRunning /\ Calls(nfs) =>
        \A m \in Under : m.id = nfs.id => m = CallOf(nfs) \/ (m.to = "board" /\ m \in ServerReplies(CallOf(nfs)))

(* No MOUNT of this load is on the way but the one with this identifier.   *)
NoMount(id) == \A c \in Under : c.to = "server" /\ c.proc = "MOUNT" => c.id \in {0, id}

(* The whole file in hand is stored.                                       *)
WholeFile(n, image, wanted) ==
    /\ Node(n.filefh).kind = "file" /\ (~n.grown => n.filefh = wanted)
    /\ image = BlocksFrom(n.filefh, 0, Node(n.filefh).blocks)

(* What the path leads to is what was asked for.                           *)
Leads(n, wanted) == \A f \in Files : Reaches([dir |-> n.dir, file |-> n.file], f) => f = wanted

(* A load whose first call still waits can begin again.                    *)
Fresh(n, image, wanted) ==
    ~n.ether => n.dir \in Dirs /\ n.file \in Names /\ image = <<>> /\ Leads(n, wanted)

(* How far a load is: what the path in hand leads to is what was asked     *)
(* for, unless a link's name grew; the blocks stored are those of the file *)
(* in hand, and only an UMOUNT follows the last block.                     *)
OnTheWay(n, image, wanted) ==
    /\ n.dir \in Dirs /\ n.state # "none"
    /\ n.state # "UMOUNT" => n.download = "fail"
    /\ n.state \in {"LOOKUP", "READ", "READLINK"} => n.mounted /\ n.dirfh = n.dir
    /\ n.state \in {"READ", "READLINK"} => n.file \in Names /\ n.filefh = [dir |-> n.dir, file |-> n.file]
    /\ n.state # "UMOUNT" /\ n.file \in Names /\ ~n.grown => Leads(n, wanted)
    /\ n.state \notin {"READ", "UMOUNT"} => image = <<>>
    /\ n.state = "READ" =>
           /\ image = BlocksFrom(n.filefh, 0, n.offset)
           /\ n.offset # 0 => Node(n.filefh).kind = "file" /\ n.offset <= Node(n.filefh).blocks
    /\ n.download = "success" => n.mounted /\ WholeFile(n, image, wanted)

(* What every state of the client satisfies.                               *)
NfsInv ==
    /\ nfs \in Loads /\ nfsMounts \subseteq Dirs
    /\ Numbered /\ Asks /\ Waiting
    /\ NfsRunning => OnTheWay(nfs, nfsImage, nfsAsked)
    /\ nfs.net \in {"continue", "restart"} => Fresh(nfs, nfsImage, nfsAsked)
    /\ nfs.net = "restart" => ~nfs.ether
    /\ NfsRunning /\ (nfs.state # "UMOUNT" \/ nfs.download = "success") => NoMount(nfs.id)
    /\ NfsRunning /\ nfs.download = "success" /\ (\E m \in Under : m.to = "board" /\ m.id = nfs.id) => nfsMounts = {}
    /\ nfs.net = "success" => WholeFile(nfs, nfsImage, nfsAsked) /\ nfsMounts = {} /\ NoMount(0)

-----------------------------------------------------------------------------
(* The file a path stands for.                                             *)

(* What may be resolved at all takes fewer links than there are names.     *)
MaxLinks == Cardinality(Names) * Cardinality(Dirs)

LEMMA MaxLinksType == MaxLinks \in Nat
<1>1. Cardinality(Names) \in Nat /\ Cardinality(Dirs) \in Nat
    BY NfsAssumption, FS_CardinalityType
<1> QED
    BY <1>1 DEF MaxLinks

LEMMA NodeIs ==
    ASSUME NEW h \in Files
    PROVE  /\ Node(h) = Content[h.dir][h.file] /\ Node(h) \in Nodes
           /\ IsLink(h) <=> Node(h).kind = "link"
           /\ IsLink(h) => Target(h) \in Files
           /\ Node(h).kind = "file" => Node(h).blocks \in Nat
<1>1. h.dir \in Dirs /\ h.file \in Names
    BY DEF Files
<1>2. Node(h) = Content[h.dir][h.file] /\ Content[h.dir][h.file] \in Nodes
    BY <1>1, NfsAssumption DEF Node
<1>3. IsLink(h) <=> Node(h).kind = "link"
    BY <1>2 DEF IsLink
<1>4. ASSUME IsLink(h) PROVE Target(h) \in Files
    <2>1. Content[h.dir][h.file].dir \in Dirs /\ Content[h.dir][h.file].file \in Names
        BY <1>2, <1>4 DEF IsLink, Nodes
    <2> QED
        BY <1>1, <2>1 DEF Target, Files
<1>5. Node(h).kind = "file" => Node(h).blocks \in Nat
    BY <1>2 DEF Nodes
<1> QED
    BY <1>2, <1>3, <1>4, <1>5

(* The function that Resolved is defined by.                               *)
FollowedWith(f, n) ==
    [k \in 0 .. n |->
        [h \in [dir : Dirs, file : Names] |->
            LET t == Content[h.dir][h.file] IN
            IF t.kind # "link" THEN h
            ELSE IF k = 0 THEN NoFile
            ELSE f[k - 1][[dir |-> IF t.relative THEN h.dir ELSE t.dir, file |-> t.file]]]]

LEMMA FollowedExists == \A n \in Nat : \E f : f = FollowedWith(f, n)
<1> DEFINE S == {n \in Nat : \E f : f = FollowedWith(f, n)}
<1>1. 0 \in S
    <2> DEFINE g == [k \in 0 .. 0 |->
            [h \in [dir : Dirs, file : Names] |-> IF Content[h.dir][h.file].kind # "link" THEN h ELSE NoFile]]
    <2>1. \A k \in 0 .. 0 : k = 0
        OBVIOUS
    <2>2. FollowedWith(g, 0) = g
        BY <2>1 DEF FollowedWith
    <2> QED
        BY <2>2
<1>2. ASSUME NEW n \in Nat, n \in S
      PROVE  n + 1 \in S
    <2>1. PICK f : f = FollowedWith(f, n)
        BY <1>2
    <2> DEFINE g == [k \in 0 .. n + 1 |-> FollowedWith(f, n + 1)[k]]
    <2>2. \A k \in 0 .. n : g[k] = f[k]
        <3>1. \A k \in 0 .. n : k \in 0 .. n + 1
            OBVIOUS
        <3>2. \A k \in 0 .. n : FollowedWith(f, n + 1)[k] = FollowedWith(f, n)[k]
            BY <3>1 DEF FollowedWith
        <3>3. \A k \in 0 .. n : FollowedWith(f, n)[k] = f[k]
            BY <2>1
        <3> QED
            BY <3>1, <3>2, <3>3
    <2>3. \A k \in 0 .. n + 1 : k # 0 => k - 1 \in 0 .. n
        OBVIOUS
    <2>4. g = FollowedWith(f, n + 1)
        BY DEF FollowedWith
    <2> HIDE DEF g
    <2>5. FollowedWith(f, n + 1) = FollowedWith(g, n + 1)
        BY <2>2, <2>3 DEF FollowedWith
    <2>6. g = FollowedWith(g, n + 1)
        BY <2>4, <2>5
    <2>7. \E e : e = FollowedWith(e, n + 1)
        BY <2>6
    <2> QED
        BY <2>7
<1> HIDE DEF S
<1>3. Nat \subseteq S
    BY <1>1, <1>2, SetInduction
<1> QED
    BY <1>3 DEF S

LEMMA ResolvedIs ==
    ASSUME NEW k \in 0 .. MaxLinks, NEW h \in Files
    PROVE  Resolved[k][h] = IF ~IsLink(h) THEN h ELSE IF k = 0 THEN NoFile ELSE Resolved[k - 1][Target(h)]
<1>1. Resolved = CHOOSE f : f = FollowedWith(f, MaxLinks)
    BY DEF Resolved, FollowedWith, MaxLinks
<1>2. \E f : f = FollowedWith(f, MaxLinks)
    BY MaxLinksType, FollowedExists
<1>3. Resolved = FollowedWith(Resolved, MaxLinks)
    BY <1>1, <1>2
<1>4. Resolved[k][h] = FollowedWith(Resolved, MaxLinks)[k][h]
    BY <1>3
<1> QED
    BY <1>4 DEF FollowedWith, Files, IsLink, Target

LEMMA ChainIsShort ==
    ASSUME NEW n \in Nat, NEW p, Chain(p, n)
    PROVE  n <= MaxLinks
<1>1. p \in [0 .. n -> Files] /\ ~IsLink(p[n]) /\ \A i \in 0 .. n - 1 : IsLink(p[i]) /\ p[i + 1] = Target(p[i])
    BY DEF Chain
<1>2. ASSUME NEW i \in 0 .. n, NEW j \in 0 .. n, i < j, p[i] = p[j]
      PROVE  FALSE
    <2> DEFINE S == {d \in Nat : d <= n - j => p[i + d] = p[j + d]}
    <2>1. 0 \in S
        BY <1>2
    <2>2. ASSUME NEW d \in Nat, d \in S
          PROVE  d + 1 \in S
        <3>1. SUFFICES ASSUME d + 1 <= n - j PROVE p[i + (d + 1)] = p[j + (d + 1)]
            OBVIOUS
        <3>2. p[i + d] = p[j + d]
            BY <2>2, <3>1
        <3>3. i + d \in 0 .. n - 1 /\ j + d \in 0 .. n - 1
            BY <1>2, <3>1
        <3>4. p[(i + d) + 1] = Target(p[i + d]) /\ p[(j + d) + 1] = Target(p[j + d])
            BY <1>1, <3>3
        <3>5. i + (d + 1) = (i + d) + 1 /\ j + (d + 1) = (j + d) + 1
            OBVIOUS
        <3> QED
            BY <3>2, <3>4, <3>5
    <2> HIDE DEF S
    <2>3. n - j \in S
        BY <2>1, <2>2, SetInduction
    <2>4. p[i + (n - j)] = p[j + (n - j)]
        BY <2>3 DEF S
    <2>5. j + (n - j) = n /\ i + (n - j) \in 0 .. n - 1
        BY <1>2
    <2> QED
        BY <1>1, <2>4, <2>5
<1>3. \A i, j \in 0 .. n : p[i] = p[j] => i = j
    <2>1. \A i, j \in 0 .. n : i # j => i < j \/ j < i
        OBVIOUS
    <2> QED
        BY <1>2, <2>1
<1> DEFINE q == [i \in 0 .. n |-> <<p[i].file, p[i].dir>>]
<1>4. q \in Injection(0 .. n, Names \X Dirs)
    <2>1. \A i \in 0 .. n : p[i] \in Files
        BY <1>1
    <2>2. \A f, g \in Files : f.file = g.file /\ f.dir = g.dir => f = g
        BY DEF Files
    <2>3. q \in [0 .. n -> Names \X Dirs]
        BY <2>1 DEF Files
    <2>4. \A i, j \in 0 .. n : q[i] = q[j] => i = j
        BY <1>3, <2>1, <2>2
    <2> HIDE DEF q
    <2> QED
        BY <2>3, <2>4 DEF Injection, IsInjective
<1>5. IsFiniteSet(Names \X Dirs) /\ Cardinality(Names \X Dirs) = MaxLinks
    BY NfsAssumption, FS_Product DEF MaxLinks
<1> HIDE DEF q
<1>6. Cardinality(0 .. n) <= MaxLinks
    BY <1>4, <1>5, FS_Injection
<1>7. Cardinality(0 .. n) = n - 0 + 1
    <2>1. 0 \in Int /\ n \in Int /\ ~(0 > n)
        OBVIOUS
    <2> QED
        BY <2>1, FS_Interval
<1> QED
    BY <1>6, <1>7, MaxLinksType

(* What links lead to is what the server finds.                            *)
LEMMA ReachedIsResolved ==
    ASSUME NEW h, NEW f, Reaches(h, f)
    PROVE  Resolved[MaxLinks][h] = f
<1>1. PICK n \in Nat : \E p \in [0 .. n -> Files] : Chain(p, n) /\ p[0] = h /\ p[n] = f
    BY DEF Reaches
<1>2. PICK p \in [0 .. n -> Files] : Chain(p, n) /\ p[0] = h /\ p[n] = f
    BY <1>1
<1>3. ~IsLink(p[n]) /\ \A i \in 0 .. n - 1 : IsLink(p[i]) /\ p[i + 1] = Target(p[i])
    BY <1>2 DEF Chain
<1> DEFINE S == {d \in Nat : \A k \in 0 .. MaxLinks : d <= n /\ d <= k => Resolved[k][p[n - d]] = f}
<1>4. 0 \in S
    <2>1. SUFFICES ASSUME NEW k \in 0 .. MaxLinks PROVE Resolved[k][p[n - 0]] = f
        OBVIOUS
    <2>2. n - 0 = n /\ p[n] \in Files
        OBVIOUS
    <2> QED
        BY <1>2, <1>3, <2>2, ResolvedIs
<1>5. ASSUME NEW d \in Nat, d \in S
      PROVE  d + 1 \in S
    <2>1. SUFFICES ASSUME NEW k \in 0 .. MaxLinks, d + 1 <= n, d + 1 <= k
                   PROVE  Resolved[k][p[n - (d + 1)]] = f
        OBVIOUS
    <2>2. n - (d + 1) \in 0 .. n - 1 /\ n - (d + 1) \in 0 .. n /\ (n - (d + 1)) + 1 = n - d
        BY <2>1
    <2>3. IsLink(p[n - (d + 1)]) /\ p[n - d] = Target(p[n - (d + 1)]) /\ p[n - (d + 1)] \in Files
        BY <1>3, <2>2
    <2>4. k # 0 /\ k - 1 \in 0 .. MaxLinks /\ d <= n /\ d <= k - 1
        BY <2>1, MaxLinksType
    <2>5. Resolved[k - 1][p[n - d]] = f
        BY <1>5, <2>4
    <2> QED
        BY <2>3, <2>4, <2>5, ResolvedIs
<1> HIDE DEF S
<1>6. n \in S
    BY <1>4, <1>5, SetInduction
<1>7. n <= MaxLinks
    BY <1>2, ChainIsShort
<1>8. MaxLinks \in 0 .. MaxLinks /\ n - n = 0
    BY MaxLinksType
<1> QED
    BY <1>2, <1>6, <1>7, <1>8 DEF S

LEMMA ReachesItself ==
    ASSUME NEW h \in Files, ~IsLink(h)
    PROVE  Reaches(h, h)
<1> DEFINE p == [i \in 0 .. 0 |-> h]
<1>1. Chain(p, 0) /\ p[0] = h
    BY DEF Chain
<1>2. p \in [0 .. 0 -> Files] /\ 0 \in Nat
    OBVIOUS
<1> HIDE DEF p
<1> QED
    BY <1>1, <1>2 DEF Reaches

LEMMA ReachesFurther ==
    ASSUME NEW h \in Files, IsLink(h), NEW f, Reaches(Target(h), f)
    PROVE  Reaches(h, f)
<1>1. PICK n \in Nat : \E p \in [0 .. n -> Files] : Chain(p, n) /\ p[0] = Target(h) /\ p[n] = f
    BY DEF Reaches
<1>2. PICK p \in [0 .. n -> Files] : Chain(p, n) /\ p[0] = Target(h) /\ p[n] = f
    BY <1>1
<1>3. ~IsLink(p[n]) /\ \A i \in 0 .. n - 1 : IsLink(p[i]) /\ p[i + 1] = Target(p[i])
    BY <1>2 DEF Chain
<1> DEFINE q == [i \in 0 .. n + 1 |-> IF i = 0 THEN h ELSE p[i - 1]]
<1>4. \A i \in 0 .. n + 1 : i # 0 => i - 1 \in 0 .. n
    OBVIOUS
<1>5. q \in [0 .. n + 1 -> Files]
    BY <1>4
<1>6. q[0] = h /\ q[n + 1] = p[n]
    <2>1. 0 \in 0 .. n + 1 /\ n + 1 \in 0 .. n + 1 /\ n + 1 # 0 /\ (n + 1) - 1 = n
        OBVIOUS
    <2> QED
        BY <2>1
<1>7. ASSUME NEW i \in 0 .. (n + 1) - 1
      PROVE  IsLink(q[i]) /\ q[i + 1] = Target(q[i])
    <2>1. i \in 0 .. n + 1 /\ i + 1 \in 0 .. n + 1 /\ i + 1 # 0 /\ (i + 1) - 1 = i
        OBVIOUS
    <2>2. q[i + 1] = p[i]
        BY <2>1
    <2>3. CASE i = 0
        BY <1>2, <2>1, <2>2, <2>3
    <2>4. CASE i # 0
        <3>1. i - 1 \in 0 .. n - 1 /\ (i - 1) + 1 = i
            BY <2>4
        <3>2. q[i] = p[i - 1]
            BY <2>1, <2>4
        <3> QED
            BY <1>3, <2>2, <3>1, <3>2
    <2> QED
        BY <2>3, <2>4
<1> HIDE DEF q
<1>8. Chain(q, n + 1)
    BY <1>3, <1>5, <1>6, <1>7 DEF Chain
<1>9. n + 1 \in Nat
    OBVIOUS
<1> QED
    BY <1>2, <1>5, <1>6, <1>8, <1>9 DEF Reaches

-----------------------------------------------------------------------------
(* Calls and replies.                                                      *)

LEMMA BlocksAre ==
    ASSUME NEW h, NEW from \in Nat, NEW k \in Nat
    PROVE  /\ Len(BlocksFrom(h, from, k)) = k
           /\ \A i \in 1 .. k : BlocksFrom(h, from, k)[i] = <<h, from + i>>
           /\ BlocksFrom(h, from, k) = <<>> <=> k = 0
<1> DEFINE b == [i \in 1 .. k |-> <<h, from + i>>]
<1> DEFINE R == {<<h, from + i>> : i \in 1 .. k}
<1>1. b \in Seq(R) /\ Len(b) = k
    <2>1. b \in [1 .. k -> R]
        OBVIOUS
    <2> HIDE DEF b, R
    <2>2. b \in Seq(R)
        BY <2>1, SeqDef
    <2>3. DOMAIN b = 1 .. k
        BY <2>1
    <2> QED
        BY <2>2, <2>3, LenProperties
<1>2. b = <<>> <=> k = 0
    <2> HIDE DEF b, R
    <2>1. Len(b) = 0 <=> b = <<>>
        BY <1>1, EmptySeq
    <2> QED
        BY <1>1, <2>1
<1>3. \A i \in 1 .. k : b[i] = <<h, from + i>>
    OBVIOUS
<1>4. BlocksFrom(h, from, k) = b
    BY DEF BlocksFrom
<1> HIDE DEF b
<1> QED
    BY <1>1, <1>2, <1>3, <1>4

LEMMA StoreExtends ==
    ASSUME NEW h, NEW n \in Nat, NEW k \in Nat
    PROVE  StoreBlock(BlocksFrom(h, 0, n), n, BlocksFrom(h, n, k)) = BlocksFrom(h, 0, n + k)
<1> DEFINE img == BlocksFrom(h, 0, n)
           blocks == BlocksFrom(h, n, k)
<1>1. Len(img) = n /\ \A i \in 1 .. n : img[i] = <<h, 0 + i>>
    <2>1. 0 \in Nat
        OBVIOUS
    <2> QED
        BY <2>1, BlocksAre
<1>2. Len(blocks) = k /\ \A i \in 1 .. k : blocks[i] = <<h, n + i>>
    BY BlocksAre
<1> HIDE DEF img, blocks
<1>3. (IF n + Len(blocks) > Len(img) THEN n + Len(blocks) ELSE Len(img)) = n + k
    BY <1>1, <1>2
<1>4. StoreBlock(img, n, blocks) = [i \in 1 .. n + k |-> IF i > n /\ i <= n + k THEN blocks[i - n] ELSE img[i]]
    BY <1>2, <1>3 DEF StoreBlock
<1>5. ASSUME NEW i \in 1 .. n + k
      PROVE  (IF i > n /\ i <= n + k THEN blocks[i - n] ELSE img[i]) = <<h, 0 + i>>
    <2>1. CASE i > n
        <3>1. i - n \in 1 .. k /\ n + (i - n) = 0 + i /\ i <= n + k
            BY <2>1
        <3>2. blocks[i - n] = <<h, n + (i - n)>>
            BY <1>2, <3>1
        <3> QED
            BY <2>1, <3>1, <3>2
    <2>2. CASE i <= n
        BY <1>1, <2>2
    <2> QED
        BY <2>1, <2>2
<1>6. StoreBlock(img, n, blocks) = [i \in 1 .. n + k |-> <<h, 0 + i>>]
    BY <1>4, <1>5
<1> QED
    BY <1>6 DEF BlocksFrom, img, blocks

(* What the server may have answered to the call of the present state.     *)
LEMMA ReplyIs ==
    ASSUME NEW n, NEW m \in ServerReplies(CallOf(n))
    PROVE  /\ m.to = "board" /\ m.id = n.id
           /\ n.state = "MOUNT" => m.fh = [dir |-> n.dir, file |-> Garbled]
           /\ n.state = "LOOKUP" /\ m.status = "OK" =>
                  m.fh = [dir |-> n.dirfh, file |-> n.file] /\ Node(m.fh).kind # "none"
           /\ n.state = "READLINK" /\ m.status = "OK" =>
                  /\ Node(n.filefh).kind = "link" /\ m.relative = Node(n.filefh).relative
                  /\ m.fh = [dir |-> Node(n.filefh).dir, file |-> Node(n.filefh).file]
           /\ n.state = "READ" /\ m.status = "OK" =>
                  /\ Node(n.filefh).kind = "file"
                  /\ \E k \in IF Node(n.filefh).blocks - n.offset <= 0 THEN {0}
                             ELSE 1 .. Least(Node(n.filefh).blocks - n.offset, ReadSize) :
                        m.blocks = BlocksFrom(n.filefh, n.offset, k)
           /\ n.state = "READ" /\ m.status = "ISDIR or INVAL" => Node(n.filefh).kind # "file"
<1> DEFINE c == CallOf(n)
<1>1. c.id = n.id /\ c.proc = n.state /\ c.fh = Call(n).fh /\ c.from = Call(n).from
    BY DEF CallOf
<1>2. m.to = "board" /\ m.id = n.id
    <2>1. \E status, fh, relative, blocks : m = Reply(c, status, fh, relative, blocks)
        <3>1. CASE c.proc \in {"PRCLOOKUP_PROG_MOUNT", "PRCLOOKUP_PROG_NFS", "UMOUNT", "MOUNT"}
            BY <3>1 DEF ServerReplies
        <3>2. CASE c.proc = "LOOKUP"
            BY <3>2 DEF ServerReplies
        <3>3. CASE c.proc = "READLINK"
            BY <3>3 DEF ServerReplies
        <3>4. CASE c.proc = "READ" /\ Node(c.fh).kind # "file"
            BY <3>4 DEF ServerReplies
        <3>5. CASE /\ c.proc \notin {"PRCLOOKUP_PROG_MOUNT", "PRCLOOKUP_PROG_NFS", "UMOUNT", "MOUNT", "LOOKUP", "READLINK"}
                   /\ ~(c.proc = "READ" /\ Node(c.fh).kind # "file")
            BY <3>5 DEF ServerReplies
        <3> QED
            BY <3>1, <3>2, <3>3, <3>4, <3>5
    <2> QED
        BY <1>1, <2>1 DEF Reply
<1>3. ASSUME n.state = "MOUNT" PROVE m.fh = [dir |-> n.dir, file |-> Garbled]
    <2>1. c.fh = [dir |-> n.dir, file |-> Garbled]
        BY <1>1, <1>3 DEF Call
    <2> QED
        BY <1>1, <1>3, <2>1 DEF ServerReplies, Reply
<1>4. ASSUME n.state = "LOOKUP", m.status = "OK"
      PROVE  m.fh = [dir |-> n.dirfh, file |-> n.file] /\ Node(m.fh).kind # "none"
    <2>1. c.fh = [dir |-> n.dirfh, file |-> n.file]
        BY <1>1, <1>4 DEF Call
    <2>2. m = Reply(c, IF Node(c.fh).kind = "none" THEN "NOENT" ELSE "OK", c.fh, FALSE, <<>>)
        BY <1>1, <1>4 DEF ServerReplies
    <2>3. m.fh = c.fh /\ m.status = IF Node(c.fh).kind = "none" THEN "NOENT" ELSE "OK"
        BY <2>2 DEF Reply
    <2> QED
        BY <1>4, <2>1, <2>3
<1>5. ASSUME n.state = "READLINK", m.status = "OK"
      PROVE  /\ Node(n.filefh).kind = "link" /\ m.relative = Node(n.filefh).relative
             /\ m.fh = [dir |-> Node(n.filefh).dir, file |-> Node(n.filefh).file]
    <2>1. c.fh = n.filefh
        BY <1>1, <1>5 DEF Call
    <2> DEFINE node == Node(n.filefh)
    <2>2. m = IF node.kind = "link" THEN Reply(c, "OK", [dir |-> node.dir, file |-> node.file], node.relative, <<>>)
              ELSE Reply(c, "INVAL", c.fh, FALSE, <<>>)
        BY <1>1, <1>5, <2>1 DEF ServerReplies
    <2> QED
        BY <1>5, <2>2 DEF Reply
<1>6. ASSUME n.state = "READ"
      PROVE  /\ m.status = "OK" =>
                  /\ Node(n.filefh).kind = "file"
                  /\ \E k \in IF Node(n.filefh).blocks - n.offset <= 0 THEN {0}
                             ELSE 1 .. Least(Node(n.filefh).blocks - n.offset, ReadSize) :
                        m.blocks = BlocksFrom(n.filefh, n.offset, k)
             /\ m.status = "ISDIR or INVAL" => Node(n.filefh).kind # "file"
    <2>1. c.fh = n.filefh /\ c.from = n.offset
        BY <1>1, <1>6 DEF Call
    <2> DEFINE node == Node(n.filefh)
    <2>2. CASE node.kind # "file"
        <3>1. m = Reply(c, "ISDIR or INVAL", c.fh, FALSE, <<>>)
            BY <1>1, <1>6, <2>1, <2>2 DEF ServerReplies
        <3> QED
            BY <2>2, <3>1 DEF Reply
    <2>3. CASE node.kind = "file"
        <3>1. m \in {Reply(c, "OK", c.fh, FALSE, BlocksFrom(c.fh, c.from, k)) :
                        k \in IF node.blocks - c.from <= 0 THEN {0} ELSE 1 .. Least(node.blocks - c.from, ReadSize)}
            BY <1>1, <1>6, <2>1, <2>3 DEF ServerReplies
        <3>2. PICK k \in IF node.blocks - n.offset <= 0 THEN {0} ELSE 1 .. Least(node.blocks - n.offset, ReadSize) :
                 m = Reply(c, "OK", c.fh, FALSE, BlocksFrom(n.filefh, n.offset, k))
            BY <2>1, <3>1
        <3>3. m.blocks = BlocksFrom(n.filefh, n.offset, k) /\ m.status = "OK"
            BY <3>2 DEF Reply
        <3> QED
            BY <2>3, <3>2, <3>3
    <2> QED
        BY <2>2, <2>3
<1> QED
    BY <1>2, <1>3, <1>4, <1>5, <1>6

LEMMA AgedAre ==
    ASSUME NEW net, NEW id
    PROVE  /\ \A m \in Aged(net, id) : m = OldReply \/ m \in net
           /\ \A m \in Aged(net, id) : m.to = "board" => m = OldReply \/ (m \in net /\ m.id = id)
           /\ \A m \in net : m.to # "board" \/ m.id = id => m \in Aged(net, id)
           /\ OldReply.to = "board" /\ OldReply.id = 0
    BY DEF Aged, OldReply

(* The call of a state is one.                                             *)
LEMMA SentIs ==
    ASSUME NEW n \in Loads, n.state # "none"
    PROVE  CallOf(n) \in CallRecords /\ \A c \in Sent(n) : c = CallOf(n)
<1> DEFINE Fhs == [dir : Dirs \cup {Garbled}, file : Spelled]
<1>1. NoFile \in Fhs /\ Garbled \in Spelled /\ n.file \in Spelled /\ n.filefh \in Fhs
    BY DEF Loads, Handles, NoFile, Spelled
<1>2. n.dir \in Dirs \cup {Garbled} /\ n.dirfh \in Dirs \cup {Garbled} /\ n.offset \in Nat /\ n.id \in 0 .. MaxCalls /\ n.state \in NfsStates
    BY DEF Loads
<1>3. Call(n).fh \in Fhs /\ Call(n).from \in Nat
    <2>1. [dir |-> n.dir, file |-> Garbled] \in Fhs /\ [dir |-> n.dirfh, file |-> n.file] \in Fhs
        BY <1>1, <1>2
    <2> HIDE DEF Fhs
    <2>2. CASE n.state \in {"PRCLOOKUP_PROG_MOUNT", "PRCLOOKUP_PROG_NFS", "UMOUNT", "READLINK"}
        BY <1>1, <2>2 DEF Call
    <2>3. CASE n.state \in {"MOUNT", "LOOKUP"}
        BY <2>1, <2>3 DEF Call
    <2>4. CASE n.state = "READ"
        BY <1>1, <1>2, <2>4 DEF Call
    <2> QED
        BY <1>2, <2>2, <2>3, <2>4 DEF NfsStates
<1> QED
    BY <1>2, <1>3 DEF CallOf, CallRecords, Sent

(* A new call: every reply under way is to an earlier one.                 *)
LEMMA Sends ==
    ASSUME nfs \in Loads, Numbered, Waiting,
           NEW n \in Loads, n.id = nfs.id, n.state # "none", n.net = "continue", n.dir \in Dirs, n.ether = nfs.ether,
           SendFrom(n), Calls(n)
    PROVE  /\ nfs' = [n EXCEPT !.id = n.id + 1] /\ nfs' \in Loads
           /\ Numbered' /\ Asks' /\ Waiting'
           /\ \A c \in Under' : c.to = "server" => c \in Under \/ c.id = nfs'.id
           /\ \A m \in Under' : m.to = "board" => m.id # nfs'.id
<1>1. n.id < MaxCalls /\ nfs' = [n EXCEPT !.id = n.id + 1]
    BY DEF SendFrom, rpc_id
<1>2. nfs'.id = n.id + 1 /\ nfs' \in Loads
    <2>1. n.id + 1 \in 0 .. MaxCalls
        BY <1>1, NfsAssumption DEF Loads
    <2> QED
        BY <1>1, <2>1 DEF Loads
<1>3. Call(nfs') = Call(n) /\ nfs'.state = n.state /\ nfs'.net = n.net /\ nfs'.dir = n.dir
    BY <1>1 DEF Call, Loads
<1>4. nfs'.ether = n.ether /\ nfs.ether \in BOOLEAN
    BY <1>1 DEF Loads
<1> DEFINE c0 == CallOf(nfs')
<1>5. c0 \in CallRecords /\ \A c \in Sent(nfs') : c = c0
    BY <1>2, <1>3, SentIs
<1>6. c0.to = "server" /\ c0.id = nfs'.id /\ (c0.proc = "MOUNT" => c0.fh.dir \in Dirs)
    <2>1. c0.proc = "MOUNT" => Call(nfs').fh.dir = nfs'.dir
        BY DEF Call, CallOf
    <2>2. c0.fh = Call(nfs').fh /\ c0.to = "server" /\ c0.id = nfs'.id
        BY DEF CallOf
    <2> QED
        BY <1>3, <2>1, <2>2
<1> HIDE DEF c0
<1>7. nfs.id \in Nat /\ nfs'.id = nfs.id + 1
    BY <1>2 DEF Loads
<1>8. nfsNet' \subseteq Aged(nfsNet, nfs'.id) \cup Sent(nfs') /\ nfsHeld' \subseteq Sent(nfs')
    BY DEF SendFrom
<1>9. OldReply.to = "board" /\ OldReply.id = 0
    BY DEF OldReply
<1>10. ASSUME NEW m \in Aged(nfsNet, nfs'.id)
       PROVE  m = OldReply \/ (m \in nfsNet /\ m \in CallRecords /\ m.id <= nfs.id)
    <2>1. m = OldReply \/ m \in nfsNet
        BY AgedAre
    <2>2. CASE m \in nfsNet /\ m \in CallRecords /\ m.id <= nfs.id
        BY <2>2
    <2>3. CASE m \in nfsNet /\ m.to = "board" /\ (m.id = nfs.id \/ m = OldReply)
        <3>1. m = OldReply \/ m.id = nfs'.id
            BY <2>3, AgedAre
        <3> QED
            BY <1>7, <2>3, <3>1
    <2> QED
        BY <2>1, <2>2, <2>3 DEF Numbered, Under
<1>11. ASSUME NEW m \in Under'
       PROVE  m = c0 \/ m = OldReply \/ (m \in Under /\ m \in CallRecords /\ m.id <= nfs.id)
    <2>1. m \in Aged(nfsNet, nfs'.id) \/ m \in Sent(nfs')
        BY <1>8 DEF Under
    <2>2. CASE m \in Aged(nfsNet, nfs'.id)
        BY <1>10, <2>2 DEF Under
    <2> QED
        BY <1>5, <2>1, <2>2
<1>12. \A m \in CallRecords : m.to = "server" /\ m.id \in Nat
    BY DEF CallRecords
<1>13. Numbered'
    <2>1. 0 < nfs'.id
        BY <1>7
    <2>2. ASSUME NEW m \in Under'
          PROVE  \/ m \in CallRecords /\ m.id <= nfs'.id
                 \/ m.to = "board" /\ (m.id = nfs'.id \/ m = OldReply)
        BY <1>5, <1>6, <1>7, <1>9, <1>11, <1>12
    <2>3. ASSUME NEW c \in Under', NEW m \in Under', c.to = "server", c.id # 0, m.id = c.id
          PROVE  m = c
        <3>1. c # OldReply /\ m # OldReply
            BY <1>9, <2>3
        <3>2. CASE c = c0 \/ m = c0
            BY <1>6, <1>7, <1>11, <1>12, <2>3, <3>1, <3>2
        <3>3. CASE c \in Under /\ m \in Under
            BY <2>3, <3>3 DEF Numbered
        <3> QED
            BY <1>11, <3>1, <3>2, <3>3
    <2>4. ASSUME NEW c \in Under', c.to = "server", c.id # 0, c.proc = "MOUNT"
          PROVE  c.fh.dir \in Dirs
        BY <1>6, <1>9, <1>11, <2>4 DEF Numbered
    <2> QED
        BY <2>1, <2>2, <2>3, <2>4 DEF Numbered
<1>14. Asks'
    <2>1. ASSUME NEW m \in Under', m.id = nfs'.id
          PROVE  m = c0
        BY <1>7, <1>9, <1>11, <1>12, <2>1
    <2> QED
        BY <2>1 DEF Asks, c0
<1>15. Waiting'
    <2>1. ASSUME NEW c \in nfsHeld'
          PROVE  c.to = "server" /\ c.id # 0 /\ ~nfs'.ether
        <3>1. c = c0
            BY <1>5, <1>8
        <3>2. ~n.ether
            BY DEF SendFrom
        <3> QED
            BY <1>4, <1>6, <1>7, <3>1, <3>2
    <2>2. ASSUME ~nfs'.ether, NEW m \in nfsNet'
          PROVE  m.id = 0
        <3>1. ~n.ether /\ ~nfs.ether
            BY <1>4, <2>2
        <3>2. m \in Aged(nfsNet, nfs'.id)
            BY <3>1 DEF SendFrom
        <3>3. m = OldReply \/ m \in nfsNet
            BY <3>2, AgedAre
        <3> QED
            BY <1>9, <3>1, <3>3 DEF Waiting
    <2> QED
        BY <2>1, <2>2 DEF Waiting
<1>16. \A c \in Under' : c.to = "server" => c \in Under \/ c.id = nfs'.id
    BY <1>6, <1>9, <1>11
<1>17. \A m \in Under' : m.to = "board" => m.id # nfs'.id
    <2>1. \A m \in Under' : m.to = "board" => m = OldReply
        BY <1>6, <1>11, <1>12
    <2> QED
        BY <1>7, <1>9, <2>1
<1> QED
    BY <1>1, <1>2, <1>13, <1>14, <1>15, <1>16, <1>17

-----------------------------------------------------------------------------
(* The steps.                                                              *)

LEMMA RunningTyped ==
    ASSUME NfsInv, NfsRunning
    PROVE  /\ nfs \in Loads /\ Numbered /\ OnTheWay(nfs, nfsImage, nfsAsked) /\ nfs.net = "continue"
           /\ nfs.id \in Nat /\ 0 < nfs.id /\ nfs.ether \in BOOLEAN
<1>1. nfs \in Loads /\ Numbered /\ OnTheWay(nfs, nfsImage, nfsAsked) /\ nfs.net = "continue"
    BY DEF NfsInv, NfsRunning
<1>2. nfs.id \in Nat /\ nfs.ether \in BOOLEAN
    BY <1>1, NfsAssumption DEF Loads
<1> QED
    BY <1>1, <1>2 DEF Numbered

(* A handler that goes on, with a call or without one.                     *)
LEMMA GoesOn ==
    ASSUME NfsInv, NfsRunning, nfsMounts' = nfsMounts, nfsAsked' = nfsAsked,
           NEW n \in Loads, n.id = nfs.id, n.ether = nfs.ether, n.net = "continue",
           SendFrom(n), OnTheWay(n, nfsImage', nfsAsked),
           nfs.ether \/ (n.dir = nfs.dir /\ n.file = nfs.file /\ nfsImage' = nfsImage),
           n.state # "UMOUNT" \/ n.download = "success" => NoMount(0)
    PROVE  NfsInv'
<1>1. nfs \in Loads /\ Numbered /\ Waiting /\ nfsMounts \subseteq Dirs /\ nfs.id \in Nat /\ 0 < nfs.id
    BY RunningTyped DEF NfsInv
<1>2. n.dir \in Dirs /\ n.state # "none"
    BY DEF OnTheWay
<1>3. Fresh(n, nfsImage', nfsAsked')
    <2>1. CASE nfs.ether
        BY <2>1 DEF Fresh
    <2>2. CASE n.dir = nfs.dir /\ n.file = nfs.file /\ nfsImage' = nfsImage
        <3>1. Fresh(nfs, nfsImage, nfsAsked)
            BY DEF NfsInv, NfsRunning
        <3>2. Leads(n, nfsAsked) <=> Leads(nfs, nfsAsked)
            BY <2>2 DEF Leads
        <3> QED
            BY <2>2, <3>1, <3>2 DEF Fresh
    <2> QED
        BY <2>1, <2>2
<1>4. CASE Calls(n)
    <2>1. /\ nfs' = [n EXCEPT !.id = n.id + 1] /\ nfs' \in Loads
          /\ Numbered' /\ Asks' /\ Waiting'
          /\ \A c \in Under' : c.to = "server" => c \in Under \/ c.id = nfs'.id
          /\ \A m \in Under' : m.to = "board" => m.id # nfs'.id
        BY <1>1, <1>2, <1>4, Sends
    <2>2. /\ nfs'.state = n.state /\ nfs'.download = n.download /\ nfs'.net = "continue"
          /\ nfs'.dir = n.dir /\ nfs'.file = n.file /\ nfs'.dirfh = n.dirfh /\ nfs'.filefh = n.filefh
          /\ nfs'.mounted = n.mounted /\ nfs'.offset = n.offset /\ nfs'.ether = n.ether /\ nfs'.grown = n.grown
        BY <2>1 DEF Loads, NfsStates
    <2>3. OnTheWay(nfs', nfsImage', nfsAsked') /\ Fresh(nfs', nfsImage', nfsAsked')
        BY <1>3, <2>2 DEF OnTheWay, WholeFile, Fresh, Leads
    <2>4. n.state # "UMOUNT" \/ n.download = "success" => NoMount(nfs.id)'
        <3>1. SUFFICES ASSUME NoMount(0), NEW c \in Under', c.to = "server", c.proc = "MOUNT"
                       PROVE  c.id \in {0, nfs'.id}
            BY DEF NoMount
        <3> QED
            BY <2>1, <3>1 DEF NoMount
    <2> QED
        BY <1>1, <2>1, <2>2, <2>3, <2>4 DEF NfsInv, NfsRunning
<1>5. CASE ~Calls(n)
    <2>1. nfs' = n /\ nfsNet' = nfsNet /\ nfsHeld' = nfsHeld /\ Under' = Under
        BY <1>5 DEF SendFrom, Under
    <2>2. n.state = "UMOUNT" /\ ~n.mounted
        BY <1>5 DEF Calls
    <2>3. n.download # "success"
        BY <2>2 DEF OnTheWay
    <2>4. Numbered' /\ Waiting'
        BY <1>1, <2>1 DEF Numbered, NfsRunning, Waiting
    <2>5. Asks'
        BY <1>5, <2>1 DEF Asks
    <2>6. OnTheWay(nfs', nfsImage', nfsAsked') /\ Fresh(nfs', nfsImage', nfsAsked')
        BY <1>3, <2>1
    <2>7. nfs'.state = "UMOUNT" /\ nfs'.download # "success" /\ nfs'.net = "continue"
        BY <2>1, <2>2, <2>3
    <2> QED
        BY <1>1, <2>1, <2>4, <2>5, <2>6, <2>7 DEF NfsInv, NfsRunning
<1> QED
    BY <1>4, <1>5

(* A reply to the call of the present state is its answer, and the call is *)
(* no longer under way.                                                    *)
LEMMA Answered ==
    ASSUME NfsInv, NfsRunning, NEW m \in nfsNet, m.to = "board", m.id = nfs.id
    PROVE  /\ Calls(nfs) => m \in ServerReplies(CallOf(nfs))
           /\ \A c \in Under : c.to = "server" => c.id # nfs.id
           /\ nfs.ether
<1>1. Numbered /\ Asks /\ Waiting /\ m \in Under /\ nfs.id # 0
    BY RunningTyped DEF NfsInv, Under
<1>2. CallOf(nfs).to = "server"
    BY DEF CallOf
<1>3. Calls(nfs) => m \in ServerReplies(CallOf(nfs))
    BY <1>1, <1>2 DEF Asks
<1>4. \A c \in Under : c.to = "server" => c.id # nfs.id
    <2>1. ASSUME NEW c \in Under, c.to = "server", c.id = nfs.id
          PROVE  FALSE
        BY <1>1, <2>1 DEF Numbered
    <2> QED
        BY <2>1
<1>5. nfs.ether
    BY <1>1 DEF Waiting
<1> QED
    BY <1>3, <1>4, <1>5

LEMMA PendingMounts ==
    ASSUME NfsInv, NfsRunning, nfs.state # "UMOUNT",
           nfs.state # "MOUNT" \/ \E m \in nfsNet : m.to = "board" /\ m.id = nfs.id
    PROVE  NoMount(0)
<1>1. SUFFICES ASSUME NEW c \in Under, c.to = "server", c.proc = "MOUNT", c.id = nfs.id PROVE FALSE
    BY DEF NfsInv, NoMount
<1>2. Calls(nfs)
    BY DEF Calls
<1>3. CASE nfs.state # "MOUNT"
    <2>1. c = CallOf(nfs) \/ c.to = "board"
        BY <1>1, <1>2 DEF NfsInv, Asks
    <2> QED
        BY <1>1, <1>3, <2>1 DEF CallOf
<1>4. CASE \E m \in nfsNet : m.to = "board" /\ m.id = nfs.id
    BY <1>1, <1>4, Answered
<1> QED
    BY <1>3, <1>4

LEMMA LoadGivesUp ==
    ASSUME NfsInv, NfsRunning, nfs.state # "UMOUNT", Stored, NEW age \in 0 .. 1,
           SendFrom([nfs EXCEPT !.state = "UMOUNT", !.age = age])
    PROVE  NfsInv'
<1> DEFINE n == [nfs EXCEPT !.state = "UMOUNT", !.age = age]
<1>1. nfs \in Loads /\ OnTheWay(nfs, nfsImage, nfsAsked) /\ nfs.net = "continue"
    BY RunningTyped
<1>2. /\ n \in Loads /\ n.id = nfs.id /\ n.ether = nfs.ether /\ n.grown = nfs.grown /\ n.net = nfs.net /\ n.state = "UMOUNT"
      /\ n.download = nfs.download /\ n.dir = nfs.dir /\ n.file = nfs.file /\ n.mounted = nfs.mounted
    BY <1>1 DEF Loads, NfsStates
<1>3. nfs.download = "fail"
    BY <1>1 DEF OnTheWay
<1>4. SendFrom(n)
    OBVIOUS
<1> HIDE DEF n
<1>5. nfsMounts' = nfsMounts /\ nfsImage' = nfsImage /\ nfsAsked' = nfsAsked
    BY DEF Stored
<1>6. OnTheWay(n, nfsImage', nfsAsked)
    BY <1>1, <1>2, <1>3 DEF OnTheWay, Leads
<1> QED
    BY <1>1, <1>2, <1>3, <1>4, <1>5, <1>6, GoesOn

LEMMA GivesUpAtOnce ==
    ASSUME NfsInv, NfsRunning, nfs.state # "UMOUNT", Stored, SendFrom([nfs EXCEPT !.state = "UMOUNT"])
    PROVE  NfsInv'
<1>1. nfs \in Loads
    BY RunningTyped
<1>2. [nfs EXCEPT !.state = "UMOUNT"] = [nfs EXCEPT !.state = "UMOUNT", !.age = nfs.age] /\ nfs.age \in 0 .. 1
    BY <1>1 DEF Loads, NfsStates
<1> QED
    BY <1>2, LoadGivesUp

LEMMA MountPortReplyKeeps ==
    ASSUME NfsInv, NEW m \in nfsNet, MountPortReply(m)
    PROVE  NfsInv'
<1>1. NfsRunning /\ nfs.state = "PRCLOOKUP_PROG_MOUNT"
    BY DEF MountPortReply, At
<1>2. nfs \in Loads /\ OnTheWay(nfs, nfsImage, nfsAsked) /\ nfs.net = "continue"
    BY <1>1, RunningTyped
<1> DEFINE n == [nfs EXCEPT !.mountPort = nfs.mountPort \/ Good(m), !.state = "PRCLOOKUP_PROG_NFS"]
<1>3. SendFrom(n)
    BY DEF MountPortReply
<1>4. (nfs.mountPort \/ Good(m)) \in BOOLEAN
    BY DEF Good
<1>5. /\ n \in Loads /\ n.id = nfs.id /\ n.ether = nfs.ether /\ n.grown = nfs.grown /\ n.net = nfs.net /\ n.state = "PRCLOOKUP_PROG_NFS"
      /\ n.download = nfs.download /\ n.dir = nfs.dir /\ n.file = nfs.file
    BY <1>2, <1>4 DEF Loads, NfsStates
<1> HIDE DEF n
<1>6. nfsMounts' = nfsMounts /\ nfsImage' = nfsImage /\ nfsAsked' = nfsAsked
    BY DEF MountPortReply, Stored
<1>7. OnTheWay(n, nfsImage', nfsAsked)
    BY <1>1, <1>2, <1>5, <1>6 DEF OnTheWay, Leads
<1>8. NoMount(0)
    BY <1>1, PendingMounts
<1> QED
    BY <1>1, <1>2, <1>3, <1>5, <1>6, <1>7, <1>8, GoesOn

LEMMA NfsPortReplyKeeps ==
    ASSUME NfsInv, NEW m \in nfsNet, NfsPortReply(m)
    PROVE  NfsInv'
<1>1. NfsRunning /\ nfs.state = "PRCLOOKUP_PROG_NFS"
    BY DEF NfsPortReply, At
<1>2. nfs \in Loads /\ OnTheWay(nfs, nfsImage, nfsAsked) /\ nfs.net = "continue"
    BY <1>1, RunningTyped
<1> DEFINE n == [nfs EXCEPT !.nfsPort = nfs.nfsPort \/ Good(m), !.state = "MOUNT"]
<1>3. SendFrom(n)
    BY DEF NfsPortReply
<1>4. (nfs.nfsPort \/ Good(m)) \in BOOLEAN
    BY DEF Good
<1>5. /\ n \in Loads /\ n.id = nfs.id /\ n.ether = nfs.ether /\ n.grown = nfs.grown /\ n.net = nfs.net /\ n.state = "MOUNT"
      /\ n.download = nfs.download /\ n.dir = nfs.dir /\ n.file = nfs.file
    BY <1>2, <1>4 DEF Loads, NfsStates
<1> HIDE DEF n
<1>6. nfsMounts' = nfsMounts /\ nfsImage' = nfsImage /\ nfsAsked' = nfsAsked
    BY DEF NfsPortReply, Stored
<1>7. OnTheWay(n, nfsImage', nfsAsked)
    BY <1>1, <1>2, <1>5, <1>6 DEF OnTheWay, Leads
<1>8. NoMount(0)
    BY <1>1, PendingMounts
<1> QED
    BY <1>1, <1>2, <1>3, <1>5, <1>6, <1>7, <1>8, GoesOn

LEMMA MountReplyKeeps ==
    ASSUME NfsInv, NEW m \in nfsNet, m.to = "board", MountReply(m)
    PROVE  NfsInv'
<1>1. NfsRunning /\ nfs.state = "MOUNT" /\ Stored
    BY DEF MountReply, At
<1>2. nfs \in Loads /\ OnTheWay(nfs, nfsImage, nfsAsked) /\ nfs.net = "continue"
    BY <1>1, RunningTyped
<1>3. CASE ~Good(m)
    BY <1>1, <1>3, GivesUpAtOnce DEF MountReply
<1>4. CASE Good(m)
    <2>1. m.id = nfs.id /\ Calls(nfs)
        BY <1>1, <1>4 DEF Good, Calls
    <2>2. m.fh = [dir |-> nfs.dir, file |-> Garbled]
        BY <1>1, <2>1, Answered, ReplyIs
    <2> DEFINE n == [nfs EXCEPT !.mounted = TRUE, !.dirfh = m.fh.dir, !.state = "LOOKUP"]
    <2>3. SendFrom(n)
        BY <1>4 DEF MountReply
    <2>4. m.fh.dir = nfs.dir /\ nfs.dir \in Dirs
        BY <1>2, <2>2 DEF OnTheWay
    <2>5. /\ n \in Loads /\ n.id = nfs.id /\ n.ether = nfs.ether /\ n.grown = nfs.grown /\ n.net = nfs.net /\ n.state = "LOOKUP"
          /\ n.download = nfs.download /\ n.dir = nfs.dir /\ n.file = nfs.file /\ n.mounted /\ n.dirfh = nfs.dir
        BY <1>2, <2>4 DEF Loads, NfsStates
    <2> HIDE DEF n
    <2>6. nfsMounts' = nfsMounts /\ nfsImage' = nfsImage /\ nfsAsked' = nfsAsked
        BY <1>1 DEF Stored
    <2>7. OnTheWay(n, nfsImage', nfsAsked)
        BY <1>1, <1>2, <2>5, <2>6 DEF OnTheWay, Leads
    <2>8. NoMount(0)
        BY <1>1, <2>1, PendingMounts
    <2> QED
        BY <1>1, <1>2, <2>3, <2>5, <2>6, <2>7, <2>8, GoesOn
<1> QED
    BY <1>3, <1>4

LEMMA LookupReplyKeeps ==
    ASSUME NfsInv, NEW m \in nfsNet, m.to = "board", LookupReply(m)
    PROVE  NfsInv'
<1>1. NfsRunning /\ nfs.state = "LOOKUP" /\ Stored
    BY DEF LookupReply, At
<1>2. nfs \in Loads /\ OnTheWay(nfs, nfsImage, nfsAsked) /\ nfs.net = "continue"
    BY <1>1, RunningTyped
<1>3. CASE ~Good(m)
    BY <1>1, <1>3, GivesUpAtOnce DEF LookupReply
<1>4. CASE Good(m)
    <2>1. m.id = nfs.id /\ m.status = "OK" /\ Calls(nfs)
        BY <1>1, <1>4 DEF Good, Calls
    <2>2. m.fh = [dir |-> nfs.dirfh, file |-> nfs.file] /\ Node(m.fh).kind # "none"
        BY <1>1, <2>1, Answered, ReplyIs
    <2>3. nfs.dirfh = nfs.dir /\ nfs.dir \in Dirs /\ nfs.mounted
        BY <1>1, <1>2 DEF OnTheWay
    <2>4. nfs.file \in Names
        BY <2>2 DEF Node
    <2> DEFINE n == [nfs EXCEPT !.filefh = m.fh, !.state = "READ", !.offset = 0]
    <2>5. SendFrom(n)
        BY <1>4 DEF LookupReply
    <2>6. m.fh \in Handles
        BY <2>2, <2>3, <2>4 DEF Handles
    <2>7. /\ n \in Loads /\ n.id = nfs.id /\ n.ether = nfs.ether /\ n.grown = nfs.grown /\ n.net = nfs.net /\ n.state = "READ"
          /\ n.download = nfs.download /\ n.dir = nfs.dir /\ n.file = nfs.file /\ n.mounted = nfs.mounted
          /\ n.dirfh = nfs.dirfh /\ n.offset = 0 /\ n.filefh = m.fh
        BY <1>2, <2>6 DEF Loads, NfsStates
    <2> HIDE DEF n
    <2>8. nfsMounts' = nfsMounts /\ nfsImage' = nfsImage /\ nfsAsked' = nfsAsked
        BY <1>1 DEF Stored
    <2>9. nfsImage = BlocksFrom(n.filefh, 0, n.offset)
        <3>1. nfsImage = <<>>
            BY <1>1, <1>2 DEF OnTheWay
        <3>2. BlocksFrom(n.filefh, 0, 0) = <<>>
            BY BlocksAre
        <3> QED
            BY <2>7, <3>1, <3>2
    <2>10. OnTheWay(n, nfsImage', nfsAsked)
        BY <1>1, <1>2, <2>2, <2>3, <2>4, <2>7, <2>8, <2>9 DEF OnTheWay, Leads
    <2>11. NoMount(0)
        BY <1>1, PendingMounts
    <2> QED
        BY <1>1, <1>2, <2>5, <2>7, <2>8, <2>10, <2>11, GoesOn
<1> QED
    BY <1>3, <1>4

(* A name in the buffer, and what is behind it there.                      *)
LEMMA OverwrittenIs ==
    ASSUME NEW path \in Paths, NEW name \in Names, NEW end
    PROVE  /\ Overwritten(path, name, end) \in Paths
           /\ Len(name) + 1 \in 1 .. PathMax
<1>1. name \in Seq(Chars) /\ Len(name) + 2 <= PathMax /\ PathMax \in Nat
    BY NfsAssumption
<1>2. Len(name) \in Nat /\ \A i \in 1 .. Len(name) : name[i] \in Chars
    BY <1>1
<1>3. Len(name) + 1 \in 1 .. PathMax
    BY <1>1, <1>2
<1>4. ASSUME NEW i \in 1 .. PathMax
      PROVE  (IF i <= Len(name) THEN name[i] ELSE IF i = end THEN Nul ELSE path[i]) \in Chars \cup {Nul}
    <2>1. path[i] \in Chars \cup {Nul}
        BY DEF Paths
    <2>2. i <= Len(name) => name[i] \in Chars
        BY <1>2
    <2> QED
        BY <2>1, <2>2
<1> QED
    BY <1>3, <1>4 DEF Overwritten, Paths

LEMMA LinkIsSpelled ==
    ASSUME nfs.path \in Paths, NEW m, m.fh.file \in Names
    PROVE  NewPath(m) \in Paths /\ NewName(m) \in Spelled
<1> DEFINE behind == NewPath(m)[Len(m.fh.file) + 1]
<1>1. NewPath(m) \in Paths /\ Len(m.fh.file) + 1 \in 1 .. PathMax
    BY OverwrittenIs DEF NewPath
<1>2. behind \in Chars \cup {Nul}
    BY <1>1 DEF Paths
<1>3. NewName(m) = IF behind = Nul THEN m.fh.file ELSE Append(m.fh.file, behind)
    BY DEF NewName
<1> HIDE DEF behind
<1> QED
    BY <1>1, <1>2, <1>3 DEF Spelled

LEMMA ReadlinkReplyKeeps ==
    ASSUME NfsInv, NEW m \in nfsNet, m.to = "board", ReadlinkReply(m)
    PROVE  NfsInv'
<1>1. NfsRunning /\ nfs.state = "READLINK" /\ Stored
    BY DEF ReadlinkReply, At
<1>2. nfs \in Loads /\ OnTheWay(nfs, nfsImage, nfsAsked) /\ nfs.net = "continue"
    BY <1>1, RunningTyped
<1>3. CASE ~Good(m)
    BY <1>1, <1>3, GivesUpAtOnce DEF ReadlinkReply
<1>4. CASE Good(m)
    <2>1. m.id = nfs.id /\ m.status = "OK" /\ Calls(nfs)
        BY <1>1, <1>4 DEF Good, Calls
    <2> DEFINE h == nfs.filefh
    <2>2. /\ Node(h).kind = "link" /\ m.relative = Node(h).relative
          /\ m.fh = [dir |-> Node(h).dir, file |-> Node(h).file]
        BY <1>1, <2>1, Answered, ReplyIs
    <2>3. h = [dir |-> nfs.dir, file |-> nfs.file] /\ h \in Files /\ nfs.dir \in Dirs /\ nfs.file \in Names
        BY <1>1, <1>2 DEF OnTheWay, Files
    <2>4. IsLink(h) /\ Target(h) \in Files /\ Node(h) = Content[h.dir][h.file]
        BY <2>2, <2>3, NodeIs
    <2> DEFINE dir == IF m.relative THEN nfs.dir ELSE m.fh.dir
    <2>5. Target(h) = [dir |-> dir, file |-> m.fh.file]
        BY <2>2, <2>3, <2>4 DEF Target
    <2>6. dir \in Dirs /\ m.fh.file \in Names
        BY <2>4, <2>5 DEF Files
    <2>7. NewPath(m) \in Paths /\ NewName(m) \in Spelled
        BY <1>2, <2>6, LinkIsSpelled DEF Loads
    <2> DEFINE grown == nfs.grown \/ NewName(m) # m.fh.file
               n == [nfs EXCEPT !.state = "MOUNT", !.file = NewName(m), !.path = NewPath(m), !.dir = dir, !.grown = grown]
    <2>8. SendFrom(n)
        BY <1>4 DEF ReadlinkReply
    <2>14. grown \in BOOLEAN /\ (~grown => ~nfs.grown /\ NewName(m) = m.fh.file)
        BY <1>2
    <2> HIDE DEF dir, grown
    <2>9. /\ n \in Loads /\ n.id = nfs.id /\ n.ether = nfs.ether /\ n.net = nfs.net /\ n.state = "MOUNT"
          /\ n.download = nfs.download /\ n.dir = dir /\ n.file = NewName(m) /\ n.grown = grown
        BY <1>2, <2>6, <2>7, <2>14 DEF Loads, NfsStates
    <2> HIDE DEF n
    <2>10. nfsMounts' = nfsMounts /\ nfsImage' = nfsImage /\ nfsAsked' = nfsAsked
        BY <1>1 DEF Stored
    <2>11. ~n.grown => Leads(n, nfsAsked)
        <3>1. SUFFICES ASSUME ~n.grown, NEW f \in Files, Reaches([dir |-> n.dir, file |-> n.file], f)
                       PROVE  f = nfsAsked
            BY DEF Leads
        <3>2. n.file = m.fh.file /\ ~nfs.grown
            BY <2>9, <2>14, <3>1
        <3>3. Reaches(Target(h), f)
            BY <2>5, <2>9, <3>1, <3>2
        <3>4. Reaches(h, f)
            BY <2>3, <2>4, <3>3, ReachesFurther
        <3> QED
            BY <1>1, <1>2, <2>3, <3>2, <3>4 DEF OnTheWay, Leads
    <2>12. OnTheWay(n, nfsImage', nfsAsked)
        BY <1>1, <1>2, <2>6, <2>9, <2>10, <2>11 DEF OnTheWay
    <2>13. NoMount(0)
        BY <1>1, PendingMounts
    <2>15. nfs.ether
        BY <1>1, <2>1, Answered
    <2> QED
        BY <1>1, <1>2, <2>8, <2>9, <2>10, <2>12, <2>13, <2>15, GoesOn
<1> QED
    BY <1>3, <1>4

LEMMA ReadReplyKeeps ==
    ASSUME NfsInv, NEW m \in nfsNet, m.to = "board", ReadReply(m)
    PROVE  NfsInv'
<1>1. NfsRunning /\ nfs.state = "READ" /\ nfsMounts' = nfsMounts /\ nfsAsked' = nfsAsked
    BY DEF ReadReply, At
<1>2. nfs \in Loads /\ OnTheWay(nfs, nfsImage, nfsAsked) /\ nfs.net = "continue"
    BY <1>1, RunningTyped
<1> DEFINE h == nfs.filefh
<1>3. h = [dir |-> nfs.dir, file |-> nfs.file] /\ h \in Files /\ nfs.dir \in Dirs /\ nfs.file \in Names
    BY <1>1, <1>2 DEF OnTheWay, Files
<1>4. Node(h).kind = "file" => Node(h).blocks \in Nat /\ nfs.offset <= Node(h).blocks
    BY <1>1, <1>2, <1>3, NodeIs DEF OnTheWay, Loads, NfsStates
<1>5. nfsImage = BlocksFrom(h, 0, nfs.offset) /\ nfs.offset \in Nat
    BY <1>1, <1>2 DEF OnTheWay, Loads, NfsStates
<1>6. NoMount(0)
    BY <1>1, PendingMounts
<1>7. nfs.mounted /\ nfs.dirfh = nfs.dir /\ nfs.download = "fail"
    BY <1>1, <1>2 DEF OnTheWay
<1>8. Calls(nfs) /\ (m.id = nfs.id => nfs.ether)
    BY <1>1, Answered DEF Calls
<1>9. ASSUME Good(m)
      PROVE  /\ Node(h).kind = "file"
             /\ \E k \in Nat : /\ m.blocks = BlocksFrom(h, nfs.offset, k) /\ nfs.offset + k <= Node(h).blocks
                               /\ k = 0 => nfs.offset = Node(h).blocks
    <2>1. m.id = nfs.id /\ m.status = "OK"
        BY <1>9 DEF Good
    <2>2. /\ Node(h).kind = "file"
          /\ \E k \in IF Node(h).blocks - nfs.offset <= 0 THEN {0} ELSE 1 .. Least(Node(h).blocks - nfs.offset, ReadSize) :
                m.blocks = BlocksFrom(h, nfs.offset, k)
        BY <1>1, <1>8, <2>1, Answered, ReplyIs
    <2>3. PICK k \in IF Node(h).blocks - nfs.offset <= 0 THEN {0} ELSE 1 .. Least(Node(h).blocks - nfs.offset, ReadSize) :
                m.blocks = BlocksFrom(h, nfs.offset, k)
        BY <2>2
    <2>4. k \in Nat /\ nfs.offset + k <= Node(h).blocks /\ (k = 0 => nfs.offset = Node(h).blocks)
        <3>1. Node(h).blocks \in Nat /\ nfs.offset <= Node(h).blocks /\ ReadSize \in Nat
            BY <1>4, <2>2, NfsAssumption
        <3>2. CASE Node(h).blocks - nfs.offset <= 0
            BY <1>5, <3>1, <3>2
        <3>3. CASE ~(Node(h).blocks - nfs.offset <= 0)
            BY <1>5, <3>1, <3>3 DEF Least
        <3> QED
            BY <3>2, <3>3
    <2> QED
        BY <2>2, <2>3, <2>4
<1>10. CASE Good(m) /\ m.blocks # <<>>
    <2>1. PICK k \in Nat : m.blocks = BlocksFrom(h, nfs.offset, k) /\ nfs.offset + k <= Node(h).blocks
        BY <1>9, <1>10
    <2>2. Len(m.blocks) = k
        <3>1. k \in Nat /\ nfs.offset \in Nat
            BY <1>5
        <3>2. Len(BlocksFrom(h, nfs.offset, k)) = k
            BY <3>1, BlocksAre
        <3> QED
            BY <2>1, <3>2
    <2> DEFINE n == [nfs EXCEPT !.age = 0, !.offset = nfs.offset + k]
    <2>3. SendFrom(n)
        <3>1. SendFrom([Kicked(nfs) EXCEPT !.offset = @ + Len(m.blocks)])
            BY <1>10 DEF ReadReply
        <3>2. [Kicked(nfs) EXCEPT !.offset = @ + Len(m.blocks)] = n
            BY <1>2, <2>2 DEF Kicked, Loads
        <3> QED
            BY <3>1, <3>2
    <2>4. nfsImage' = BlocksFrom(h, 0, nfs.offset + k)
        <3>1. nfsImage' = StoreBlock(nfsImage, nfs.offset, m.blocks)
            BY <1>10 DEF ReadReply
        <3> QED
            BY <1>5, <2>1, <3>1, StoreExtends
    <2>5. /\ n \in Loads /\ n.id = nfs.id /\ n.ether = nfs.ether /\ n.grown = nfs.grown /\ n.net = nfs.net /\ n.state = "READ"
          /\ n.download = nfs.download /\ n.dir = nfs.dir /\ n.file = nfs.file /\ n.mounted = nfs.mounted
          /\ n.dirfh = nfs.dirfh /\ n.offset = nfs.offset + k /\ n.filefh = h
        <3>1. nfs.offset + k \in Nat /\ 0 \in 0 .. 1
            BY <1>5
        <3> QED
            BY <1>1, <1>2, <3>1 DEF Loads, NfsStates
    <2> HIDE DEF n
    <2>6. OnTheWay(n, nfsImage', nfsAsked)
        BY <1>1, <1>2, <1>3, <1>7, <1>9, <1>10, <2>1, <2>4, <2>5 DEF OnTheWay, Leads
    <2> QED
        BY <1>1, <1>2, <1>6, <1>8, <1>10, <2>3, <2>5, <2>6, GoesOn DEF Good
<1>11. CASE ~(Good(m) /\ m.blocks # <<>>)
    <2>1. nfsImage' = nfsImage /\ Stored
        BY <1>1, <1>11 DEF ReadReply, Stored
    <2>2. CASE Good(m)
        <3>1. /\ Node(h).kind = "file"
              /\ \E k \in Nat : m.blocks = BlocksFrom(h, nfs.offset, k) /\ (k = 0 => nfs.offset = Node(h).blocks)
            BY <1>9, <2>2
        <3>2. PICK k \in Nat : m.blocks = BlocksFrom(h, nfs.offset, k) /\ (k = 0 => nfs.offset = Node(h).blocks)
            BY <3>1
        <3>3. nfs.offset = Node(h).blocks
            <4>1. BlocksFrom(h, nfs.offset, k) = <<>>
                BY <1>11, <2>2, <3>2
            <4>2. k \in Nat /\ nfs.offset \in Nat
                BY <1>5
            <4>3. k = 0
                BY <4>1, <4>2, BlocksAre
            <4> QED
                BY <3>2, <4>3
        <3>4. ~nfs.grown => h = nfsAsked
            <4>1. ~IsLink(h)
                BY <1>3, <3>1, NodeIs
            <4>2. Reaches(h, h)
                BY <1>3, <4>1, ReachesItself
            <4> QED
                BY <1>1, <1>2, <1>3, <4>2 DEF OnTheWay, Leads
        <3>5. WholeFile(nfs, nfsImage, nfsAsked)
            BY <1>5, <3>1, <3>3, <3>4 DEF WholeFile
        <3> DEFINE n == [nfs EXCEPT !.age = 0, !.state = "UMOUNT", !.download = "success"]
        <3>6. SendFrom(n)
            <4>1. SendFrom(ReadSucceeded(Kicked(nfs)))
                BY <1>11, <2>2 DEF ReadReply, Good
            <4>2. ReadSucceeded(Kicked(nfs)) = n
                BY <1>2 DEF ReadSucceeded, Kicked, Loads
            <4> QED
                BY <4>1, <4>2
        <3>7. /\ n \in Loads /\ n.id = nfs.id /\ n.ether = nfs.ether /\ n.grown = nfs.grown /\ n.net = nfs.net /\ n.state = "UMOUNT"
              /\ n.download = "success" /\ n.dir = nfs.dir /\ n.mounted = nfs.mounted
              /\ n.file = nfs.file /\ n.filefh = nfs.filefh
            <4>1. 0 \in 0 .. 1
                OBVIOUS
            <4> QED
                BY <1>2, <4>1 DEF Loads, NfsStates
        <3> HIDE DEF n
        <3>8. OnTheWay(n, nfsImage', nfsAsked)
            BY <1>3, <1>7, <2>1, <3>5, <3>7 DEF OnTheWay, WholeFile
        <3> QED
            BY <1>1, <1>2, <1>6, <2>1, <3>6, <3>7, <3>8, GoesOn
    <2>3. CASE ~Good(m) /\ m.id = nfs.id /\ m.status = "ISDIR or INVAL"
        <3>1. Node(h).kind # "file"
            BY <1>1, <1>8, <2>3, Answered, ReplyIs
        <3>2. nfs.offset = 0
            BY <1>1, <1>2, <3>1 DEF OnTheWay
        <3>3. nfsImage = <<>>
            BY <1>5, <3>2, BlocksAre
        <3> DEFINE n == [nfs EXCEPT !.age = 0, !.state = "READLINK"]
        <3>4. SendFrom(n)
            <4>1. SendFrom([Kicked(nfs) EXCEPT !.state = "READLINK"])
                BY <1>11, <2>3 DEF ReadReply
            <4>2. [Kicked(nfs) EXCEPT !.state = "READLINK"] = n
                BY <1>2 DEF Kicked, Loads
            <4> QED
                BY <4>1, <4>2
        <3>5. /\ n \in Loads /\ n.id = nfs.id /\ n.ether = nfs.ether /\ n.grown = nfs.grown /\ n.net = nfs.net /\ n.state = "READLINK"
              /\ n.download = nfs.download /\ n.dir = nfs.dir /\ n.file = nfs.file /\ n.mounted = nfs.mounted
              /\ n.dirfh = nfs.dirfh /\ n.filefh = h
            <4>1. 0 \in 0 .. 1
                OBVIOUS
            <4> QED
                BY <1>2, <4>1 DEF Loads, NfsStates
        <3> HIDE DEF n
        <3>6. OnTheWay(n, nfsImage', nfsAsked)
            BY <1>1, <1>2, <1>3, <1>7, <2>1, <3>3, <3>5 DEF OnTheWay, Leads
        <3> QED
            BY <1>1, <1>2, <1>6, <2>1, <3>4, <3>5, <3>6, GoesOn
    <2>4. CASE ~Good(m) /\ ~(m.id = nfs.id /\ m.status = "ISDIR or INVAL")
        <3>1. SendFrom([Kicked(nfs) EXCEPT !.state = "UMOUNT"])
            BY <1>11, <2>4 DEF ReadReply
        <3>2. [Kicked(nfs) EXCEPT !.state = "UMOUNT"] = [nfs EXCEPT !.state = "UMOUNT", !.age = 0]
            BY <1>2 DEF Kicked, Loads, NfsStates
        <3>3. 0 \in 0 .. 1
            OBVIOUS
        <3> QED
            BY <1>1, <2>1, <3>1, <3>2, <3>3, LoadGivesUp
    <2> QED
        BY <2>2, <2>3, <2>4
<1> QED
    BY <1>10, <1>11

LEMMA UmountReplyKeeps ==
    ASSUME NfsInv, NEW m \in nfsNet, m.to = "board", UmountReply(m)
    PROVE  NfsInv'
<1>1. NfsRunning /\ nfs.state = "UMOUNT" /\ Stored /\ nfsNet' = nfsNet /\ nfsHeld' = nfsHeld /\ Under' = Under
    BY DEF UmountReply, At, Under
<1>2. nfs \in Loads /\ OnTheWay(nfs, nfsImage, nfsAsked) /\ Numbered
    BY <1>1, RunningTyped
<1>3. nfsMounts' = nfsMounts /\ nfsImage' = nfsImage /\ nfsAsked' = nfsAsked
    BY <1>1 DEF Stored
<1>4. nfs' \in Loads /\ nfs'.id = nfs.id /\ nfs'.ether = nfs.ether /\ nfs'.net \in {"success", "fail"}
    <2>1. CASE Good(m)
        <3>1. nfs' = [nfs EXCEPT !.mounted = FALSE, !.dirfh = Garbled, !.net = nfs.download]
            BY <2>1 DEF UmountReply
        <3> QED
            BY <1>2, <3>1 DEF Loads, NfsStates
    <2>2. CASE ~Good(m)
        <3>1. nfs' = [nfs EXCEPT !.net = "fail"]
            BY <2>2 DEF UmountReply
        <3> QED
            BY <1>2, <3>1 DEF Loads, NfsStates
    <2> QED
        BY <2>1, <2>2
<1>5. nfs'.net = "success" => Good(m) /\ nfs.download = "success"
    BY <1>2 DEF UmountReply, Loads, NfsStates
<1>6. ASSUME nfs'.net = "success"
      PROVE  WholeFile(nfs, nfsImage, nfsAsked) /\ nfsMounts = {} /\ NoMount(0)
    <2>1. m.id = nfs.id /\ nfs.download = "success"
        BY <1>5, <1>6 DEF Good
    <2>2. \A c \in Under : c.to = "server" => c.id # nfs.id
        BY <1>1, <2>1, Answered
    <2>3. NoMount(nfs.id) /\ nfsMounts = {}
        BY <1>1, <2>1 DEF NfsInv, Under
    <2> QED
        BY <1>2, <2>1, <2>2, <2>3 DEF OnTheWay, NoMount
<1>7. Numbered' /\ Waiting'
    BY <1>1, <1>2, <1>4 DEF NfsInv, Numbered, NfsRunning, Waiting
<1>8. ~NfsRunning'
    BY <1>4 DEF NfsRunning
<1>10. nfs'.filefh = nfs.filefh /\ nfs'.grown = nfs.grown
    BY <1>2 DEF UmountReply, Loads, NfsStates
<1>9. nfs'.net = "success" => WholeFile(nfs', nfsImage', nfsAsked') /\ nfsMounts' = {} /\ NoMount(0)'
    BY <1>1, <1>3, <1>6, <1>10 DEF NoMount, WholeFile
<1>11. nfsMounts' \subseteq Dirs
    BY <1>3 DEF NfsInv
<1> QED
    BY <1>4, <1>7, <1>8, <1>9, <1>11 DEF NfsInv, Asks, NfsRunning

(* The timer, and the address that is given up.                            *)
LEMMA ClockKeeps ==
    ASSUME NfsInv, NfsRunning, NEW net \in {"continue", "restart", "fail"}, NEW age \in 0 .. 1,
           net = "restart" => ~nfs.ether,
           nfs' = [nfs EXCEPT !.net = net, !.age = age], UNCHANGED <<nfsNet, nfsHeld, nfsMounts, nfsImage, nfsAsked>>
    PROVE  NfsInv'
<1>1. nfs \in Loads /\ OnTheWay(nfs, nfsImage, nfsAsked) /\ Numbered /\ Asks /\ Waiting /\ nfsMounts \subseteq Dirs
    BY RunningTyped DEF NfsInv
<1>2. nfs' \in Loads /\ nfs'.net = net
    BY <1>1 DEF Loads, NfsStates
<1>3. /\ nfs'.state = nfs.state /\ nfs'.id = nfs.id /\ nfs'.mounted = nfs.mounted
      /\ nfs'.mountPort = nfs.mountPort /\ nfs'.nfsPort = nfs.nfsPort
      /\ nfs'.dirfh = nfs.dirfh /\ nfs'.filefh = nfs.filefh /\ nfs'.dir = nfs.dir /\ nfs'.file = nfs.file
      /\ nfs'.offset = nfs.offset /\ nfs'.download = nfs.download
      /\ nfs'.ether = nfs.ether /\ nfs'.grown = nfs.grown
    BY <1>1 DEF Loads, NfsStates
<1>4. OnTheWay(nfs', nfsImage', nfsAsked')
    BY <1>1, <1>3 DEF OnTheWay, WholeFile, Leads
<1>5. Under' = Under
    BY DEF Under
<1>6. Numbered' /\ Waiting'
    BY <1>1, <1>3, <1>5 DEF Numbered, NfsRunning, Waiting
<1>7. Calls(nfs') = Calls(nfs) /\ Call(nfs') = Call(nfs) /\ CallOf(nfs') = CallOf(nfs)
    BY <1>3 DEF Calls, Call, CallOf
<1>8. Asks'
    <2>1. SUFFICES ASSUME Calls(nfs'), NEW m \in Under, m.id = nfs.id
                   PROVE  m = CallOf(nfs') \/ (m.to = "board" /\ m \in ServerReplies(CallOf(nfs')))
        BY <1>3, <1>5 DEF Asks
    <2> QED
        BY <1>1, <1>7, <2>1 DEF Asks
<1>9. NoMount(nfs.id) => NoMount(nfs.id)'
    BY <1>3, <1>5 DEF NoMount
<1>10. Fresh(nfs', nfsImage', nfsAsked')
    <2>1. Fresh(nfs, nfsImage, nfsAsked)
        BY DEF NfsInv, NfsRunning
    <2> QED
        BY <1>3, <2>1 DEF Fresh, Leads
<1>11. nfs'.net # "success" /\ (nfs'.net = "restart" => ~nfs'.ether)
    BY <1>2, <1>3
<1>12. /\ NfsRunning' /\ (nfs'.state # "UMOUNT" \/ nfs'.download = "success") => NoMount(nfs.id)'
       /\ NfsRunning' /\ nfs'.download = "success" /\ (\E m \in Under' : m.to = "board" /\ m.id = nfs'.id) =>
              nfsMounts' = {}
    BY <1>3, <1>5, <1>9 DEF NfsInv
<1> QED
    BY <1>1, <1>2, <1>4, <1>6, <1>8, <1>10, <1>11, <1>12 DEF NfsInv

LEMMA TickKeeps ==
    ASSUME NfsInv, Tick \/ NfsTimeout \/ AddressGivesUp
    PROVE  NfsInv'
<1>1. NfsRunning
    BY DEF Tick, NfsTimeout, AddressGivesUp
<1>2. nfs \in Loads /\ nfs.net = "continue"
    BY <1>1, RunningTyped
<1>3. CASE Tick
    <2>1. nfs' = [nfs EXCEPT !.net = "continue", !.age = 1]
        BY <1>2, <1>3 DEF Tick, Loads, NfsStates
    <2>2. 1 \in 0 .. 1 /\ UNCHANGED <<nfsNet, nfsHeld, nfsMounts, nfsImage, nfsAsked>>
        BY <1>3 DEF Tick
    <2> QED
        BY <1>1, <2>1, <2>2, ClockKeeps
<1>4. CASE NfsTimeout
    <2>1. nfs' = [nfs EXCEPT !.net = "fail", !.age = nfs.age] /\ nfs.age \in 0 .. 1
        BY <1>2, <1>4 DEF NfsTimeout, Loads, NfsStates
    <2> QED
        BY <1>1, <1>4, <2>1, ClockKeeps DEF NfsTimeout
<1>5. CASE AddressGivesUp
    <2>1. PICK net \in {"restart", "fail"} : nfs' = [nfs EXCEPT !.net = net]
        BY <1>5 DEF AddressGivesUp
    <2>2. nfs' = [nfs EXCEPT !.net = net, !.age = nfs.age] /\ nfs.age \in 0 .. 1
        BY <1>2, <2>1 DEF Loads, NfsStates
    <2>3. ~nfs.ether /\ UNCHANGED <<nfsNet, nfsHeld, nfsMounts, nfsImage, nfsAsked>>
        BY <1>5 DEF AddressGivesUp
    <2> QED
        BY <1>1, <2>1, <2>2, <2>3, ClockKeeps
<1> QED
    BY <1>3, <1>4, <1>5

LEMMA AddressAnswerKeeps ==
    ASSUME NfsInv, AddressAnswer
    PROVE  NfsInv'
<1>1. NfsRunning /\ ~nfs.ether
    BY DEF AddressAnswer
<1>2. nfs \in Loads /\ nfs.net = "continue" /\ OnTheWay(nfs, nfsImage, nfsAsked) /\ Numbered /\ Asks
    BY <1>1, RunningTyped DEF NfsInv
<1>3. nfs' = [nfs EXCEPT !.ether = TRUE] /\ nfsHeld' = {} /\ nfsNet' = nfsNet \cup nfsHeld
    BY DEF AddressAnswer
<1>4. nfsMounts' = nfsMounts /\ nfsImage' = nfsImage /\ nfsAsked' = nfsAsked
    BY DEF AddressAnswer
<1>5. Under' = Under
    BY <1>3 DEF Under
<1>6. nfs' \in Loads
    BY <1>2, <1>3 DEF Loads, NfsStates
<1>7. /\ nfs'.state = nfs.state /\ nfs'.id = nfs.id /\ nfs'.mounted = nfs.mounted /\ nfs'.net = "continue"
      /\ nfs'.mountPort = nfs.mountPort /\ nfs'.nfsPort = nfs.nfsPort
      /\ nfs'.dirfh = nfs.dirfh /\ nfs'.filefh = nfs.filefh /\ nfs'.dir = nfs.dir /\ nfs'.file = nfs.file
      /\ nfs'.offset = nfs.offset /\ nfs'.download = nfs.download /\ nfs'.grown = nfs.grown
    BY <1>2, <1>3 DEF Loads, NfsStates
<1>8. nfs'.ether
    BY <1>2, <1>3 DEF Loads
<1>9. OnTheWay(nfs', nfsImage', nfsAsked')
    BY <1>2, <1>4, <1>7 DEF OnTheWay, WholeFile, Leads
<1>10. Numbered' /\ Waiting'
    BY <1>2, <1>3, <1>5, <1>7, <1>8 DEF Numbered, NfsRunning, Waiting
<1>11. Calls(nfs') = Calls(nfs) /\ Call(nfs') = Call(nfs) /\ CallOf(nfs') = CallOf(nfs)
    BY <1>7 DEF Calls, Call, CallOf
<1>12. Asks'
    <2>1. SUFFICES ASSUME Calls(nfs'), NEW m \in Under, m.id = nfs.id
                   PROVE  m = CallOf(nfs') \/ (m.to = "board" /\ m \in ServerReplies(CallOf(nfs')))
        BY <1>5, <1>7 DEF Asks
    <2> QED
        BY <1>1, <1>2, <1>11, <2>1 DEF Asks
<1>13. NoMount(nfs.id) => NoMount(nfs.id)'
    BY <1>5, <1>7 DEF NoMount
<1>14. Fresh(nfs', nfsImage', nfsAsked')
    BY <1>8 DEF Fresh
<1>15. /\ NfsRunning' /\ (nfs'.state # "UMOUNT" \/ nfs'.download = "success") => NoMount(nfs.id)'
       /\ NfsRunning' /\ nfs'.download = "success" /\ (\E m \in Under' : m.to = "board" /\ m.id = nfs'.id) =>
              nfsMounts' = {}
    BY <1>1, <1>4, <1>5, <1>7, <1>13 DEF NfsInv
<1>16. nfsMounts' \subseteq Dirs /\ nfs'.net = "continue"
    BY <1>4, <1>7 DEF NfsInv
<1> QED
    BY <1>6, <1>9, <1>10, <1>12, <1>14, <1>15, <1>16 DEF NfsInv

(* A load begins, by a command or again.                                   *)
LEMMA BegunKeeps ==
    ASSUME Numbered, NEW n \in Loads, n.dir \in Dirs, n.file \in Names, Leads(n, nfsAsked'), nfsImage' = <<>>,
           nfsMounts' \subseteq Dirs, Begun(n)
    PROVE  NfsInv'
<1> DEFINE first == [n EXCEPT !.net = "continue", !.download = "fail", !.state = "PRCLOOKUP_PROG_MOUNT", !.age = 0,
                              !.id = 1, !.ether = FALSE, !.grown = FALSE, !.dirfh = Garbled, !.filefh = NoFile,
                              !.offset = 0]
<1>1. nfs' = first /\ nfsNet' = Earlier(nfsNet) /\ nfsHeld' = Sent(first)
    BY DEF Begun
<1>2. /\ first \in Loads /\ first.net = "continue" /\ first.download = "fail"
      /\ first.state = "PRCLOOKUP_PROG_MOUNT" /\ first.id = 1 /\ ~first.ether /\ ~first.grown
      /\ first.dir = n.dir /\ first.file = n.file
    <2> DEFINE n1 == [n EXCEPT !.net = "continue", !.download = "fail", !.state = "PRCLOOKUP_PROG_MOUNT", !.age = 0]
               n2 == [n1 EXCEPT !.id = 1, !.ether = FALSE, !.grown = FALSE]
    <2>1. 0 \in 0 .. 1 /\ 1 \in 0 .. MaxCalls /\ 0 \in Nat /\ NoFile \in Handles /\ Garbled \in Dirs \cup {Garbled}
        BY NfsAssumption DEF NoFile, Handles
    <2>2. /\ n1 \in Loads /\ n1.net = "continue" /\ n1.download = "fail"
          /\ n1.state = "PRCLOOKUP_PROG_MOUNT" /\ n1.dir = n.dir /\ n1.file = n.file
        BY <2>1 DEF Loads, NfsStates
    <2>3. first = [n2 EXCEPT !.dirfh = Garbled, !.filefh = NoFile, !.offset = 0]
        OBVIOUS
    <2> HIDE DEF n1
    <2>4. /\ n2 \in Loads /\ n2.net = "continue" /\ n2.download = "fail"
          /\ n2.state = "PRCLOOKUP_PROG_MOUNT" /\ n2.dir = n.dir /\ n2.file = n.file
          /\ n2.id = 1 /\ ~n2.ether /\ ~n2.grown
        BY <2>1, <2>2 DEF Loads, NfsStates
    <2> HIDE DEF n2, first
    <2> QED
        BY <2>1, <2>3, <2>4 DEF Loads, NfsStates
<1> HIDE DEF first
<1>3. CallOf(first) \in CallRecords /\ (\A c \in Sent(first) : c = CallOf(first))
    BY <1>2, SentIs
<1>4. CallOf(first).to = "server" /\ CallOf(first).id = 1 /\ CallOf(first).proc = "PRCLOOKUP_PROG_MOUNT"
    BY <1>2 DEF CallOf
<1>5. OldReply.to = "board" /\ OldReply.id = 0
    BY DEF OldReply
<1>6. ASSUME NEW m \in Earlier(nfsNet)
      PROVE  m.id = 0 /\ (m \in CallRecords \/ m = OldReply)
    <2>1. PICK k \in nfsNet : m = IF k.to = "board" THEN OldReply ELSE [k EXCEPT !.id = 0, !.fh = NoFile, !.from = 0]
        BY <1>6 DEF Earlier
    <2>2. CASE k.to = "board"
        BY <1>5, <2>1, <2>2
    <2>3. CASE k.to # "board"
        <3>1. k \in CallRecords
            BY <2>3 DEF Numbered, Under
        <3>2. NoFile \in [dir : Dirs \cup {Garbled}, file : Spelled] /\ 0 \in 0 .. MaxCalls /\ 0 \in Nat
            BY NfsAssumption DEF NoFile, Spelled
        <3>3. m = [k EXCEPT !.id = 0, !.fh = NoFile, !.from = 0]
            BY <2>1, <2>3
        <3> QED
            BY <3>1, <3>2, <3>3 DEF CallRecords
    <2> QED
        BY <2>2, <2>3
<1>7. ASSUME NEW m \in Under'
      PROVE  m = CallOf(first) \/ (m.id = 0 /\ (m \in CallRecords \/ m = OldReply))
    BY <1>1, <1>3, <1>6 DEF Under
<1>8. Numbered'
    <2>1. 0 < nfs'.id
        BY <1>1, <1>2
    <2>2. \A m \in Under' : \/ m \in CallRecords /\ m.id <= nfs'.id
                            \/ m.to = "board" /\ (m.id = nfs'.id \/ m = OldReply)
        BY <1>1, <1>2, <1>3, <1>4, <1>5, <1>7
    <2>3. \A c, m \in Under' : c.to = "server" /\ c.id # 0 /\ m.id = c.id => m = c
        BY <1>4, <1>7
    <2>4. \A c \in Under' : c.to = "server" /\ c.id # 0 /\ c.proc = "MOUNT" => c.fh.dir \in Dirs
        BY <1>4, <1>7
    <2> QED
        BY <2>1, <2>2, <2>3, <2>4 DEF Numbered
<1>9. Waiting'
    <2>1. \A c \in nfsHeld' : c.to = "server" /\ c.id # 0 /\ ~nfs'.ether
        BY <1>1, <1>2, <1>3, <1>4
    <2>2. \A m \in nfsNet' : m.id = 0
        BY <1>1, <1>6
    <2> QED
        BY <2>1, <2>2 DEF Waiting
<1>10. Asks'
    <2>1. \A m \in Under' : m.id = nfs'.id => m = CallOf(nfs')
        BY <1>1, <1>2, <1>7
    <2> QED
        BY <2>1 DEF Asks
<1>11. Leads(first, nfsAsked')
    BY <1>2 DEF Leads
<1>12. OnTheWay(nfs', nfsImage', nfsAsked') /\ Fresh(nfs', nfsImage', nfsAsked')
    BY <1>1, <1>2, <1>11 DEF OnTheWay, Fresh
<1>13. NoMount(nfs.id)'
    BY <1>1, <1>2, <1>4, <1>7 DEF NoMount
<1>14. nfs'.net = "continue" /\ nfs'.download = "fail" /\ nfs' \in Loads
    BY <1>1, <1>2
<1> QED
    BY <1>8, <1>9, <1>10, <1>12, <1>13, <1>14 DEF NfsInv

LEMMA NfsStartKeeps ==
    ASSUME NfsInv, NEW h \in Asked, NfsStart(h.dir, h.file)
    PROVE  NfsInv'
<1>1. nfs \in Loads /\ Numbered
    BY DEF NfsInv
<1>2. h \in Files /\ h = [dir |-> h.dir, file |-> h.file] /\ h.dir \in Dirs /\ h.file \in Names
    BY NfsAssumption DEF Files
<1> DEFINE path == Overwritten(nfs.path, h.file, Len(h.file) + 1)
           n == [nfs EXCEPT !.loads = nfs.loads + 1, !.dir = h.dir, !.file = h.file, !.path = path]
<1>3. Begun(n) /\ nfsImage' = <<>> /\ nfsAsked' = Resolved[MaxLinks][h] /\ nfsMounts' = {}
    BY <1>2 DEF NfsStart, MaxLinks
<1>4. path \in Paths /\ nfs.loads + 1 \in Nat /\ h.file \in Spelled
    <2>1. nfs.path \in Paths /\ nfs.loads \in Nat
        BY <1>1 DEF Loads
    <2> QED
        BY <1>2, <2>1, OverwrittenIs DEF Spelled
<1> HIDE DEF path
<1>5. n \in Loads /\ n.dir = h.dir /\ n.file = h.file
    BY <1>1, <1>2, <1>4 DEF Loads, NfsStates
<1> HIDE DEF n
<1>6. Leads(n, nfsAsked')
    <2>1. ASSUME NEW f \in Files, Reaches(h, f) PROVE f = nfsAsked'
        BY <1>3, <2>1, ReachedIsResolved
    <2> QED
        BY <1>2, <1>5, <2>1 DEF Leads
<1>7. nfsMounts' \subseteq Dirs
    BY <1>3
<1> QED
    BY <1>1, <1>2, <1>3, <1>5, <1>6, <1>7, BegunKeeps

LEMMA RestartLoadKeeps ==
    ASSUME NfsInv, RestartLoad
    PROVE  NfsInv'
<1>1. Fresh(nfs, nfsImage, nfsAsked) /\ ~nfs.ether /\ Numbered /\ nfs \in Loads /\ nfsMounts \subseteq Dirs
    BY DEF NfsInv, RestartLoad
<1>2. Begun(nfs) /\ nfsMounts' = nfsMounts /\ nfsImage' = nfsImage /\ nfsAsked' = nfsAsked
    BY DEF RestartLoad
<1>3. nfs.dir \in Dirs /\ nfs.file \in Names /\ nfsImage' = <<>> /\ Leads(nfs, nfsAsked)
    BY <1>1, <1>2 DEF Fresh
<1>4. Leads(nfs, nfsAsked')
    BY <1>2, <1>3
<1> QED
    BY <1>1, <1>2, <1>3, <1>4, BegunKeeps

LEMMA ServeKeeps ==
    ASSUME NfsInv, NEW c \in nfsNet, Serve(c)
    PROVE  NfsInv'
<1>1. /\ nfs \in Loads /\ Numbered /\ Asks /\ Waiting /\ nfsMounts \subseteq Dirs /\ c.to = "server"
      /\ c \in Under
    BY DEF NfsInv, Serve, Under
<1>2. nfs' = nfs /\ nfsHeld' = nfsHeld /\ nfsImage' = nfsImage /\ nfsAsked' = nfsAsked
    BY DEF Serve
<1>3. PICK r \in ServerReplies(c) : nfsNet' = Aged((nfsNet \ {c}) \cup {r}, nfs.id)
    BY DEF Serve
<1>4. c \in CallRecords /\ c.id \in Nat /\ c.id <= nfs.id /\ nfs.id \in Nat /\ 0 < nfs.id
    <2>1. c \in CallRecords /\ c.id <= nfs.id /\ 0 < nfs.id
        BY <1>1 DEF Numbered
    <2>2. nfs.id \in 0 .. MaxCalls /\ c.id \in 0 .. MaxCalls /\ MaxCalls \in Nat
        BY <1>1, <2>1, NfsAssumption DEF Loads, CallRecords
    <2> QED
        BY <2>1, <2>2
<1>5. r.to = "board" /\ r.id = c.id
    <2>1. \E status, fh, relative, blocks : r = Reply(c, status, fh, relative, blocks)
        <3>1. CASE c.proc \in {"PRCLOOKUP_PROG_MOUNT", "PRCLOOKUP_PROG_NFS", "UMOUNT", "MOUNT"}
            BY <3>1 DEF ServerReplies
        <3>2. CASE c.proc = "LOOKUP"
            BY <3>2 DEF ServerReplies
        <3>3. CASE c.proc = "READLINK"
            BY <3>3 DEF ServerReplies
        <3>4. CASE c.proc = "READ" /\ Node(c.fh).kind # "file"
            BY <3>4 DEF ServerReplies
        <3>5. CASE /\ c.proc \notin {"PRCLOOKUP_PROG_MOUNT", "PRCLOOKUP_PROG_NFS", "UMOUNT", "MOUNT", "LOOKUP", "READLINK"}
                   /\ ~(c.proc = "READ" /\ Node(c.fh).kind # "file")
            BY <3>5 DEF ServerReplies
        <3> QED
            BY <3>1, <3>2, <3>3, <3>4, <3>5
    <2> QED
        BY <2>1 DEF Reply
<1>6. OldReply.to = "board" /\ OldReply.id = 0
    BY DEF OldReply
<1>18. c \notin nfsHeld
    <2>1. SUFFICES ASSUME c \in nfsHeld PROVE FALSE
        OBVIOUS
    <2>2. c.id # 0 /\ ~nfs.ether
        BY <1>1, <2>1 DEF Waiting
    <2> QED
        BY <1>1, <2>2 DEF Waiting
<1>7. ASSUME NEW m \in Under'
      PROVE  \/ m = OldReply
             \/ m = r /\ r.id = nfs.id
             \/ m \in Under /\ m # c /\ m \in CallRecords /\ m.to = "server" /\ m.id <= nfs.id
             \/ m \in Under /\ m.to = "board" /\ m.id = nfs.id
    <2>1. \A k \in CallRecords : k.to = "server"
        BY DEF CallRecords
    <2>2. CASE m \in nfsHeld'
        <3>1. m \in Under /\ m # c /\ m.to = "server"
            BY <1>1, <1>2, <1>18, <2>2 DEF Waiting, Under
        <3>2. m \in CallRecords /\ m.id <= nfs.id
            BY <1>1, <3>1 DEF Numbered
        <3> QED
            BY <3>1, <3>2
    <2>3. CASE m \in nfsNet' /\ m.to = "board"
        <3>1. m = OldReply \/ (m \in (nfsNet \ {c}) \cup {r} /\ m.id = nfs.id)
            BY <1>3, <2>3, AgedAre
        <3> QED
            BY <2>3, <3>1 DEF Under
    <2>4. CASE m \in nfsNet' /\ m.to # "board"
        <3>1. m \in (nfsNet \ {c}) \cup {r}
            BY <1>3, <1>6, <2>4, AgedAre
        <3>2. m \in Under /\ m # c
            BY <1>5, <2>4, <3>1 DEF Under
        <3> QED
            BY <1>1, <2>1, <2>4, <3>2 DEF Numbered
    <2> QED
        BY <2>2, <2>3, <2>4 DEF Under
<1>8. Numbered'
    <2>1. ASSUME NEW m \in Under'
          PROVE  \/ m \in CallRecords /\ m.id <= nfs.id
                 \/ m.to = "board" /\ (m.id = nfs.id \/ m = OldReply)
        BY <1>5, <1>6, <1>7
    <2>2. ASSUME NEW d \in Under', NEW m \in Under', d.to = "server", d.id # 0, m.id = d.id
          PROVE  m = d
        <3>1. d \in Under /\ d # c
            BY <1>5, <1>6, <1>7, <2>2
        <3>2. m \in Under \/ m = r \/ m = OldReply
            BY <1>7
        <3>3. m # OldReply
            BY <1>6, <2>2
        <3>4. m # r
            <4>1. d.id # c.id
                BY <1>1, <2>2, <3>1 DEF Numbered
            <4> QED
                BY <1>5, <2>2, <4>1
        <3> QED
            BY <1>1, <2>2, <3>1, <3>2, <3>3, <3>4 DEF Numbered
    <2>3. ASSUME NEW d \in Under', d.to = "server", d.id # 0, d.proc = "MOUNT"
          PROVE  d.fh.dir \in Dirs
        BY <1>1, <1>5, <1>6, <1>7, <2>3 DEF Numbered
    <2> QED
        BY <1>2, <1>4, <2>1, <2>2, <2>3 DEF Numbered
<1>22. Waiting'
    <2>1. ASSUME ~nfs.ether, NEW m \in nfsNet'
          PROVE  m.id = 0
        <3>1. c.id = 0
            BY <1>1, <2>1 DEF Waiting
        <3>2. m = OldReply \/ m \in (nfsNet \ {c}) \cup {r}
            BY <1>3, AgedAre
        <3> QED
            BY <1>1, <1>5, <1>6, <2>1, <3>1, <3>2 DEF Waiting
    <2> QED
        BY <1>1, <1>2, <2>1 DEF Waiting
<1>9. Asks'
    <2>1. SUFFICES ASSUME NfsRunning, Calls(nfs), NEW m \in Under', m.id = nfs.id
                   PROVE  m = CallOf(nfs) \/ (m.to = "board" /\ m \in ServerReplies(CallOf(nfs)))
        BY <1>2 DEF Asks, NfsRunning
    <2>2. m # OldReply
        BY <1>4, <1>6, <2>1
    <2>3. CASE m = r /\ r.id = nfs.id
        <3>1. c = CallOf(nfs)
            BY <1>1, <1>5, <2>1, <2>3 DEF Asks
        <3> QED
            BY <1>3, <1>5, <2>3, <3>1
    <2>4. CASE m \in Under
        BY <1>1, <2>1, <2>4 DEF Asks
    <2> QED
        BY <1>7, <2>2, <2>3, <2>4
<1>10. \A d \in Under' : d.to = "server" => d \in Under
    BY <1>5, <1>6, <1>7
<1>11. \A id : NoMount(id) => NoMount(id)'
    <2>1. ASSUME NEW id, NoMount(id) PROVE NoMount(id)'
        BY <1>2, <1>10, <2>1 DEF NoMount
    <2> QED
        BY <2>1
<1>12. nfsMounts' \subseteq Dirs
    <2>1. c.proc = "MOUNT" /\ c.id # 0 => c.fh.dir \in Dirs
        BY <1>1 DEF Numbered
    <2>2. nfsMounts' \subseteq nfsMounts \cup {c.fh.dir} /\ (~(c.proc = "MOUNT" /\ c.id > 0) => nfsMounts' \subseteq nfsMounts)
        BY DEF Serve
    <2>3. c.id > 0 => c.id # 0
        BY <1>4
    <2> QED
        BY <1>1, <2>1, <2>2, <2>3
<1>13. ASSUME NoMount(0) \/ (NoMount(nfs.id) /\ c.id # nfs.id), nfsMounts = {} PROVE nfsMounts' = {}
    <2>1. c.proc = "MOUNT" => c.id = 0
        BY <1>1, <1>13 DEF NoMount
    <2>2. c.id = 0 => ~(c.id > 0)
        OBVIOUS
    <2> QED
        BY <1>13, <2>1, <2>2 DEF Serve
<1>14. ASSUME NfsRunning, nfs.download = "success", NEW m \in Under', m.to = "board", m.id = nfs.id
       PROVE  nfsMounts' = {}
    <2>1. OnTheWay(nfs, nfsImage, nfsAsked) /\ NoMount(nfs.id)
        BY <1>14 DEF NfsInv
    <2>2. nfs.state = "UMOUNT" /\ nfs.mounted
        BY <1>14, <2>1 DEF OnTheWay
    <2>3. Calls(nfs)
        BY <2>2 DEF Calls
    <2>4. CASE c.id = nfs.id
        <3>1. c = CallOf(nfs)
            BY <1>1, <1>14, <2>3, <2>4 DEF Asks
        <3>2. c.proc = "UMOUNT"
            BY <2>2, <3>1 DEF CallOf
        <3> QED
            BY <3>2 DEF Serve
    <2>5. CASE c.id # nfs.id
        <3>1. m # OldReply /\ m # r
            BY <1>4, <1>5, <1>6, <1>14, <2>5
        <3>2. m \in Under
            BY <1>7, <1>14, <3>1
        <3>3. nfsMounts = {}
            BY <1>14, <3>2 DEF NfsInv
        <3> QED
            BY <1>13, <2>1, <2>5, <3>3
    <2> QED
        BY <2>4, <2>5
<1>15. NfsRunning' = NfsRunning
    BY <1>2 DEF NfsRunning
<1>16. /\ NfsRunning => OnTheWay(nfs, nfsImage, nfsAsked)
       /\ nfs.net \in {"continue", "restart"} => Fresh(nfs, nfsImage, nfsAsked)
       /\ nfs.net = "restart" => ~nfs.ether
    BY DEF NfsInv
<1>17. NfsRunning /\ (nfs.state # "UMOUNT" \/ nfs.download = "success") => NoMount(nfs.id)'
    BY <1>2, <1>11 DEF NfsInv, NoMount
<1>19. nfs.net = "success" => WholeFile(nfs, nfsImage, nfsAsked) /\ nfsMounts' = {} /\ NoMount(0)'
    BY <1>11, <1>13 DEF NfsInv
<1>20. /\ NfsRunning' => OnTheWay(nfs', nfsImage', nfsAsked')
       /\ nfs'.net \in {"continue", "restart"} => Fresh(nfs', nfsImage', nfsAsked')
       /\ nfs'.net = "restart" => ~nfs'.ether
       /\ nfs'.net = "success" => WholeFile(nfs', nfsImage', nfsAsked') /\ nfsMounts' = {} /\ NoMount(0)'
    BY <1>2, <1>15, <1>16, <1>19
<1>21. NfsRunning' /\ nfs'.download = "success" /\ (\E m \in Under' : m.to = "board" /\ m.id = nfs'.id) =>
           nfsMounts' = {}
    BY <1>2, <1>14, <1>15
<1> QED
    BY <1>1, <1>2, <1>8, <1>9, <1>12, <1>15, <1>17, <1>20, <1>21, <1>22 DEF NfsInv

LEMMA NfsSteps == NfsInv /\ [NfsNext]_nfsVars => NfsInv'
<1>1. SUFFICES ASSUME NfsInv, [NfsNext]_nfsVars PROVE NfsInv'
    OBVIOUS
<1>2. CASE NfsHandler
    <2>1. PICK m \in nfsNet :
             /\ m.to = "board"
             /\ \/ MountPortReply(m) \/ NfsPortReply(m) \/ MountReply(m) \/ LookupReply(m)
                \/ ReadlinkReply(m) \/ ReadReply(m) \/ UmountReply(m)
        BY <1>2 DEF NfsHandler
    <2> QED
        BY <1>1, <2>1, MountPortReplyKeeps, NfsPortReplyKeeps, MountReplyKeeps, LookupReplyKeeps,
           ReadlinkReplyKeeps, ReadReplyKeeps, UmountReplyKeeps
<1>3. CASE Tick \/ NfsTimeout \/ AddressGivesUp
    BY <1>1, <1>3, TickKeeps
<1>7. CASE AddressAnswer
    BY <1>1, <1>7, AddressAnswerKeeps
<1>8. CASE RestartLoad
    BY <1>1, <1>8, RestartLoadKeeps
<1>4. CASE \E h \in Asked : NfsStart(h.dir, h.file)
    BY <1>1, <1>4, NfsStartKeeps
<1>5. CASE \E m \in nfsNet : Serve(m)
    BY <1>1, <1>5, ServeKeeps
<1>6. CASE UNCHANGED nfsVars
    BY <1>1, <1>6 DEF nfsVars, NfsInv, Numbered, Waiting, Under, Asks, NfsRunning, NoMount
<1> QED
    BY <1>1, <1>2, <1>3, <1>4, <1>5, <1>6, <1>7, <1>8 DEF NfsNext

LEMMA InitNfs == NfsInit => NfsInv
<1>1. SUFFICES ASSUME NfsInit PROVE NfsInv
    OBVIOUS
<1>2. nfs \in Loads
    <2>1. [i \in 1 .. PathMax |-> Nul] \in Paths /\ 0 \in 0 .. MaxCalls
        BY NfsAssumption DEF Paths
    <2> QED
        BY <1>1, <2>1 DEF NfsInit, Loads, NfsStates, Handles, NoFile, Spelled
<1>3. ~NfsRunning /\ nfs.net = "idle" /\ nfsNet = {} /\ nfsHeld = {} /\ nfsMounts = {} /\ Under = {}
    BY <1>1 DEF NfsInit, NfsRunning, Under
<1> QED
    BY <1>2, <1>3 DEF NfsInv, Numbered, Waiting, Asks

LEMMA NfsLoads == NfsInv => LoadIsExact
<1>1. SUFFICES ASSUME NfsInv PROVE LoadIsExact
    OBVIOUS
<1>2. NfsTypeOK
    BY <1>1 DEF NfsInv, NfsTypeOK, Loads, NfsStates, Spelled, Paths
<1> QED
    BY <1>1, <1>2 DEF NfsInv, LoadIsExact, LoadedIsFile, NothingLeftMounted, WholeFile

(* For every tree of files, links and cycles of links, every read size,    *)
(* every delay of calls and replies and every answer to the request for    *)
(* the server's address: a load that ends well stored a whole file, from   *)
(* its first block to its last, the one the command named as long as no    *)
(* relative link left a byte behind its name, and left nothing mounted     *)
(* (NfsHandler, nfs_readlink_reply, nfs_read_reply, nfs_umountall_reply).  *)
THEOREM NfsLoadsTheFile == NfsSpec => []LoadIsExact
<1>1. NfsSpec => []NfsInv
    BY InitNfs, NfsSteps, PTL DEF NfsSpec
<1> QED
    BY <1>1, NfsLoads, PTL

-----------------------------------------------------------------------------
(* The timers of PING, SNTP and CDP.                                       *)

VlanSettings == [appliance : Announced("appliance") \cup {NoVlan}, native : Announced("native") \cup {NoVlan}]
ProbeRecords ==
    [protocol : {"none", "PING", "CDP", "SNTP"}, net : {"idle", "continue", "restart", "hung", "success", "fail"},
     left : Nat, seq : 0 .. 3, ok : BOOLEAN, arpTry : 0 .. ArpTries, arpLeft : Nat]

(* The timer of PING and SNTP is over before the address is given up: what *)
(* is left of it is less than the tries left take.                         *)
UntilGivenUp(p) == p.arpLeft + (ArpTries - 1 - p.arpTry) * (ArpTicks + 1)
InTime(p) ==
    /\ p.seq < 3
    /\ p.arpLeft > 0 => p.arpTry < ArpTries
    /\ p.protocol \in {"PING", "SNTP"} => p.left > 0 /\ (p.arpLeft > 0 => p.left < UntilGivenUp(p))

ProbeInv ==
    /\ probe \in ProbeRecords /\ probes \in 0 .. MaxProbes
    /\ vlans = announced /\ (~outOfStep => {vlans, announced, vlanEnv} \subseteq VlanSettings)
    /\ Probing => InTime(probe)
    /\ probe.protocol \in {"PING", "SNTP"} => probe.net # "restart"
    /\ probe.protocol = "none" => probe.net = "idle"

(* The function that Tlvs is defined by.                                   *)
TlvsWith(tlvs, f, n) ==
    [i \in 0 .. n |->
        IF i = 0 THEN NoVlans
        ELSE CASE tlvs[i].type = "native" -> [f[i - 1] EXCEPT !.native = tlvs[i].vlan]
               [] tlvs[i].type = "appliance" -> [f[i - 1] EXCEPT !.appliance = tlvs[i].vlan]
               [] OTHER -> f[i - 1]]

LEMMA TlvsExist == \A tlvs : \A n \in Nat : \E f : f = TlvsWith(tlvs, f, n)
<1> SUFFICES ASSUME NEW tlvs PROVE \A n \in Nat : \E f : f = TlvsWith(tlvs, f, n)
    OBVIOUS
<1> DEFINE S == {n \in Nat : \E f : f = TlvsWith(tlvs, f, n)}
<1>1. 0 \in S
    <2> DEFINE g == [i \in 0 .. 0 |-> NoVlans]
    <2>1. \A i \in 0 .. 0 : i = 0
        OBVIOUS
    <2>2. TlvsWith(tlvs, g, 0) = g
        BY <2>1 DEF TlvsWith
    <2> QED
        BY <2>2
<1>2. ASSUME NEW n \in Nat, n \in S
      PROVE  n + 1 \in S
    <2>1. PICK f : f = TlvsWith(tlvs, f, n)
        BY <1>2
    <2> DEFINE g == [i \in 0 .. n + 1 |-> TlvsWith(tlvs, f, n + 1)[i]]
    <2>2. \A i \in 0 .. n : g[i] = f[i]
        <3>1. \A i \in 0 .. n : i \in 0 .. n + 1
            OBVIOUS
        <3>2. \A i \in 0 .. n : TlvsWith(tlvs, f, n + 1)[i] = TlvsWith(tlvs, f, n)[i]
            BY <3>1 DEF TlvsWith
        <3>3. \A i \in 0 .. n : TlvsWith(tlvs, f, n)[i] = f[i]
            BY <2>1
        <3> QED
            BY <3>1, <3>2, <3>3
    <2>3. \A i \in 0 .. n + 1 : i # 0 => i - 1 \in 0 .. n
        OBVIOUS
    <2>4. g = TlvsWith(tlvs, f, n + 1)
        BY DEF TlvsWith
    <2> HIDE DEF g
    <2>5. TlvsWith(tlvs, f, n + 1) = TlvsWith(tlvs, g, n + 1)
        BY <2>2, <2>3 DEF TlvsWith
    <2>6. g = TlvsWith(tlvs, g, n + 1)
        BY <2>4, <2>5
    <2>7. \E e : e = TlvsWith(tlvs, e, n + 1)
        BY <2>6
    <2> QED
        BY <2>7
<1> HIDE DEF S
<1>3. Nat \subseteq S
    BY <1>1, <1>2, SetInduction
<1> QED
    BY <1>3 DEF S

LEMMA TlvsType ==
    ASSUME NEW tlvs \in Announcements, Complete(tlvs)
    PROVE  Tlvs(tlvs) \in VlanSettings
<1> DEFINE upto == CHOOSE f : f = TlvsWith(tlvs, f, Len(tlvs))
<1>1. tlvs \in Seq({tlvs[i] : i \in DOMAIN tlvs})
    BY ProbesAssumption
<1>2. Len(tlvs) \in Nat /\ DOMAIN tlvs = 1 .. Len(tlvs)
    BY <1>1, LenProperties
<1>3. Tlvs(tlvs) = upto[Len(tlvs)]
    BY DEF Tlvs, TlvsWith
<1>4. upto = TlvsWith(tlvs, upto, Len(tlvs))
    BY <1>2, TlvsExist
<1> HIDE DEF upto
<1>5. \A i \in 0 .. Len(tlvs) : upto[i] = TlvsWith(tlvs, upto, Len(tlvs))[i]
    BY <1>4
<1>6. \A i \in DOMAIN tlvs : \A type : tlvs[i].type = type => tlvs[i].vlan \in Announced(type)
    BY DEF Announced
<1> DEFINE S == {n \in Nat : n <= Len(tlvs) => upto[n] \in VlanSettings}
<1>7. 0 \in S
    <2>0. 0 \in 0 .. Len(tlvs)
        BY <1>2
    <2>1. upto[0] = NoVlans
        BY <1>5, <2>0 DEF TlvsWith
    <2> QED
        BY <2>1 DEF NoVlans, VlanSettings
<1>8. ASSUME NEW n \in Nat, n \in S
      PROVE  n + 1 \in S
    <2>1. SUFFICES ASSUME n + 1 <= Len(tlvs) PROVE upto[n + 1] \in VlanSettings
        OBVIOUS
    <2>2. upto[n] \in VlanSettings
        BY <1>2, <1>8, <2>1
    <2>3. n + 1 \in 0 .. Len(tlvs) /\ n + 1 \in DOMAIN tlvs /\ n + 1 # 0 /\ (n + 1) - 1 = n
        BY <1>2, <2>1
    <2>4. upto[n + 1] = CASE tlvs[n + 1].type = "native" -> [upto[n] EXCEPT !.native = tlvs[n + 1].vlan]
                          [] tlvs[n + 1].type = "appliance" -> [upto[n] EXCEPT !.appliance = tlvs[n + 1].vlan]
                          [] OTHER -> upto[n]
        BY <1>5, <2>3 DEF TlvsWith
    <2>5. CASE tlvs[n + 1].type = "native"
        <3>1. tlvs[n + 1].vlan \in Announced("native")
            BY <1>6, <2>3, <2>5
        <3>2. upto[n + 1] = [upto[n] EXCEPT !.native = tlvs[n + 1].vlan]
            BY <2>4, <2>5
        <3> QED
            BY <2>2, <3>1, <3>2 DEF VlanSettings
    <2>6. CASE tlvs[n + 1].type = "appliance"
        <3>1. tlvs[n + 1].vlan \in Announced("appliance")
            BY <1>6, <2>3, <2>6
        <3>2. upto[n + 1] = [upto[n] EXCEPT !.appliance = tlvs[n + 1].vlan]
            BY <2>4, <2>6
        <3> QED
            BY <2>2, <3>1, <3>2 DEF VlanSettings
    <2>7. CASE tlvs[n + 1].type \notin {"native", "appliance"}
        BY <2>2, <2>4, <2>7
    <2> QED
        BY <2>5, <2>6, <2>7
<1> HIDE DEF S
<1>9. Len(tlvs) \in S
    BY <1>2, <1>7, <1>8, SetInduction
<1> QED
    BY <1>2, <1>3, <1>9 DEF S

LEMMA TriesAre ==
    /\ {ArpTicks, ArpTries, PingTicks, SntpTicks, CdpTicks, MaxProbes} \subseteq Nat \ {0}
    /\ ArpTries > 1
    /\ \A t \in {PingTicks, SntpTicks} : t + 1 < (ArpTicks + 1) + (ArpTries - 2) * (ArpTicks + 1)
<1>1. {ArpTicks, ArpTries, PingTicks, SntpTicks, CdpTicks, MaxProbes} \subseteq Nat \ {0}
    BY ProbesAssumption
<1>2. PingTicks + 1 < (ArpTries - 1) * (ArpTicks + 1)
    BY TimersAssumption
<1>3. ArpTries # 1
    BY <1>1, <1>2
<1>4. (ArpTries - 1) * (ArpTicks + 1) = (ArpTicks + 1) + (ArpTries - 2) * (ArpTicks + 1)
    BY <1>1
<1> QED
    BY <1>1, <1>3, <1>4, TimersAssumption

LEMMA StartProbeIs ==
    ASSUME NEW protocol \in {"PING", "CDP", "SNTP"}
    PROVE  /\ StartProbe(protocol) \in ProbeRecords
           /\ StartProbe(protocol).net = "continue" /\ StartProbe(protocol).protocol = protocol /\ InTime(StartProbe(protocol))
<1> DEFINE p0 == [protocol |-> protocol, net |-> "continue", left |-> 0, seq |-> 0, ok |-> FALSE, arpTry |-> 0, arpLeft |-> 0]
           of(left, try, arpLeft) == [protocol |-> protocol, net |-> "continue", left |-> left, seq |-> 0, ok |-> FALSE,
                                      arpTry |-> try, arpLeft |-> arpLeft]
<1>1. CASE protocol \in {"PING", "SNTP"}
    <2>1. PICK t \in {PingTicks, SntpTicks} : StartProbe(protocol) = of(t + 1, 1, ArpTicks + 1)
        BY <1>1 DEF StartProbe, PingStart, SntpStart, SntpSend, SetTimeout, AskAddress
    <2>2. t \in Nat /\ ArpTicks \in Nat /\ t + 1 < (ArpTicks + 1) + (ArpTries - 2) * (ArpTicks + 1) /\ ArpTries > 1 /\ ArpTries \in Nat
        BY TriesAre
    <2>3. UntilGivenUp(StartProbe(protocol)) = (ArpTicks + 1) + (ArpTries - 2) * (ArpTicks + 1)
        <3>1. ArpTries - 1 - 1 = ArpTries - 2
            BY <2>2
        <3> QED
            BY <2>1, <3>1 DEF UntilGivenUp
    <2>4. InTime(StartProbe(protocol))
        BY <2>1, <2>2, <2>3 DEF InTime
    <2> QED
        BY <2>1, <2>2, <2>4 DEF ProbeRecords
<1>2. CASE protocol = "CDP"
    <2>1. StartProbe(protocol) = of(CdpTicks + 1, 0, 0)
        BY <1>2 DEF StartProbe, CDPStart, SetTimeout
    <2>2. CdpTicks + 1 \in Nat /\ 0 \in 0 .. ArpTries /\ 0 \in 0 .. 3 /\ 0 \in Nat
        BY TriesAre
    <2> DEFINE ticks == CdpTicks + 1
    <2> HIDE DEF ticks
    <2>5. StartProbe(protocol) = of(ticks, 0, 0) /\ ticks \in Nat /\ 0 \in 0 .. ArpTries /\ 0 \in 0 .. 3 /\ 0 \in Nat
        BY <2>1, <2>2 DEF ticks
    <2>3. StartProbe(protocol) \in ProbeRecords
        BY <2>5 DEF ProbeRecords
    <2>4. InTime(StartProbe(protocol))
        BY <1>2, <2>1 DEF InTime
    <2> QED
        BY <2>1, <2>3, <2>4
<1> QED
    BY <1>1, <1>2

LEMMA StartAgainIs ==
    ASSUME NEW p \in ProbeRecords, NEW q, q = StartAgain(p)
    PROVE  /\ q \in ProbeRecords /\ q.protocol = p.protocol /\ q.seq = p.seq /\ q.ok = p.ok
           /\ q.net \in {"restart", "fail"} /\ q.left = 0
<1>1. PICK net \in {"restart", "fail"} : q = [p EXCEPT !.net = net, !.left = 0, !.arpLeft = 0]
    BY DEF StartAgain
<1>2. 0 \in Nat /\ net \in {"idle", "continue", "restart", "hung", "success", "fail"}
    OBVIOUS
<1> QED
    BY <1>1, <1>2 DEF ProbeRecords

(* The two parts of a tick.                                                *)
LEMMA ArpCheckKeeps ==
    ASSUME NEW p \in ProbeRecords, p.net = "continue", InTime(p), NEW q, q = ArpTimeoutCheck(p)
    PROVE  /\ q \in ProbeRecords /\ q.protocol = p.protocol /\ q.seq = p.seq /\ q.ok = p.ok
           /\ p.protocol \in {"PING", "SNTP"} => q.net = "continue"
           /\ q.net \in {"continue", "restart", "fail"}
           /\ q.net # "continue" => q.left = 0
           /\ q.net = "continue" =>
                 /\ q.left = p.left
                 /\ q.arpLeft > 0 => q.arpTry < ArpTries
                 /\ p.protocol \in {"PING", "SNTP"} /\ q.arpLeft > 0 => p.left <= UntilGivenUp(q)
<1>1. /\ p.arpLeft \in Nat /\ p.arpTry \in 0 .. ArpTries /\ p.left \in Nat /\ ArpTries \in Nat /\ ArpTicks \in Nat
      /\ (p.arpLeft > 0 => p.arpTry < ArpTries)
    BY TriesAre DEF ProbeRecords, InTime
<1>2. CASE p.arpLeft # 1
    <2>1. q = [p EXCEPT !.arpLeft = IF p.arpLeft > 0 THEN p.arpLeft - 1 ELSE 0]
        BY <1>2 DEF ArpTimeoutCheck
    <2>2. (IF p.arpLeft > 0 THEN p.arpLeft - 1 ELSE 0) \in Nat
        BY <1>1
    <2>3. /\ q \in ProbeRecords /\ q.protocol = p.protocol /\ q.seq = p.seq /\ q.ok = p.ok /\ q.net = p.net /\ q.left = p.left
          /\ q.arpTry = p.arpTry /\ q.arpLeft = IF p.arpLeft > 0 THEN p.arpLeft - 1 ELSE 0
        BY <2>1, <2>2 DEF ProbeRecords
    <2>4. ASSUME p.protocol \in {"PING", "SNTP"}, q.arpLeft > 0
          PROVE  p.left <= UntilGivenUp(q)
        <3> DEFINE rest == (ArpTries - 1 - p.arpTry) * (ArpTicks + 1)
        <3>1. rest \in Int
            BY <1>1
        <3>2. UntilGivenUp(p) = p.arpLeft + rest /\ UntilGivenUp(q) = q.arpLeft + rest
            BY <2>3 DEF UntilGivenUp
        <3>3. p.left < UntilGivenUp(p)
            BY <1>1, <2>3, <2>4 DEF InTime
        <3> HIDE DEF rest
        <3> QED
            BY <1>1, <2>3, <2>4, <3>1, <3>2, <3>3
    <2>5. q.arpLeft > 0 => q.arpTry < ArpTries
        BY <1>1, <2>3
    <2> QED
        BY <2>3, <2>4, <2>5
<1>3. CASE p.arpLeft = 1
    <2> DEFINE p1 == [p EXCEPT !.arpTry = p.arpTry + 1]
    <2>1. p.arpTry + 1 \in 0 .. ArpTries
        BY <1>1, <1>3
    <2>2. /\ p1 \in ProbeRecords /\ p1.protocol = p.protocol /\ p1.seq = p.seq /\ p1.ok = p.ok /\ p1.net = p.net
          /\ p1.left = p.left /\ p1.arpTry = p.arpTry + 1
        BY <2>1 DEF ProbeRecords
    <2>3. CASE ArpGivesUp(p1)
        <3>1. q = StartAgain(p1)
            BY <1>3, <2>3 DEF ArpTimeoutCheck
        <3>2. p.arpTry + 1 = ArpTries
            BY <1>1, <2>1, <2>2, <2>3 DEF ArpGivesUp
        <3>3. UntilGivenUp(p) = 1
            <4>1. ArpTries - 1 - p.arpTry = 0
                BY <1>1, <3>2
            <4>2. 0 * (ArpTicks + 1) = 0
                BY <1>1
            <4> QED
                BY <1>3, <4>1, <4>2 DEF UntilGivenUp
        <3>4. p.protocol \notin {"PING", "SNTP"}
            BY <1>1, <1>3, <3>3 DEF InTime
        <3> HIDE DEF p1
        <3>5. /\ q \in ProbeRecords /\ q.protocol = p1.protocol /\ q.seq = p1.seq /\ q.ok = p1.ok
              /\ q.net \in {"restart", "fail"} /\ q.left = 0
            BY <2>2, <3>1, StartAgainIs
        <3> QED
            BY <2>2, <3>4, <3>5
    <2>4. CASE ~ArpGivesUp(p1)
        <3>1. q = [p EXCEPT !.arpTry = p.arpTry + 1, !.arpLeft = ArpTicks + 1]
            BY <1>3, <2>4 DEF ArpTimeoutCheck
        <3>2. p.arpTry + 1 < ArpTries
            BY <1>1, <2>2, <2>4 DEF ArpGivesUp
        <3>3. /\ q \in ProbeRecords /\ q.protocol = p.protocol /\ q.seq = p.seq /\ q.ok = p.ok /\ q.net = p.net /\ q.left = p.left
              /\ q.arpTry = p.arpTry + 1 /\ q.arpLeft = ArpTicks + 1
            <4>1. ArpTicks + 1 \in Nat
                BY <1>1
            <4> QED
                BY <2>1, <3>1, <4>1 DEF ProbeRecords
        <3>4. ASSUME p.protocol \in {"PING", "SNTP"}
              PROVE  p.left <= UntilGivenUp(q)
            <4> DEFINE d == ArpTries - 1 - p.arpTry
                       k == ArpTicks + 1
            <4>1. d \in Int /\ k \in Int
                BY <1>1
            <4>2. ArpTries - 1 - (p.arpTry + 1) = d - 1
                BY <1>1
            <4>3. UntilGivenUp(p) = 1 + d * k /\ UntilGivenUp(q) = k + (d - 1) * k
                BY <1>3, <3>3, <4>2 DEF UntilGivenUp
            <4>4. p.left < UntilGivenUp(p)
                BY <1>1, <1>3, <3>4 DEF InTime
            <4> HIDE DEF d, k
            <4>5. k + (d - 1) * k = d * k /\ d * k \in Int
                BY <4>1
            <4> QED
                BY <1>1, <4>3, <4>4, <4>5
        <3> QED
            BY <3>2, <3>3, <3>4
    <2> QED
        BY <2>3, <2>4
<1> QED
    BY <1>2, <1>3

LEMMA TimeHandlerKeeps ==
    ASSUME NEW p \in ProbeRecords, p.net = "continue", InTime(p), NEW r, r = TimeHandler(ArpTimeoutCheck(p))
    PROVE  /\ r \in ProbeRecords /\ r.protocol = p.protocol
           /\ r.net = "continue" => InTime(r)
           /\ r.protocol \in {"PING", "SNTP"} => r.net # "restart"
<1> DEFINE q == ArpTimeoutCheck(p)
<1>1. /\ q \in ProbeRecords /\ q.protocol = p.protocol /\ q.seq = p.seq /\ q.ok = p.ok
      /\ p.protocol \in {"PING", "SNTP"} => q.net = "continue"
      /\ q.net \in {"continue", "restart", "fail"}
      /\ q.net # "continue" => q.left = 0
      /\ q.net = "continue" =>
            /\ q.left = p.left
            /\ q.arpLeft > 0 => q.arpTry < ArpTries
            /\ p.protocol \in {"PING", "SNTP"} /\ q.arpLeft > 0 => p.left <= UntilGivenUp(q)
    BY ArpCheckKeeps
<1>2. r = TimeHandler(q)
    OBVIOUS
<1>3. p.seq < 3 /\ (p.protocol \in {"PING", "SNTP"} => p.left > 0) /\ p.left \in Nat /\ p.seq \in 0 .. 3
    BY DEF InTime, ProbeRecords
<1> HIDE DEF q
<1>4. q.left \in Nat /\ q.seq \in 0 .. 3 /\ q.arpLeft \in Nat /\ q.arpTry \in 0 .. ArpTries /\ CdpTicks \in Nat /\ ArpTries \in Nat /\ ArpTicks \in Nat
    BY <1>1, TriesAre DEF ProbeRecords
<1>5. CASE q.left # 1
    <2>1. r = [q EXCEPT !.left = IF q.left > 0 THEN q.left - 1 ELSE 0]
        BY <1>2, <1>5 DEF TimeHandler
    <2>2. (IF q.left > 0 THEN q.left - 1 ELSE 0) \in Nat
        BY <1>4
    <2>3. /\ r \in ProbeRecords /\ r.protocol = q.protocol /\ r.seq = q.seq /\ r.net = q.net
          /\ r.arpTry = q.arpTry /\ r.arpLeft = q.arpLeft /\ r.left = IF q.left > 0 THEN q.left - 1 ELSE 0
        BY <1>1, <2>1, <2>2 DEF ProbeRecords
    <2>4. ASSUME r.net = "continue"
          PROVE  InTime(r)
        <3>1. UntilGivenUp(r) = UntilGivenUp(q) /\ UntilGivenUp(q) \in Int
            BY <1>4, <2>3 DEF UntilGivenUp
        <3>2. ASSUME r.protocol \in {"PING", "SNTP"}
              PROVE  r.left > 0 /\ (r.arpLeft > 0 => r.left < UntilGivenUp(r))
            BY <1>1, <1>3, <1>4, <1>5, <2>3, <2>4, <3>1, <3>2
        <3> QED
            BY <1>1, <1>3, <2>3, <2>4, <3>2 DEF InTime
    <2> QED
        BY <1>1, <2>3, <2>4
<1>6. CASE q.left = 1 /\ q.protocol = "CDP"
    <2>1. r = CDPTimeout(q) /\ q.net = "continue"
        BY <1>1, <1>2, <1>6 DEF TimeHandler
    <2>2. q.seq + 1 \in 0 .. 3
        BY <1>1, <1>3
    <2>3. CASE q.seq + 1 < 3
        <3>1. r = SetTimeout([q EXCEPT !.seq = q.seq + 1], CdpTicks)
            BY <2>1, <2>3 DEF CDPTimeout, CdpNextTrigger
        <3>2. r = [q EXCEPT !.seq = q.seq + 1, !.left = CdpTicks + 1]
            BY <1>1, <3>1 DEF SetTimeout, ProbeRecords
        <3>3. CdpTicks + 1 \in Nat
            BY <1>4
        <3> DEFINE next == q.seq + 1
                   ticks == CdpTicks + 1
        <3> HIDE DEF next, ticks
        <3>5. r = [q EXCEPT !.seq = next, !.left = ticks] /\ next \in 0 .. 3 /\ ticks \in Nat
            BY <2>2, <3>2, <3>3 DEF next, ticks
        <3>6. /\ r \in ProbeRecords /\ r.protocol = q.protocol /\ r.seq = next /\ r.net = q.net
              /\ r.arpTry = q.arpTry /\ r.arpLeft = q.arpLeft
            BY <1>1, <3>5 DEF ProbeRecords
        <3>4. /\ r \in ProbeRecords /\ r.protocol = q.protocol /\ r.seq = q.seq + 1 /\ r.net = q.net
              /\ r.arpTry = q.arpTry /\ r.arpLeft = q.arpLeft
            BY <3>6 DEF next
        <3> QED
            BY <1>1, <1>6, <2>1, <2>3, <3>4 DEF InTime
    <2>4. CASE ~(q.seq + 1 < 3) /\ q.ok
        <3>1. r = [q EXCEPT !.seq = q.seq + 1, !.net = "success", !.left = 0]
            BY <2>1, <2>4 DEF CDPTimeout
        <3> DEFINE next == q.seq + 1
        <3> HIDE DEF next
        <3>3. r = [q EXCEPT !.seq = next, !.net = "success", !.left = 0] /\ next \in 0 .. 3 /\ 0 \in Nat
            BY <2>2, <3>1 DEF next
        <3>2. r \in ProbeRecords /\ r.protocol = q.protocol /\ r.net = "success"
            BY <1>1, <3>3 DEF ProbeRecords
        <3> QED
            BY <1>1, <3>2
    <2>5. CASE ~(q.seq + 1 < 3) /\ ~q.ok
        <3> DEFINE q1 == [q EXCEPT !.seq = q.seq + 1]
        <3>1. r = StartAgain(q1)
            BY <2>1, <2>5 DEF CDPTimeout
        <3>2. q1 \in ProbeRecords /\ q1.protocol = q.protocol
            BY <1>1, <2>2 DEF ProbeRecords
        <3> HIDE DEF q1
        <3>3. r \in ProbeRecords /\ r.protocol = q1.protocol /\ r.net \in {"restart", "fail"}
            BY <3>1, <3>2, StartAgainIs
        <3> QED
            BY <1>1, <1>6, <3>2, <3>3
    <2> QED
        BY <2>3, <2>4, <2>5
<1>7. CASE q.left = 1 /\ q.protocol # "CDP"
    <2>1. r = [q EXCEPT !.net = "fail", !.left = 0]
        BY <1>2, <1>7 DEF TimeHandler, PingTimeout, SntpTimeout
    <2>3. 0 \in Nat /\ "fail" \in {"idle", "continue", "restart", "hung", "success", "fail"}
        OBVIOUS
    <2>2. r \in ProbeRecords /\ r.protocol = q.protocol /\ r.net = "fail"
        BY <1>1, <2>1, <2>3 DEF ProbeRecords
    <2> QED
        BY <1>1, <2>2
<1> QED
    BY <1>5, <1>6, <1>7

(* A probe that ends, or whose address is found.                           *)
LEMMA ProbeChanges ==
    ASSUME ProbeInv, NEW net \in {"idle", "success"}, net = "success" => probe.protocol # "none", probe' = [probe EXCEPT !.net = net],
           probes' = probes, (~outOfStep => {vlans, announced, vlanEnv} \subseteq VlanSettings)', (vlans = announced)'
    PROVE  ProbeInv'
<1>1. probe' \in ProbeRecords /\ probe'.net = net /\ probe'.protocol = probe.protocol
    BY DEF ProbeInv, ProbeRecords
<1> QED
    BY <1>1 DEF ProbeInv, Probing

LEMMA ProbeSteps == ProbeInv /\ [ProbesNext]_probeVars => ProbeInv'
<1> SUFFICES ASSUME ProbeInv, [ProbesNext]_probeVars PROVE ProbeInv'
    OBVIOUS
<1>1. /\ probe \in ProbeRecords /\ probes \in 0 .. MaxProbes /\ MaxProbes \in Nat
      /\ vlans = announced /\ (~outOfStep => {vlans, announced, vlanEnv} \subseteq VlanSettings)
    BY TriesAre DEF ProbeInv
<1>2. NoVlans \in VlanSettings
    BY DEF NoVlans, VlanSettings
<1>3. ASSUME NEW protocol \in Protocols, Start(protocol)
      PROVE  ProbeInv'
    <2>1. probe' = StartProbe(protocol) /\ probes' = probes + 1 /\ probes < MaxProbes /\ vlanEnv' = vlanEnv /\ outOfStep' = outOfStep
        BY <1>3 DEF Start
    <2>2. (~outOfStep => {vlans', announced'} \subseteq VlanSettings) /\ vlans' = announced'
        BY <1>1, <1>2, <1>3 DEF Start
    <2>3. protocol \in {"PING", "CDP", "SNTP"}
        BY ProbesAssumption
    <2>4. /\ probe' \in ProbeRecords /\ probe'.net = "continue" /\ InTime(probe')
          /\ probe'.protocol \in {"PING", "CDP", "SNTP"}
        BY <2>1, <2>3, StartProbeIs
    <2>5. probes' \in 0 .. MaxProbes
        BY <1>1, <2>1
    <2> QED
        BY <1>1, <2>1, <2>2, <2>4, <2>5 DEF ProbeInv, InTime, UntilGivenUp
<1>4. ASSUME RestartProbe PROVE ProbeInv'
    <2>1. probe' = StartProbe(probe.protocol) /\ probes' = probes /\ vlanEnv' = vlanEnv /\ outOfStep' = outOfStep /\ probe.net = "restart"
        BY <1>4 DEF RestartProbe
    <2>2. (~outOfStep => {vlans', announced'} \subseteq VlanSettings) /\ vlans' = announced'
        BY <1>1, <1>2, <1>4 DEF RestartProbe
    <2>3. probe.protocol \in {"PING", "CDP", "SNTP"}
        BY <2>1 DEF ProbeInv, ProbeRecords
    <2>4. /\ probe' \in ProbeRecords /\ probe'.net = "continue" /\ InTime(probe')
          /\ probe'.protocol \in {"PING", "CDP", "SNTP"}
        BY <2>1, <2>3, StartProbeIs
    <2> QED
        BY <1>1, <2>1, <2>2, <2>4 DEF ProbeInv, InTime, UntilGivenUp
<1>5. ASSUME Report PROVE ProbeInv'
    <2>1. probe' = [probe EXCEPT !.net = "idle"] /\ UNCHANGED <<vlans, announced, vlanEnv, outOfStep, probes>>
        BY <1>5 DEF Report
    <2> QED
        BY <1>1, <2>1, ProbeChanges
<1>6. ASSUME do_cdp PROVE ProbeInv'
    <2>1. probe' = [probe EXCEPT !.net = "idle"] /\ UNCHANGED <<vlans, announced, outOfStep, probes>>
        BY <1>6 DEF do_cdp
    <2>2. ~outOfStep => cdp_update_env \in VlanSettings
        BY <1>1 DEF cdp_update_env, VlanSettings
    <2>3. ~outOfStep => vlanEnv' \in VlanSettings
        BY <1>1, <1>6, <2>2 DEF do_cdp
    <2> QED
        BY <1>1, <2>1, <2>3, ProbeChanges
<1>7. ASSUME ArpAnswer PROVE ProbeInv'
    <2>1. probe' = [probe EXCEPT !.arpLeft = 0] /\ UNCHANGED <<vlans, announced, vlanEnv, outOfStep, probes>> /\ Probing
        BY <1>7 DEF ArpAnswer
    <2>2. /\ probe' \in ProbeRecords /\ probe'.net = probe.net /\ probe'.protocol = probe.protocol /\ probe'.seq = probe.seq
          /\ probe'.left = probe.left /\ probe'.arpLeft = 0
        BY <1>1, <2>1 DEF ProbeRecords
    <2>3. InTime(probe')
        BY <2>1, <2>2 DEF ProbeInv, InTime
    <2> QED
        BY <1>1, <2>1, <2>2, <2>3 DEF ProbeInv, Probing, InTime, UntilGivenUp
<1>8. ASSUME PingHandler \/ SntpHandler PROVE ProbeInv'
    <2>1. /\ probe' = [probe EXCEPT !.net = "success"] /\ UNCHANGED <<vlans, announced, vlanEnv, outOfStep, probes>>
          /\ probe.protocol # "none"
        BY <1>8 DEF PingHandler, SntpHandler
    <2> QED
        BY <1>1, <2>1, ProbeChanges
<1>9. ASSUME ProbeTick PROVE ProbeInv'
    <2>1. probe' = TimeHandler(ArpTimeoutCheck(probe)) /\ UNCHANGED <<vlans, announced, vlanEnv, outOfStep, probes>> /\ probe.net = "continue"
        BY <1>9 DEF ProbeTick, Probing
    <2>2. InTime(probe) /\ probe.protocol # "none"
        BY <2>1 DEF ProbeInv, Probing
    <2>3. /\ probe' \in ProbeRecords /\ (probe'.net = "continue" => InTime(probe'))
          /\ (probe'.protocol \in {"PING", "SNTP"} => probe'.net # "restart") /\ probe'.protocol # "none"
        BY <1>1, <2>1, <2>2, TimeHandlerKeeps
    <2> QED
        BY <1>1, <2>1, <2>3 DEF ProbeInv, Probing, InTime, UntilGivenUp
<1>10. ASSUME NEW tlvs \in Announcements, CdpPacket(tlvs) PROVE ProbeInv'
    <2>1. PICK walk \in Walks(tlvs) :
            /\ vlans' = VlansFrom(walk)
            /\ announced' = IF walk.end = "read" THEN walk.vlans ELSE announced
            /\ outOfStep' = (outOfStep \/ (walk.end = "read" /\ ~Complete(tlvs)))
            /\ probe' = [probe EXCEPT !.ok = probe.ok \/ walk.end = "read",
                                      !.net = IF walk.end = "endless" THEN "hung" ELSE probe.net]
        BY <1>10 DEF CdpPacket
    <2>2. vlanEnv' = vlanEnv /\ probes' = probes /\ Probing
        BY <1>10 DEF CdpPacket
    <2>3. vlans' = announced'
        BY <1>1, <2>1 DEF VlansFrom
    <2>4. ASSUME ~outOfStep'
          PROVE  {vlans', announced', vlanEnv'} \subseteq VlanSettings
        <3>1. ~outOfStep /\ (walk.end = "read" => Complete(tlvs))
            BY <2>1, <2>4
        <3>2. ASSUME walk.end = "read"
              PROVE  walk.vlans \in VlanSettings
            <4>1. Complete(tlvs)
                BY <3>1, <3>2
            <4>2. walk = Read(Tlvs(tlvs))
                BY <2>1, <4>1 DEF Walks
            <4>3. walk.vlans = Tlvs(tlvs)
                BY <4>2 DEF Read
            <4> QED
                BY <4>1, <4>3, TlvsType
        <3>3. announced' \in VlanSettings
            BY <1>1, <2>1, <3>1, <3>2
        <3> QED
            BY <1>1, <2>2, <2>3, <3>1, <3>3
    <2> DEFINE ok == probe.ok \/ walk.end = "read"
               net == IF walk.end = "endless" THEN "hung" ELSE probe.net
    <2>5. ok \in BOOLEAN /\ net \in {"continue", "hung"}
        BY <1>1, <2>2 DEF ProbeRecords, Probing
    <2>6. probe' = [probe EXCEPT !.ok = ok, !.net = net]
        BY <2>1
    <2> HIDE DEF ok, net
    <2>7. /\ probe' \in ProbeRecords /\ probe'.net = net /\ probe'.protocol = probe.protocol /\ probe'.seq = probe.seq
          /\ probe'.left = probe.left /\ probe'.arpLeft = probe.arpLeft /\ probe'.arpTry = probe.arpTry
        BY <1>1, <2>5, <2>6 DEF ProbeRecords
    <2>8. InTime(probe')
        BY <2>2, <2>7 DEF ProbeInv, InTime, UntilGivenUp
    <2>9. probe'.protocol # "none"
        BY <2>2, <2>7 DEF ProbeInv, Probing
    <2> QED
        BY <1>1, <2>2, <2>3, <2>4, <2>5, <2>7, <2>8, <2>9 DEF ProbeInv, Probing, InTime, UntilGivenUp
<1>11. CASE UNCHANGED probeVars
    BY <1>11 DEF probeVars, ProbeInv, Probing, InTime, UntilGivenUp
<1> QED
    BY <1>3, <1>4, <1>5, <1>6, <1>7, <1>8, <1>9, <1>10, <1>11 DEF ProbesNext

LEMMA InitProbes == ProbesInit => ProbeInv
<1> SUFFICES ASSUME ProbesInit PROVE ProbeInv
    OBVIOUS
<1>1. NoVlans \in VlanSettings
    BY DEF NoVlans, VlanSettings
<1>2. probe \in ProbeRecords /\ probe.net = "idle" /\ probes \in 0 .. MaxProbes
    BY TriesAre DEF ProbesInit, ProbeRecords
<1> QED
    BY <1>1, <1>2 DEF ProbesInit, ProbeInv, Probing

LEMMA ProbesReport == ProbeInv => ProbeIsExact
<1> SUFFICES ASSUME ProbeInv PROVE ProbeIsExact
    OBVIOUS
<1>1. ProbesTypeOK
    BY DEF ProbeInv, ProbesTypeOK, ProbeRecords
<1>2. SettingsWereAnnounced
    BY DEF ProbeInv, VlanSettings, SettingsWereAnnounced
<1> QED
    BY <1>1, <1>2 DEF ProbeInv, ProbeIsExact, VlansTogether, ProbeNeverRestarts

(* For every switch, TLVs of every size and all timers in their order: CDP *)
(* reports the two VLANs of one packet, which were announced as such as    *)
(* long as no packet was read out of step with its TLVs, and PING and SNTP *)
(* end before the address request starts them again (CDPHandler,           *)
(* PingStart, SntpStart, ArpTimeoutCheck).                                 *)
THEOREM ProbesAreExact == ProbesSpec => []ProbeIsExact
<1>1. ProbesSpec => []ProbeInv
    BY InitProbes, ProbeSteps, PTL DEF ProbesSpec
<1> QED
    BY <1>1, ProbesReport, PTL

-----------------------------------------------------------------------------
(* The options of BOOTP and DHCP replies: from the bytes to the options    *)

Wire == {<<0>>} \cup {o \in Seq(Nat) : WellFormed(o)}
NoPads(os) == \A i \in DOMAIN os : os[i] # <<0>>

(* What reading makes of an option.                                        *)
Parsed(o) == IF o = <<0>> THEN Pad ELSE [code |-> o[1], data |-> SubSeq(o, 3, Len(o))]
AllParsed(os) == [i \in 1 .. Len(os) |-> Parsed(os[i])]

(* The functions that FlattenSeq, OptionsIn and OptionsProcess are defined *)
(* by.                                                                     *)
FlattenWith(os, f, n) == [i \in 1 .. n |-> IF i = 1 THEN os[i] ELSE f[i - 1] \o os[i]]
LookWith(b, pads, f, n) ==
    [k \in 0 .. n |-> IF k = 0 THEN [at |-> 1, found |-> <<>>] ELSE LookAt(b, f[k - 1], pads)]
ProcessWith(par, options, dhcp, f, n) ==
    [k \in 0 .. n |-> IF k = 0 THEN par ELSE OptionProcess(f[k - 1], options[k], dhcp)]

LEMMA FlattenExists == \A os : \A n \in Nat : \E f : f = FlattenWith(os, f, n)
<1> SUFFICES ASSUME NEW os PROVE \A n \in Nat : \E f : f = FlattenWith(os, f, n)
    OBVIOUS
<1> DEFINE S == {n \in Nat : \E f : f = FlattenWith(os, f, n)}
<1>1. 0 \in S
    <2> DEFINE g == [i \in 1 .. 0 |-> <<>>]
    <2>1. 1 .. 0 = {}
        OBVIOUS
    <2>2. FlattenWith(os, g, 0) = g
        BY <2>1 DEF FlattenWith
    <2> QED
        BY <2>2
<1>2. ASSUME NEW n \in Nat, n \in S
      PROVE  n + 1 \in S
    <2>1. PICK f : f = FlattenWith(os, f, n)
        BY <1>2
    <2> DEFINE g == [i \in 1 .. n + 1 |-> FlattenWith(os, f, n + 1)[i]]
    <2>2. \A i \in 1 .. n : g[i] = f[i]
        <3>1. \A i \in 1 .. n : i \in 1 .. n + 1
            OBVIOUS
        <3>2. \A i \in 1 .. n : FlattenWith(os, f, n + 1)[i] = FlattenWith(os, f, n)[i]
            BY <3>1 DEF FlattenWith
        <3>3. \A i \in 1 .. n : FlattenWith(os, f, n)[i] = f[i]
            BY <2>1
        <3> QED
            BY <3>1, <3>2, <3>3
    <2>3. \A i \in 1 .. n + 1 : i # 1 => i - 1 \in 1 .. n
        OBVIOUS
    <2>4. g = FlattenWith(os, f, n + 1)
        BY DEF FlattenWith
    <2> HIDE DEF g
    <2>5. FlattenWith(os, f, n + 1) = FlattenWith(os, g, n + 1)
        BY <2>2, <2>3 DEF FlattenWith
    <2>6. g = FlattenWith(os, g, n + 1)
        BY <2>4, <2>5
    <2>7. \E e : e = FlattenWith(os, e, n + 1)
        BY <2>6
    <2> QED
        BY <2>7
<1> HIDE DEF S
<1>3. Nat \subseteq S
    BY <1>1, <1>2, SetInduction
<1> QED
    BY <1>3 DEF S

LEMMA LookExists == \A b, pads : \A n \in Nat : \E f : f = LookWith(b, pads, f, n)
<1> SUFFICES ASSUME NEW b, NEW pads PROVE \A n \in Nat : \E f : f = LookWith(b, pads, f, n)
    OBVIOUS
<1> DEFINE S == {n \in Nat : \E f : f = LookWith(b, pads, f, n)}
<1>1. 0 \in S
    <2> DEFINE g == [i \in 0 .. 0 |-> [at |-> 1, found |-> <<>>]]
    <2>1. \A i \in 0 .. 0 : i = 0
        OBVIOUS
    <2>2. LookWith(b, pads, g, 0) = g
        BY <2>1 DEF LookWith
    <2> QED
        BY <2>2
<1>2. ASSUME NEW n \in Nat, n \in S
      PROVE  n + 1 \in S
    <2>1. PICK f : f = LookWith(b, pads, f, n)
        BY <1>2
    <2> DEFINE g == [i \in 0 .. n + 1 |-> LookWith(b, pads, f, n + 1)[i]]
    <2>2. \A i \in 0 .. n : g[i] = f[i]
        <3>1. \A i \in 0 .. n : i \in 0 .. n + 1
            OBVIOUS
        <3>2. \A i \in 0 .. n : LookWith(b, pads, f, n + 1)[i] = LookWith(b, pads, f, n)[i]
            BY <3>1 DEF LookWith
        <3>3. \A i \in 0 .. n : LookWith(b, pads, f, n)[i] = f[i]
            BY <2>1
        <3> QED
            BY <3>1, <3>2, <3>3
    <2>3. \A i \in 0 .. n + 1 : i # 0 => i - 1 \in 0 .. n
        OBVIOUS
    <2>4. g = LookWith(b, pads, f, n + 1)
        BY DEF LookWith
    <2> HIDE DEF g
    <2>5. LookWith(b, pads, f, n + 1) = LookWith(b, pads, g, n + 1)
        BY <2>2, <2>3 DEF LookWith
    <2>6. g = LookWith(b, pads, g, n + 1)
        BY <2>4, <2>5
    <2>7. \E e : e = LookWith(b, pads, e, n + 1)
        BY <2>6
    <2> QED
        BY <2>7
<1> HIDE DEF S
<1>3. Nat \subseteq S
    BY <1>1, <1>2, SetInduction
<1> QED
    BY <1>3 DEF S

LEMMA ProcessExists == \A par, options, dhcp : \A n \in Nat : \E f : f = ProcessWith(par, options, dhcp, f, n)
<1> SUFFICES ASSUME NEW par, NEW options, NEW dhcp PROVE \A n \in Nat : \E f : f = ProcessWith(par, options, dhcp, f, n)
    OBVIOUS
<1> DEFINE S == {n \in Nat : \E f : f = ProcessWith(par, options, dhcp, f, n)}
<1>1. 0 \in S
    <2> DEFINE g == [i \in 0 .. 0 |-> par]
    <2>1. \A i \in 0 .. 0 : i = 0
        OBVIOUS
    <2>2. ProcessWith(par, options, dhcp, g, 0) = g
        BY <2>1 DEF ProcessWith
    <2> QED
        BY <2>2
<1>2. ASSUME NEW n \in Nat, n \in S
      PROVE  n + 1 \in S
    <2>1. PICK f : f = ProcessWith(par, options, dhcp, f, n)
        BY <1>2
    <2> DEFINE g == [i \in 0 .. n + 1 |-> ProcessWith(par, options, dhcp, f, n + 1)[i]]
    <2>2. \A i \in 0 .. n : g[i] = f[i]
        <3>1. \A i \in 0 .. n : i \in 0 .. n + 1
            OBVIOUS
        <3>2. \A i \in 0 .. n : ProcessWith(par, options, dhcp, f, n + 1)[i] = ProcessWith(par, options, dhcp, f, n)[i]
            BY <3>1 DEF ProcessWith
        <3>3. \A i \in 0 .. n : ProcessWith(par, options, dhcp, f, n)[i] = f[i]
            BY <2>1
        <3> QED
            BY <3>1, <3>2, <3>3
    <2>3. \A i \in 0 .. n + 1 : i # 0 => i - 1 \in 0 .. n
        OBVIOUS
    <2>4. g = ProcessWith(par, options, dhcp, f, n + 1)
        BY DEF ProcessWith
    <2> HIDE DEF g
    <2>5. ProcessWith(par, options, dhcp, f, n + 1) = ProcessWith(par, options, dhcp, g, n + 1)
        BY <2>2, <2>3 DEF ProcessWith
    <2>6. g = ProcessWith(par, options, dhcp, g, n + 1)
        BY <2>4, <2>5
    <2>7. \E e : e = ProcessWith(par, options, dhcp, e, n + 1)
        BY <2>6
    <2> QED
        BY <2>7
<1> HIDE DEF S
<1>3. Nat \subseteq S
    BY <1>1, <1>2, SetInduction
<1> QED
    BY <1>3 DEF S

(* The bytes of the first k options.                                       *)
Flat(os) == CHOOSE f : f = FlattenWith(os, f, Len(os))
Upto(os, k) == IF k = 0 THEN <<>> ELSE Flat(os)[k]

LEMMA WireIs ==
    ASSUME NEW o \in Wire
    PROVE  /\ o \in Seq(Nat) /\ Len(o) \in Nat \ {0} /\ \A j \in 1 .. Len(o) : o[j] \in Nat
           /\ o # <<0>> => WellFormed(o)
           /\ o = <<0>> => Len(o) = 1 /\ o[1] = 0
<1>1. CASE o = <<0>>
    <2>1. <<0>> \in Seq(Nat) /\ Len(<<0>>) = 1 /\ (<<0>>)[1] = 0
        OBVIOUS
    <2>2. o \in Seq(Nat) /\ Len(o) = 1 /\ o[1] = 0
        BY <1>1, <2>1
    <2> QED
        BY <1>1, <2>2
<1>2. CASE o # <<0>>
    <2>1. o \in Seq(Nat) /\ WellFormed(o)
        BY <1>2 DEF Wire
    <2>2. Len(o) \in Nat \ {0} /\ \A j \in 1 .. Len(o) : o[j] \in Nat
        BY <2>1, LenProperties, ElementOfSeq DEF WellFormed
    <2> QED
        BY <1>2, <2>1, <2>2
<1> QED
    BY <1>1, <1>2

LEMMA UptoIs ==
    ASSUME NEW os \in Seq(Wire)
    PROVE  /\ Len(os) \in Nat /\ FlattenSeq(os) = Upto(os, Len(os))
           /\ \A k \in 0 .. Len(os) : Upto(os, k) \in Seq(Nat)
           /\ \A k \in 0 .. Len(os) - 1 : os[k + 1] \in Wire /\ Upto(os, k + 1) = Upto(os, k) \o os[k + 1]
<1>1. Len(os) \in Nat /\ DOMAIN os = 1 .. Len(os) /\ (Len(os) = 0 => os = <<>>) /\ \A i \in 1 .. Len(os) : os[i] \in Wire
    BY LenProperties, ElementOfSeq, EmptySeq
<1>2. Flat(os) = FlattenWith(os, Flat(os), Len(os))
    <2>1. \E f : f = FlattenWith(os, f, Len(os))
        BY <1>1, FlattenExists
    <2> QED
        BY <2>1 DEF Flat
<1>3. FlattenSeq(os) = IF Len(os) = 0 THEN os ELSE Flat(os)[Len(os)]
    BY DEF FlattenSeq, Flat, FlattenWith
<1>4. FlattenSeq(os) = Upto(os, Len(os))
    BY <1>1, <1>3 DEF Upto
<1>5. \A k \in 1 .. Len(os) : Flat(os)[k] = IF k = 1 THEN os[k] ELSE Flat(os)[k - 1] \o os[k]
    <2>1. \A k \in 1 .. Len(os) : FlattenWith(os, Flat(os), Len(os))[k] = IF k = 1 THEN os[k] ELSE Flat(os)[k - 1] \o os[k]
        BY DEF FlattenWith
    <2> QED
        BY <1>2, <2>1
<1>6. ASSUME NEW k \in 0 .. Len(os) - 1
      PROVE  os[k + 1] \in Wire /\ os[k + 1] \in Seq(Nat) /\ Upto(os, k + 1) = Upto(os, k) \o os[k + 1]
    <2>1. k + 1 \in 1 .. Len(os) /\ (k + 1) - 1 = k /\ k \in Nat
        BY <1>1
    <2>2. os[k + 1] \in Wire /\ os[k + 1] \in Seq(Nat)
        BY <1>1, <2>1, WireIs
    <2>3. CASE k = 0
        <3>1. Upto(os, k + 1) = os[k + 1]
            BY <1>5, <2>1, <2>3 DEF Upto
        <3>2. Upto(os, k) \o os[k + 1] = os[k + 1]
            BY <2>2, <2>3, ConcatEmptySeq DEF Upto
        <3> QED
            BY <2>2, <3>1, <3>2
    <2>4. CASE k # 0
        <3>1. Upto(os, k) = Flat(os)[k] /\ Upto(os, k + 1) = Flat(os)[k + 1] /\ k + 1 # 1
            BY <2>1, <2>4 DEF Upto
        <3>2. Flat(os)[k + 1] = Flat(os)[k] \o os[k + 1]
            BY <1>5, <2>1, <3>1
        <3> QED
            BY <2>2, <3>1, <3>2
    <2> QED
        BY <2>3, <2>4
<1> DEFINE S == {k \in Nat : k <= Len(os) => Upto(os, k) \in Seq(Nat)}
<1>7. 0 \in S
    BY EmptySeq DEF Upto
<1>8. ASSUME NEW k \in Nat, k \in S
      PROVE  k + 1 \in S
    <2>1. ASSUME k + 1 <= Len(os)
          PROVE  Upto(os, k + 1) \in Seq(Nat)
        <3>1. k \in 0 .. Len(os) - 1 /\ Upto(os, k) \in Seq(Nat)
            BY <1>1, <1>8, <2>1
        <3> QED
            BY <1>6, <3>1, ConcatProperties
    <2> QED
        BY <2>1
<1> HIDE DEF S
<1>9. Nat \subseteq S
    BY <1>7, <1>8, SetInduction
<1>10. \A k \in 0 .. Len(os) : Upto(os, k) \in Seq(Nat)
    BY <1>1, <1>9 DEF S
<1> QED
    BY <1>1, <1>4, <1>6, <1>10

(* What stands after the first k options stays there, and each option has  *)
(* a byte.                                                                 *)
LEMMA UptoGrows ==
    ASSUME NEW os \in Seq(Wire), NEW k \in 0 .. Len(os), NEW m \in k .. Len(os)
    PROVE  /\ Len(Upto(os, k)) \in Nat /\ Len(Upto(os, m)) \in Nat
           /\ Len(Upto(os, k)) + (m - k) <= Len(Upto(os, m))
           /\ \A x \in 1 .. Len(Upto(os, k)) : Upto(os, m)[x] = Upto(os, k)[x]
<1>1. Len(os) \in Nat /\ k \in Nat /\ m \in Nat /\ \A i \in 0 .. Len(os) : Upto(os, i) \in Seq(Nat) /\ Len(Upto(os, i)) \in Nat
    BY UptoIs, LenProperties
<1> DEFINE S == {n \in Nat : k + n <= Len(os) =>
                     /\ Len(Upto(os, k)) + n <= Len(Upto(os, k + n))
                     /\ \A x \in 1 .. Len(Upto(os, k)) : Upto(os, k + n)[x] = Upto(os, k)[x]}
<1>2. 0 \in S
    BY <1>1
<1>3. ASSUME NEW n \in Nat, n \in S
      PROVE  n + 1 \in S
    <2> SUFFICES ASSUME k + (n + 1) <= Len(os)
                 PROVE  /\ Len(Upto(os, k)) + (n + 1) <= Len(Upto(os, k + (n + 1)))
                        /\ \A x \in 1 .. Len(Upto(os, k)) : Upto(os, k + (n + 1))[x] = Upto(os, k)[x]
        OBVIOUS
    <2> DEFINE j == k + n
               a == Upto(os, j)
               o == os[j + 1]
    <2>1. j \in 0 .. Len(os) - 1 /\ j \in 0 .. Len(os) /\ k + (n + 1) = j + 1 /\ k \in 0 .. Len(os)
        BY <1>1
    <2>2. Len(Upto(os, k)) + n <= Len(a) /\ \A x \in 1 .. Len(Upto(os, k)) : a[x] = Upto(os, k)[x]
        BY <1>1, <1>3, <2>1
    <2>3. a \in Seq(Nat) /\ o \in Seq(Nat) /\ Len(o) \in Nat \ {0} /\ Upto(os, j + 1) = a \o o
        BY <1>1, <2>1, UptoIs, WireIs
    <2> HIDE DEF a, o, j
    <2>4. /\ Len(a \o o) = Len(a) + Len(o) /\ Len(a) \in Nat
          /\ \A x \in 1 .. Len(a) : (a \o o)[x] = a[x]
        BY <2>3, ConcatProperties, LenProperties
    <2>5. Len(Upto(os, k)) \in Nat
        BY <1>1, <2>1
    <2>6. \A x \in 1 .. Len(Upto(os, k)) : x \in 1 .. Len(a)
        BY <2>2, <2>4, <2>5
    <2>7. Len(Upto(os, k)) + (n + 1) <= Len(a \o o)
        BY <2>2, <2>3, <2>4, <2>5
    <2> QED
        BY <2>1, <2>2, <2>3, <2>4, <2>6, <2>7
<1> HIDE DEF S
<1>4. m - k \in S
    <2>1. m - k \in Nat
        BY <1>1
    <2>2. Nat \subseteq S
        BY <1>2, <1>3, SetInduction
    <2> QED
        BY <2>1, <2>2
<1>5. k + (m - k) = m /\ m <= Len(os) /\ k \in 0 .. Len(os) /\ m \in 0 .. Len(os)
    BY <1>1
<1> QED
    BY <1>1, <1>4, <1>5 DEF S

(* Where an option stands in the bytes, and what ends them.                *)
LEMMA BytesAt ==
    ASSUME NEW os \in Seq(Wire), NEW b, b = Bytes_(os)
    PROVE  /\ b \in Seq(Nat) /\ Len(b) = Len(Upto(os, Len(os))) + 1 /\ Len(b) \in Nat /\ Len(os) < Len(b)
           /\ b[Len(b)] = OptEnd
           /\ \A k \in 0 .. Len(os) - 1 :
                 /\ os[k + 1] \in Wire /\ Len(Upto(os, k)) \in Nat
                 /\ Len(Upto(os, k + 1)) = Len(Upto(os, k)) + Len(os[k + 1])
                 /\ Len(Upto(os, k)) + Len(os[k + 1]) < Len(b)
                 /\ \A j \in 1 .. Len(os[k + 1]) : b[Len(Upto(os, k)) + j] = os[k + 1][j]
<1> DEFINE all == Upto(os, Len(os))
<1>1. Len(os) \in Nat /\ all \in Seq(Nat) /\ Len(all) \in Nat /\ <<OptEnd>> \in Seq(Nat) /\ Len(<<OptEnd>>) = 1 /\ <<OptEnd>>[1] = OptEnd
    BY UptoIs, LenProperties DEF OptEnd
<1>2. b = all \o <<OptEnd>>
    BY UptoIs DEF Bytes_
<1>3. Upto(os, 0) = <<>> /\ Len(<<>>) = 0
    BY DEF Upto
<1>4. Len(os) <= Len(all)
    <2>1. 0 \in 0 .. Len(os) /\ Len(os) \in 0 .. Len(os) /\ Len(os) - 0 = Len(os)
        BY <1>1
    <2>2. Len(Upto(os, 0)) + (Len(os) - 0) <= Len(all)
        BY <2>1, UptoGrows
    <2> QED
        BY <1>1, <1>3, <2>1, <2>2
<1>5. /\ b \in Seq(Nat) /\ Len(b) = Len(all) + 1 /\ b[Len(all) + 1] = OptEnd
      /\ \A x \in 1 .. Len(all) : b[x] = all[x]
    <2> HIDE DEF all
    <2>1. /\ b \in Seq(Nat) /\ Len(b) = Len(all) + 1
          /\ \A x \in 1 .. Len(all) + 1 : b[x] = IF x <= Len(all) THEN all[x] ELSE <<OptEnd>>[x - Len(all)]
        BY <1>1, <1>2, ConcatProperties
    <2>2. (Len(all) + 1) - Len(all) = 1 /\ Len(all) + 1 \in 1 .. Len(all) + 1 /\ ~(Len(all) + 1 <= Len(all))
        BY <1>1
    <2>3. \A x \in 1 .. Len(all) : x \in 1 .. Len(all) + 1 /\ x <= Len(all)
        BY <1>1
    <2> QED
        BY <1>1, <2>1, <2>2, <2>3
<1>6. ASSUME NEW k \in 0 .. Len(os) - 1
      PROVE  /\ os[k + 1] \in Wire /\ Len(Upto(os, k)) \in Nat
             /\ Len(Upto(os, k + 1)) = Len(Upto(os, k)) + Len(os[k + 1])
             /\ Len(Upto(os, k)) + Len(os[k + 1]) < Len(b)
             /\ \A j \in 1 .. Len(os[k + 1]) : b[Len(Upto(os, k)) + j] = os[k + 1][j]
    <2> DEFINE o == os[k + 1]
               a == Upto(os, k)
               c == Upto(os, k + 1)
    <2>1. k \in 0 .. Len(os) /\ k + 1 \in 0 .. Len(os) /\ Len(os) \in k + 1 .. Len(os)
        BY <1>1
    <2>2. o \in Wire /\ o \in Seq(Nat) /\ Len(o) \in Nat /\ a \in Seq(Nat) /\ c = a \o o
        BY <2>1, UptoIs, WireIs
    <2>3. Len(c) \in Nat /\ Len(c) <= Len(all) /\ \A x \in 1 .. Len(c) : all[x] = c[x]
        <3>1. Len(c) \in Nat /\ Len(c) + (Len(os) - (k + 1)) <= Len(all) /\ \A x \in 1 .. Len(c) : all[x] = c[x]
            BY <2>1, UptoGrows
        <3> DEFINE behind == Len(os) - (k + 1)
        <3>2. behind \in Nat
            BY <1>1
        <3>3. Len(c) \in Nat /\ Len(all) \in Nat /\ Len(c) + behind <= Len(all)
            BY <1>1, <3>1
        <3> HIDE DEF c, all, behind
        <3>4. Len(c) <= Len(all)
            BY <3>2, <3>3
        <3> QED
            BY <3>1, <3>4
    <2> HIDE DEF all, a, c, o
    <2>4. /\ Len(a) \in Nat /\ Len(c) = Len(a) + Len(o)
          /\ \A j \in 1 .. Len(o) : c[Len(a) + j] = o[j]
        <3>1. /\ Len(a) \in Nat /\ Len(c) = Len(a) + Len(o)
              /\ \A x \in 1 .. Len(a) + Len(o) : c[x] = IF x <= Len(a) THEN a[x] ELSE o[x - Len(a)]
            BY <2>2, ConcatProperties, LenProperties
        <3>2. \A j \in 1 .. Len(o) : Len(a) + j \in 1 .. Len(a) + Len(o) /\ ~(Len(a) + j <= Len(a)) /\ (Len(a) + j) - Len(a) = j
            BY <2>2, <3>1
        <3> QED
            BY <3>1, <3>2
    <2>5. \A j \in 1 .. Len(o) : Len(a) + j \in 1 .. Len(c) /\ Len(a) + j \in 1 .. Len(all)
        BY <1>1, <2>2, <2>3, <2>4
    <2>6. \A j \in 1 .. Len(o) : b[Len(a) + j] = o[j]
        BY <1>5, <2>3, <2>4, <2>5
    <2>7. Len(a) + Len(o) < Len(b)
        BY <1>1, <1>5, <2>2, <2>3, <2>4
    <2> QED
        BY <2>2, <2>4, <2>6, <2>7 DEF a, c, o
<1>7. Len(os) < Len(b) /\ Len(b) \in Nat
    BY <1>1, <1>4, <1>5
<1> QED
    BY <1>5, <1>6, <1>7

(* The data of an option.                                                  *)
LEMMA DataIs ==
    ASSUME NEW o \in Seq(Nat), WellFormed(o)
    PROVE  /\ SubSeq(o, 3, Len(o)) \in Seq(Nat) /\ Len(SubSeq(o, 3, Len(o))) = Len(o) - 2 /\ Len(o) - 2 \in Nat \ {0}
           /\ \A i \in 1 .. Len(o) - 2 : SubSeq(o, 3, Len(o))[i] = o[i + 2]
<1> DEFINE n == Len(o)
<1>1. n \in Nat /\ n > 2 /\ 3 \in Int /\ n \in Int /\ n - 3 + 1 = n - 2 /\ 3 <= n
    BY LenProperties DEF WellFormed
<1>2. \A i \in 3 .. n : o[i] \in Nat
    <2>1. \A i \in 3 .. n : i \in 1 .. Len(o)
        BY <1>1
    <2> QED
        BY <2>1, ElementOfSeq
<1>3. /\ SubSeq(o, 3, n) \in Seq(Nat)
      /\ Len(SubSeq(o, 3, n)) = IF 3 <= n THEN n - 3 + 1 ELSE 0
      /\ \A i \in 1 .. n - 3 + 1 : SubSeq(o, 3, n)[i] = o[3 + i - 1]
    BY <1>1, <1>2, SubSeqProperties
<1>4. \A i \in 1 .. n - 2 : SubSeq(o, 3, n)[i] = o[i + 2]
    <2>1. \A i \in 1 .. n - 2 : 3 + i - 1 = i + 2 /\ i \in 1 .. n - 3 + 1
        BY <1>1
    <2> QED
        BY <1>3, <2>1
<1>5. Len(SubSeq(o, 3, n)) = n - 2 /\ n - 2 \in Nat \ {0}
    BY <1>1, <1>3
<1> QED
    BY <1>3, <1>4, <1>5

LEMMA ParsedAppended ==
    ASSUME NEW g, NEW k \in Nat
    PROVE  Append([i \in 1 .. k |-> g[i]], g[k + 1]) = [i \in 1 .. k + 1 |-> g[i]]
<1> DEFINE X == {g[i] : i \in 1 .. k + 1}
           s == [i \in 1 .. k |-> g[i]]
           t == [i \in 1 .. k + 1 |-> g[i]]
<1>1. k + 1 \in Nat /\ k + 1 \in 1 .. k + 1 /\ \A i \in 1 .. k : i \in 1 .. k + 1
    OBVIOUS
<1>2. s \in Seq(X) /\ Len(s) = k /\ t \in Seq(X) /\ Len(t) = k + 1 /\ g[k + 1] \in X
    BY <1>1
<1>3. \A i \in 1 .. k + 1 : Append(s, g[k + 1])[i] = t[i]
    <2>1. \A i \in 1 .. k : Append(s, g[k + 1])[i] = s[i]
        BY <1>2
    <2>2. Append(s, g[k + 1])[k + 1] = g[k + 1]
        BY <1>2
    <2>3. \A i \in 1 .. k + 1 : i \in 1 .. k \/ i = k + 1
        OBVIOUS
    <2> QED
        BY <1>1, <2>1, <2>2, <2>3
<1> HIDE DEF s, t, X
<1>4. Append(s, g[k + 1]) \in Seq(X) /\ Len(Append(s, g[k + 1])) = k + 1
    BY <1>2, AppendProperties
<1>5. Append(s, g[k + 1]) = t
    BY <1>2, <1>3, <1>4, SeqEqual
<1> QED
    BY <1>5 DEF s, t

(* The bytes of an option behind the first so many.                        *)
StandsAt(b, o, place) ==
    /\ o \in Wire /\ place \in Nat /\ b \in Seq(Nat) /\ Len(b) \in Nat /\ place + Len(o) < Len(b)
    /\ \A j \in 1 .. Len(o) : b[place + j] = o[j]

(* One look at an option takes it and goes behind it.                      *)
LEMMA LookTakes ==
    ASSUME NEW b, NEW o, NEW place, StandsAt(b, o, place), NEW pads \in BOOLEAN, ~pads => o # << 0 >>,
           NEW w, w.at = place + 1
    PROVE  LookAt(b, w, pads) = [at |-> place + Len(o) + 1, found |-> Append(w.found, Parsed(o))]
<1> DEFINE found == w.found
<1>1. /\ o \in Wire /\ place \in Nat /\ b \in Seq(Nat) /\ Len(b) \in Nat /\ place + Len(o) < Len(b)
      /\ \A j \in 1 .. Len(o) : b[place + j] = o[j]
    BY DEF StandsAt
<1>2. Len(o) \in Nat \ {0} /\ o \in Seq(Nat)
    BY <1>1, WireIs
<1>3. ~(place + 1 > Len(b)) /\ place + 1 <= Len(b) /\ b[place + 1] = o[1]
    BY <1>1, <1>2
<1>4. CASE o = <<0>>
    <2>1. o[1] = 0 /\ Len(o) = 1 /\ pads /\ (place + 1) + 1 = place + Len(o) + 1
        BY <1>1, <1>2, <1>4, WireIs
    <2>2. LookAt(b, w, pads) = [at |-> (place + 1) + 1, found |-> Append(found, Pad)]
        BY <1>1, <1>3, <2>1 DEF LookAt, OptEnd
    <2> QED
        BY <1>1, <1>4, <2>1, <2>2 DEF Parsed
<1>5. CASE o # <<0>>
    <2>1. Len(o) > 2 /\ o[2] = Len(o) - 2 /\ o[1] # 0 /\ o[1] # OptEnd
        BY <1>1, <1>5, WireIs DEF WellFormed
    <2>2. b[place + 2] = o[2] /\ (place + 1) + 1 = place + 2
        BY <1>1, <1>2, <2>1
    <2>3. LookAt(b, w, pads) = [at |-> NextOption(b, place + 1), found |-> Append(found, OptionAt(b, place + 1))]
        BY <1>1, <1>3, <2>1 DEF LookAt
    <2>4. NextOption(b, place + 1) = place + Len(o) + 1
        BY <1>1, <1>2, <2>1, <2>2 DEF NextOption
    <2>5. OptionAt(b, place + 1) = [code |-> o[1], data |-> SubSeq(b, place + 3, place + Len(o))]
        <3>1. (place + 1) + 2 = place + 3 /\ (place + 1) + 1 + (Len(o) - 2) = place + Len(o)
            BY <1>1, <1>2
        <3> QED
            BY <1>1, <1>3, <2>1, <2>2, <3>1 DEF OptionAt
    <2>6. SubSeq(b, place + 3, place + Len(o)) = SubSeq(o, 3, Len(o))
        <3> DEFINE n == Len(o)
        <3>1. n \in Nat /\ n > 2 /\ place + 3 \in Int /\ place + n \in Int
            BY <1>1, <1>2, <2>1
        <3>2. \A i \in place + 3 .. place + n : b[i] \in Nat
            <4>1. \A i \in place + 3 .. place + n : i \in 1 .. Len(b)
                BY <1>1, <1>2
            <4> QED
                BY <1>1, <4>1, ElementOfSeq
        <3>3. place + 3 \in Int /\ place + n \in Int
            BY <3>1
        <3>4. /\ SubSeq(b, place + 3, place + n) \in Seq(Nat)
              /\ Len(SubSeq(b, place + 3, place + n)) = IF place + 3 <= place + n THEN (place + n) - (place + 3) + 1 ELSE 0
              /\ \A i \in 1 .. (place + n) - (place + 3) + 1 : SubSeq(b, place + 3, place + n)[i] = b[(place + 3) + i - 1]
            BY <3>2, <3>3, SubSeqProperties
        <3>5. /\ SubSeq(o, 3, n) \in Seq(Nat) /\ Len(SubSeq(o, 3, n)) = n - 2
              /\ \A i \in 1 .. n - 2 : SubSeq(o, 3, n)[i] = o[i + 2]
            <4>1. WellFormed(o)
                BY <1>1, <1>5, WireIs
            <4> QED
                BY <1>2, <4>1, DataIs
        <3>6. (place + n) - (place + 3) + 1 = n - 2 /\ n - 2 \in Nat /\ place + 3 <= place + n
            BY <1>1, <3>1
        <3>7. \A i \in 1 .. n - 2 : (place + 3) + i - 1 = place + (i + 2) /\ i + 2 \in 1 .. Len(o)
            BY <1>1, <3>1
        <3>8. \A i \in 1 .. n - 2 : SubSeq(b, place + 3, place + n)[i] = b[place + (i + 2)]
            BY <3>4, <3>6, <3>7
        <3>9. \A i \in 1 .. n - 2 : b[place + (i + 2)] = o[i + 2]
            BY <1>1, <3>7
        <3>10. \A i \in 1 .. n - 2 : SubSeq(b, place + 3, place + n)[i] = SubSeq(o, 3, n)[i]
            BY <3>5, <3>8, <3>9
        <3>11. SubSeq(b, place + 3, place + n) \in Seq(Nat) /\ Len(SubSeq(b, place + 3, place + n)) = n - 2
            BY <3>4, <3>6
        <3> QED
            BY <3>5, <3>10, <3>11, SeqEqual
    <2> QED
        BY <1>1, <1>5, <2>3, <2>4, <2>5, <2>6 DEF Parsed
<1> QED
    BY <1>1, <1>4, <1>5

(* BootpVendorProcess and DhcpOptionsProcess find the options that were    *)
(* put, one after the other.                                               *)
LEMMA OptionsAreFound ==
    ASSUME NEW os \in Seq(Wire), NEW pads \in BOOLEAN, ~pads => NoPads(os)
    PROVE  OptionsIn(Bytes_(os), pads) = AllParsed(os)
<1> DEFINE b == Bytes_(os)
           n == Len(os)
           g == AllParsed(os)
           look == CHOOSE f : f = LookWith(b, pads, f, Len(b))
           after(k) == [at |-> Len(Upto(os, k)) + 1, found |-> [i \in 1 .. k |-> g[i]]]
<1>1. /\ b \in Seq(Nat) /\ Len(b) = Len(Upto(os, n)) + 1 /\ Len(b) \in Nat /\ n < Len(b) /\ n \in Nat
      /\ b[Len(b)] = OptEnd
      /\ \A k \in 0 .. n - 1 :
             /\ os[k + 1] \in Wire /\ Len(Upto(os, k)) \in Nat
             /\ Len(Upto(os, k + 1)) = Len(Upto(os, k)) + Len(os[k + 1])
             /\ Len(Upto(os, k)) + Len(os[k + 1]) < Len(b)
             /\ \A j \in 1 .. Len(os[k + 1]) : b[Len(Upto(os, k)) + j] = os[k + 1][j]
    BY BytesAt, UptoIs
<1>2. OptionsIn(b, pads) = look[Len(b)].found
    BY DEF OptionsIn, LookWith
<1>3. look = LookWith(b, pads, look, Len(b))
    <2>1. \E f : f = LookWith(b, pads, f, Len(b))
        BY <1>1, LookExists
    <2> QED
        BY <2>1
<1> HIDE DEF b, look
<1>4. \A k \in 0 .. Len(b) : look[k] = IF k = 0 THEN [at |-> 1, found |-> <<>>] ELSE LookAt(b, look[k - 1], pads)
    <2>1. \A k \in 0 .. Len(b) :
              LookWith(b, pads, look, Len(b))[k] = IF k = 0 THEN [at |-> 1, found |-> <<>>] ELSE LookAt(b, look[k - 1], pads)
        BY DEF LookWith
    <2> QED
        BY <1>3, <2>1
<1> DEFINE S == {k \in Nat : k <= n => look[k] = after(k)}
<1>5. 0 \in S
    <2>1. look[0] = [at |-> 1, found |-> <<>>]
        BY <1>1, <1>4
    <2>2. Len(Upto(os, 0)) + 1 = 1
        BY DEF Upto
    <2>3. [i \in 1 .. 0 |-> g[i]] = <<>>
        OBVIOUS
    <2> QED
        BY <2>1, <2>2, <2>3
<1>6. ASSUME NEW k \in Nat, k \in S
      PROVE  k + 1 \in S
    <2> SUFFICES ASSUME k + 1 <= n PROVE look[k + 1] = after(k + 1)
        OBVIOUS
    <2>1. k \in 0 .. n - 1 /\ k + 1 \in 0 .. Len(b) /\ k + 1 # 0 /\ (k + 1) - 1 = k /\ k <= n /\ k + 1 \in 1 .. n
        BY <1>1
    <2> DEFINE o == os[k + 1]
               place == Len(Upto(os, k))
               found == [i \in 1 .. k |-> g[i]]
    <2>2. look[k + 1] = LookAt(b, look[k], pads) /\ look[k] = [at |-> place + 1, found |-> found]
        BY <1>4, <1>6, <2>1
    <2>3. /\ o \in Wire /\ place \in Nat /\ Len(Upto(os, k + 1)) = place + Len(o) /\ place + Len(o) < Len(b)
          /\ \A j \in 1 .. Len(o) : b[place + j] = o[j]
        BY <1>1, <2>1
    <2>4. ~pads => o # <<0>>
        BY <2>1, LenProperties DEF NoPads
    <2>5. g[k + 1] = Parsed(o)
        BY <2>1 DEF AllParsed
    <2>6. Append(found, Parsed(o)) = [i \in 1 .. k + 1 |-> g[i]]
        BY <2>5, ParsedAppended
    <2> HIDE DEF o, place, found, g
    <2> DEFINE w == look[k]
    <2>7. w.at = place + 1 /\ w.found = found
        BY <2>2
    <2>8. Len(b) \in Nat /\ b \in Seq(Nat)
        BY <1>1
    <2> HIDE DEF w
    <2>9. LookAt(b, w, pads) = [at |-> place + Len(o) + 1, found |-> Append(found, Parsed(o))]
        <3>1. StandsAt(b, o, place)
            BY <2>3, <2>8 DEF StandsAt
        <3>2. LookAt(b, w, pads) = [at |-> place + Len(o) + 1, found |-> Append(w.found, Parsed(o))]
            BY <2>4, <2>7, <3>1, LookTakes
        <3> QED
            BY <2>7, <3>2
    <2>10. look[k + 1] = [at |-> place + Len(o) + 1, found |-> Append(found, Parsed(o))]
        BY <2>2, <2>9 DEF w
    <2> QED
        BY <2>3, <2>6, <2>10
<1> HIDE DEF S, after
<1>7. look[n] = after(n)
    <2>1. Nat \subseteq S
        BY <1>5, <1>6, SetInduction
    <2> QED
        BY <1>1, <2>1 DEF S
<1> DEFINE T == {k \in Nat : n + k <= Len(b) => look[n + k] = after(n)}
<1>8. 0 \in T
    BY <1>1, <1>7
<1>9. ASSUME NEW k \in Nat, k \in T
      PROVE  k + 1 \in T
    <2> SUFFICES ASSUME n + (k + 1) <= Len(b) PROVE look[n + (k + 1)] = after(n)
        OBVIOUS
    <2>1. n + (k + 1) \in 0 .. Len(b) /\ n + (k + 1) # 0 /\ (n + (k + 1)) - 1 = n + k /\ n + k <= Len(b)
        BY <1>1
    <2>2. look[n + (k + 1)] = LookAt(b, after(n), pads)
        BY <1>4, <1>9, <2>1
    <2>3. after(n).at = Len(b)
        BY <1>1 DEF after
    <2> HIDE DEF after
    <2>4. LookAt(b, after(n), pads) = after(n)
        BY <1>1, <2>3 DEF LookAt, OptEnd
    <2> QED
        BY <2>2, <2>4
<1> HIDE DEF T
<1>10. look[Len(b)] = after(n)
    <2>1. Nat \subseteq T
        BY <1>8, <1>9, SetInduction
    <2>2. Len(b) - n \in Nat /\ n + (Len(b) - n) = Len(b) /\ Len(b) <= Len(b)
        BY <1>1
    <2> QED
        BY <2>1, <2>2 DEF T
<1>11. [i \in 1 .. n |-> g[i]] = g
    BY DEF AllParsed
<1> QED
    BY <1>2, <1>10, <1>11 DEF b, after

-----------------------------------------------------------------------------
(* What a client knows.                                                    *)

Codes(dhcp) == IF dhcp THEN {1, 3, 6, 12, 17, 54} ELSE {1, 3, 6, 12, 17}
FieldOf(c) ==
    CASE c = 1 -> "mask" [] c = 3 -> "gateway" [] c = 6 -> "dns"
      [] c = 12 -> "host" [] c = 17 -> "root" [] c = 54 -> "dhcpServer"
ParamFields == {"ip", "server", "mask", "gateway", "dns", "host", "root", "blocks", "dhcpServer", "file"}
Unknown(c) == IF c \in {12, 17} THEN <<>> ELSE 0
ReadAs(c, o) == IF c \in {12, 17} THEN Text(SubSeq(o, 3, Len(o)), NameMax) ELSE SubSeq(o, 3, Len(o))[1]

(* The option at i is the one of its code that counts; 0 is none.          *)
CountsAt(os, dhcp, c, i) ==
    \/ i = 0 /\ \A j \in DOMAIN os : os[j][1] # c
    \/ /\ i \in DOMAIN os /\ os[i][1] = c
       /\ \A j \in DOMAIN os : os[j][1] = c => IF dhcp THEN j <= i ELSE i <= j
Knows(par, os, dhcp) ==
    /\ DOMAIN par = ParamFields
    /\ \A c \in Codes(dhcp) : \E i \in 0 .. Len(os) :
           CountsAt(os, dhcp, c, i) /\ par[FieldOf(c)] = IF i = 0 THEN Unknown(c) ELSE ReadAs(c, os[i])

Offered == {o \in Wire : o # <<0>> => Announces(o)}

LEMMA ReadIsKnown ==
    ASSUME NEW o \in Offered, NEW dhcp \in BOOLEAN, NEW c \in Codes(dhcp), o[1] = c
    PROVE  o # <<0>> /\ ReadAs(c, o) # Unknown(c)
<1>1. o # <<0>> /\ o \in Seq(Nat) /\ WellFormed(o)
    BY WireIs DEF Offered, Codes
<1> DEFINE data == SubSeq(o, 3, Len(o))
<1>2. /\ data \in Seq(Nat) /\ Len(data) = Len(o) - 2 /\ Len(o) - 2 \in Nat \ {0}
      /\ \A i \in 1 .. Len(o) - 2 : data[i] = o[i + 2]
    BY <1>1, DataIs
<1>3. CASE c \in {12, 17}
    <2> DEFINE m == truncate_sz(NameMax, Len(data))
    <2> HIDE DEF data
    <2>1. m \in Nat /\ 1 <= m /\ m <= Len(data)
        BY <1>2, BootpAssumption DEF truncate_sz
    <2> HIDE DEF m
    <2>2. \A i \in 1 .. m : data[i] \in Nat
        BY <1>2, <2>1, ElementOfSeq
    <2>3. Len(SubSeq(data, 1, m)) = IF 1 <= m THEN m - 1 + 1 ELSE 0
        BY <2>1, <2>2, SubSeqProperties
    <2>4. SubSeq(data, 1, m) # <<>>
        BY <2>1, <2>3
    <2> QED
        BY <1>1, <1>3, <2>4 DEF ReadAs, Unknown, Text, m, data
<1>4. CASE c \notin {12, 17}
    <2>1. data[1] = o[3]
        BY <1>2
    <2>2. o[3] # 0
        BY <1>1, <1>4 DEF Offered, Announces, Codes
    <2> QED
        BY <1>1, <1>4, <2>1, <2>2 DEF ReadAs, Unknown
<1> QED
    BY <1>3, <1>4

(* BootpVendorFieldProcess keeps what it knows, DhcpOptionsProcess takes   *)
(* the option.                                                             *)
LEMMA ProcessIs ==
    ASSUME NEW par, DOMAIN par = ParamFields, NEW o \in Offered, NEW dhcp \in BOOLEAN, dhcp => o # << 0 >>
    PROVE  /\ DOMAIN OptionProcess(par, Parsed(o), dhcp) = ParamFields
           /\ \A c \in Codes(dhcp) :
                  OptionProcess(par, Parsed(o), dhcp)[FieldOf(c)] =
                      IF o[1] = c /\ (dhcp \/ par[FieldOf(c)] = Unknown(c)) THEN ReadAs(c, o) ELSE par[FieldOf(c)]
<1> DEFINE q == OptionProcess(par, Parsed(o), dhcp)
           text == Text(SubSeq(o, 3, Len(o)), NameMax)
           first == SubSeq(o, 3, Len(o))[1]
<1>1. CASE o = <<0>>
    <2>1. o[1] = 0 /\ q = par /\ ~dhcp
        BY <1>1, WireIs DEF Offered, OptionProcess, Parsed, Pad
    <2> QED
        BY <2>1 DEF Codes
<1>2. CASE o # <<0>> /\ dhcp
    <2>1. Parsed(o).code = o[1] /\ Parsed(o).data = SubSeq(o, 3, Len(o))
        BY <1>2 DEF Parsed
    <2>2. q = DhcpOptionProcess(par, Parsed(o))
        BY <1>2 DEF OptionProcess
    <2> DEFINE p == Parsed(o)
    <2>3. p.code = o[1] /\ first = p.data[1] /\ text = Text(p.data, NameMax) /\ q = DhcpOptionProcess(par, p)
        BY <2>1, <2>2
    <2> HIDE DEF q, first, text, p
    <2>4. o[1] = 1 => q = [par EXCEPT !.mask = first]
        BY <2>3 DEF DhcpOptionProcess
    <2>5. o[1] = 3 => q = [par EXCEPT !.gateway = first]
        BY <2>3 DEF DhcpOptionProcess
    <2>6. o[1] = 6 => q = [par EXCEPT !.dns = first]
        BY <2>3 DEF DhcpOptionProcess
    <2>7. o[1] = 12 => q = [par EXCEPT !.host = text]
        BY <2>3 DEF DhcpOptionProcess
    <2>8. o[1] = 17 => q = [par EXCEPT !.root = text]
        BY <2>3 DEF DhcpOptionProcess
    <2>9. o[1] = 54 => q = [par EXCEPT !.dhcpServer = first]
        BY <2>3 DEF DhcpOptionProcess
    <2>10. o[1] \notin {1, 3, 6, 12, 17, 54} => q = par
        BY <2>3 DEF DhcpOptionProcess
    <2>11. DOMAIN q = ParamFields
        BY <2>4, <2>5, <2>6, <2>7, <2>8, <2>9, <2>10
    <2>12. ASSUME NEW c \in Codes(dhcp)
          PROVE  q[FieldOf(c)] = IF o[1] = c THEN (IF c \in {12, 17} THEN text ELSE first) ELSE par[FieldOf(c)]
        <3>1. c \in {1, 3, 6, 12, 17, 54}
            BY <1>2 DEF Codes
        <3>2. CASE c = 1
            BY <2>4, <2>5, <2>6, <2>7, <2>8, <2>9, <2>10, <3>2 DEF FieldOf, ParamFields
        <3>3. CASE c = 3
            BY <2>4, <2>5, <2>6, <2>7, <2>8, <2>9, <2>10, <3>3 DEF FieldOf, ParamFields
        <3>4. CASE c = 6
            BY <2>4, <2>5, <2>6, <2>7, <2>8, <2>9, <2>10, <3>4 DEF FieldOf, ParamFields
        <3>5. CASE c = 12
            BY <2>4, <2>5, <2>6, <2>7, <2>8, <2>9, <2>10, <3>5 DEF FieldOf, ParamFields
        <3>6. CASE c = 17
            BY <2>4, <2>5, <2>6, <2>7, <2>8, <2>9, <2>10, <3>6 DEF FieldOf, ParamFields
        <3>7. CASE c = 54
            BY <2>4, <2>5, <2>6, <2>7, <2>8, <2>9, <2>10, <3>7 DEF FieldOf, ParamFields
        <3> QED
            BY <3>1, <3>2, <3>3, <3>4, <3>5, <3>6, <3>7
    <2> QED
        BY <1>2, <2>11, <2>12 DEF ReadAs, q, first, text
<1>3. CASE o # <<0>> /\ ~dhcp
    <2>1. Parsed(o).code = o[1] /\ Parsed(o).data = SubSeq(o, 3, Len(o)) /\ o[1] # 0
        BY <1>3, WireIs DEF Parsed, Offered, WellFormed
    <2>2. q = BootpVendorFieldProcess(par, Parsed(o))
        BY <1>3, <2>1 DEF OptionProcess
    <2> DEFINE p == [par EXCEPT !.blocks = 0]
    <2>3. /\ DOMAIN p = ParamFields
          /\ \A f \in {"mask", "gateway", "dns", "host", "root", "dhcpServer"} : p[f] = par[f]
        BY DEF ParamFields
    <2> HIDE DEF p
    <2> DEFINE r == Parsed(o)
    <2>4. r.code = o[1] /\ first = r.data[1] /\ text = Text(r.data, NameMax) /\ q = BootpVendorFieldProcess(par, r)
        BY <2>1, <2>2
    <2> HIDE DEF q, first, text, r
    <2>5. o[1] = 1 => q = IF p.mask = 0 THEN [p EXCEPT !.mask = first] ELSE p
        BY <2>4 DEF BootpVendorFieldProcess, p
    <2>6. o[1] = 3 => q = IF p.gateway = 0 THEN [p EXCEPT !.gateway = first] ELSE p
        BY <2>4 DEF BootpVendorFieldProcess, p
    <2>7. o[1] = 6 => q = IF p.dns = 0 THEN [p EXCEPT !.dns = first] ELSE p
        BY <2>4 DEF BootpVendorFieldProcess, p
    <2>8. o[1] = 12 => q = IF p.host = <<>> THEN [p EXCEPT !.host = text] ELSE p
        BY <2>4 DEF BootpVendorFieldProcess, p
    <2>9. o[1] = 17 => q = IF p.root = <<>> THEN [p EXCEPT !.root = text] ELSE p
        BY <2>4 DEF BootpVendorFieldProcess, p
    <2>10. o[1] = 13 => q \in {p, [p EXCEPT !.blocks = Last(r.data)]}
        BY <2>4 DEF BootpVendorFieldProcess, p
    <2>11. o[1] \notin {1, 3, 6, 12, 13, 17} => q = p
        BY <2>4 DEF BootpVendorFieldProcess, p
    <2>12. o[1] \notin {1, 3, 6, 12, 17} => DOMAIN q = DOMAIN p /\ \A f \in {"mask", "gateway", "dns", "host", "root", "dhcpServer"} : q[f] = p[f]
        BY <2>3, <2>10, <2>11 DEF ParamFields
    <2>13. DOMAIN q = ParamFields
        BY <2>3, <2>5, <2>6, <2>7, <2>8, <2>9, <2>12
    <2>14. ASSUME NEW c \in Codes(dhcp)
          PROVE  q[FieldOf(c)] = IF o[1] = c /\ par[FieldOf(c)] = Unknown(c) THEN (IF c \in {12, 17} THEN text ELSE first)
                                 ELSE par[FieldOf(c)]
        <3>1. c \in {1, 3, 6, 12, 17}
            BY <1>3 DEF Codes
        <3>2. CASE c = 1
            BY <2>3, <2>5, <2>6, <2>7, <2>8, <2>9, <2>12, <3>2 DEF FieldOf, ParamFields, Unknown
        <3>3. CASE c = 3
            BY <2>3, <2>5, <2>6, <2>7, <2>8, <2>9, <2>12, <3>3 DEF FieldOf, ParamFields, Unknown
        <3>4. CASE c = 6
            BY <2>3, <2>5, <2>6, <2>7, <2>8, <2>9, <2>12, <3>4 DEF FieldOf, ParamFields, Unknown
        <3>5. CASE c = 12
            BY <2>3, <2>5, <2>6, <2>7, <2>8, <2>9, <2>12, <3>5 DEF FieldOf, ParamFields, Unknown
        <3>6. CASE c = 17
            BY <2>3, <2>5, <2>6, <2>7, <2>8, <2>9, <2>12, <3>6 DEF FieldOf, ParamFields, Unknown
        <3> QED
            BY <3>1, <3>2, <3>3, <3>4, <3>5, <3>6
    <2> QED
        BY <1>3, <2>13, <2>14 DEF ReadAs, q, first, text
<1> QED
    BY <1>1, <1>2, <1>3

LEMMA KnowsMore ==
    ASSUME NEW os \in Seq(Offered), NEW o \in Offered, NEW dhcp \in BOOLEAN, dhcp => o # << 0 >>, NEW par, Knows(par, os, dhcp)
    PROVE  Knows(OptionProcess(par, Parsed(o), dhcp), Append(os, o), dhcp)
<1> DEFINE q == OptionProcess(par, Parsed(o), dhcp)
           ps == Append(os, o)
           n == Len(os)
<1>1. /\ DOMAIN q = ParamFields
      /\ \A c \in Codes(dhcp) :
             q[FieldOf(c)] = IF o[1] = c /\ (dhcp \/ par[FieldOf(c)] = Unknown(c)) THEN ReadAs(c, o) ELSE par[FieldOf(c)]
    BY ProcessIs DEF Knows
<1>2. /\ n \in Nat /\ Len(ps) = n + 1 /\ DOMAIN os = 1 .. n /\ DOMAIN ps = 1 .. n + 1
      /\ ps[n + 1] = o /\ \A i \in 1 .. n : ps[i] = os[i]
    BY AppendProperties, LenProperties
<1> HIDE DEF q, ps, n
<1>3. ASSUME NEW c \in Codes(dhcp)
      PROVE  \E i \in 0 .. n + 1 : CountsAt(ps, dhcp, c, i) /\ q[FieldOf(c)] = IF i = 0 THEN Unknown(c) ELSE ReadAs(c, ps[i])
    <2>1. PICK i \in 0 .. n : CountsAt(os, dhcp, c, i) /\ par[FieldOf(c)] = IF i = 0 THEN Unknown(c) ELSE ReadAs(c, os[i])
        BY DEF Knows, n
    <2>2. i # 0 => i \in 1 .. n /\ os[i][1] = c /\ os[i] \in Offered
        BY <1>2, <2>1, ElementOfSeq DEF CountsAt, n
    <2>3. par[FieldOf(c)] = Unknown(c) <=> i = 0
        BY <2>1, <2>2, ReadIsKnown
    <2>4. CASE o[1] = c /\ (dhcp \/ i = 0)
        <3>1. \A j \in 1 .. n + 1 : ps[j][1] = c => IF dhcp THEN j <= n + 1 ELSE n + 1 <= j
            <4>1. ASSUME NEW j \in 1 .. n + 1, ps[j][1] = c, ~dhcp
                  PROVE  j = n + 1
                <5>1. i = 0
                    BY <2>4, <4>1
                <5>2. \A k \in 1 .. n : os[k][1] # c
                    BY <1>2, <2>1, <5>1 DEF CountsAt
                <5> QED
                    BY <1>2, <4>1, <5>2
            <4> QED
                BY <1>2, <4>1
        <3>2. CountsAt(ps, dhcp, c, n + 1)
            BY <1>2, <2>4, <3>1 DEF CountsAt
        <3>3. q[FieldOf(c)] = ReadAs(c, ps[n + 1]) /\ n + 1 # 0 /\ n + 1 \in 0 .. n + 1
            BY <1>1, <1>2, <2>3, <2>4
        <3> QED
            BY <3>2, <3>3
    <2>5. CASE o[1] = c /\ ~dhcp /\ i # 0
        <3>1. CountsAt(ps, dhcp, c, i)
            <4>1. \A j \in 1 .. n : os[j][1] = c => i <= j
                BY <1>2, <2>1, <2>5 DEF CountsAt
            <4>2. \A j \in 1 .. n + 1 : ps[j][1] = c => i <= j
                BY <1>2, <2>2, <2>5, <4>1
            <4> QED
                BY <1>2, <2>2, <2>5, <4>2 DEF CountsAt
        <3>2. q[FieldOf(c)] = ReadAs(c, ps[i]) /\ i \in 0 .. n + 1
            BY <1>1, <1>2, <2>1, <2>2, <2>3, <2>5
        <3> QED
            BY <2>5, <3>1, <3>2
    <2>6. CASE o[1] # c
        <3>1. CountsAt(ps, dhcp, c, i)
            <4>1. CASE i = 0
                <5>1. \A j \in 1 .. n : os[j][1] # c
                    BY <1>2, <2>1, <4>1 DEF CountsAt
                <5>2. \A j \in 1 .. n + 1 : ps[j][1] # c
                    BY <1>2, <2>6, <5>1
                <5> QED
                    BY <1>2, <4>1, <5>2 DEF CountsAt
            <4>2. CASE i # 0
                <5>1. \A j \in 1 .. n : os[j][1] = c => IF dhcp THEN j <= i ELSE i <= j
                    BY <1>2, <2>1, <4>2 DEF CountsAt
                <5>2. \A j \in 1 .. n + 1 : ps[j][1] = c => IF dhcp THEN j <= i ELSE i <= j
                    BY <1>2, <2>6, <5>1
                <5> QED
                    BY <1>2, <2>2, <4>2, <5>2 DEF CountsAt
            <4> QED
                BY <4>1, <4>2
        <3>2. q[FieldOf(c)] = IF i = 0 THEN Unknown(c) ELSE ReadAs(c, ps[i])
            BY <1>1, <1>2, <2>1, <2>2, <2>6
        <3>3. i \in 0 .. n + 1
            BY <1>2
        <3> QED
            BY <3>1, <3>2, <3>3
    <2> QED
        BY <2>4, <2>5, <2>6
<1> QED
    BY <1>1, <1>2, <1>3 DEF Knows, q, ps

(* A reply of any number of options.                                       *)
LEMMA KnowsAll ==
    ASSUME NEW os \in Seq(Offered), NEW area_ \in Seq(Offered), NEW dhcp \in BOOLEAN, dhcp => NoPads(area_),
           NEW par, Knows(par, os, dhcp)
    PROVE  Knows(OptionsProcess(par, AllParsed(area_), dhcp), os \o area_, dhcp)
<1> DEFINE n == Len(area_)
           options == AllParsed(area_)
           after == CHOOSE f : f = ProcessWith(par, options, dhcp, f, Len(options))
           upto(k) == os \o SubSeq(area_, 1, k)
<1>1. n \in Nat /\ Len(options) = n /\ \A i \in 1 .. n : options[i] = Parsed(area_[i]) /\ area_[i] \in Offered
    BY LenProperties, ElementOfSeq DEF AllParsed
<1>2. OptionsProcess(par, options, dhcp) = after[Len(options)]
    BY DEF OptionsProcess, ProcessWith
<1>3. after = ProcessWith(par, options, dhcp, after, Len(options))
    <2>1. \E f : f = ProcessWith(par, options, dhcp, f, Len(options))
        BY <1>1, ProcessExists
    <2> QED
        BY <2>1
<1> HIDE DEF after, options
<1>4. \A k \in 0 .. n : after[k] = IF k = 0 THEN par ELSE OptionProcess(after[k - 1], options[k], dhcp)
    <2>1. \A k \in 0 .. n :
              ProcessWith(par, options, dhcp, after, n)[k] = IF k = 0 THEN par ELSE OptionProcess(after[k - 1], options[k], dhcp)
        BY DEF ProcessWith
    <2> QED
        BY <1>1, <1>3, <2>1
<1> DEFINE S == {k \in Nat : k <= n => Knows(after[k], upto(k), dhcp)}
<1>5. 0 \in S
    <2>1. SubSeq(area_, 1, 0) = <<>>
        BY SubSeqEmpty
    <2>2. upto(0) = os
        BY <2>1, ConcatEmptySeq
    <2>3. after[0] = par
        BY <1>1, <1>4
    <2> QED
        BY <2>2, <2>3
<1>6. ASSUME NEW k \in Nat, k \in S
      PROVE  k + 1 \in S
    <2> SUFFICES ASSUME k + 1 <= n PROVE Knows(after[k + 1], upto(k + 1), dhcp)
        OBVIOUS
    <2>1. k + 1 \in 0 .. n /\ k + 1 # 0 /\ (k + 1) - 1 = k /\ k + 1 \in 1 .. n /\ k <= n
        BY <1>1
    <2>2. after[k + 1] = OptionProcess(after[k], Parsed(area_[k + 1]), dhcp) /\ area_[k + 1] \in Offered
        BY <1>1, <1>4, <2>1
    <2>3. upto(k) \in Seq(Offered) /\ upto(k + 1) = Append(upto(k), area_[k + 1])
        <3> DEFINE a == SubSeq(area_, 1, k)
                   o == area_[k + 1]
        <3>1. \A i \in 1 .. k : area_[i] \in Offered
            BY <1>1, <2>1
        <3>2. a \in Seq(Offered)
            BY <3>1, SubSeqProperties
        <3>3. 1 \in 1 .. Len(area_) /\ k + 1 \in 1 .. Len(area_)
            BY <1>1, <2>1
        <3>4. SubSeq(area_, 1, k + 1) = SubSeq(area_, 1, (k + 1) - 1) \o <<o>>
            BY <3>3, SubSeqRecursiveSecond
        <3>5. SubSeq(area_, 1, k + 1) = a \o <<o>>
            BY <2>1, <3>4
        <3> HIDE DEF a, o
        <3>6. o \in Offered /\ <<o>> \in Seq(Offered)
            BY <2>2 DEF o
        <3>7. os \o (a \o <<o>>) = (os \o a) \o <<o>> /\ os \o a \in Seq(Offered)
            BY <3>2, <3>6, ConcatAssociative, ConcatProperties
        <3>8. Append(os \o a, o) = (os \o a) \o <<o>>
            BY <3>6, <3>7, AppendIsConcat
        <3> QED
            BY <3>5, <3>7, <3>8 DEF a, o
    <2>4. dhcp => area_[k + 1] # <<0>>
        BY <2>1, LenProperties DEF NoPads
    <2>5. Knows(after[k], upto(k), dhcp)
        BY <1>6, <2>1
    <2> HIDE DEF upto
    <2> QED
        BY <2>2, <2>3, <2>4, <2>5, KnowsMore
<1> HIDE DEF S
<1>7. n \in S /\ SubSeq(area_, 1, n) = area_
    BY <1>1, <1>5, <1>6, SetInduction, SubSeqFull
<1>8. Knows(after[n], os \o area_, dhcp)
    <2>1. n <= n /\ upto(n) = os \o area_
        BY <1>1, <1>7
    <2> HIDE DEF upto
    <2>2. Knows(after[n], upto(n), dhcp)
        BY <1>7, <2>1 DEF S
    <2> QED
        BY <2>1, <2>2
<1> QED
    BY <1>1, <1>2, <1>8 DEF options

(* What is read out of step is made of options of any kind: it keeps the   *)
(* type of what the client knows.                                          *)
OptionData == [code : Nat, data : Seq(Nat) \ {<<>>}]
Typed(par) == DOMAIN par = ParamFields /\ par.dhcpServer \in Nat

LEMMA OptionTyped ==
    ASSUME NEW par, Typed(par), NEW o \in OptionData
    PROVE  Typed(OptionProcess(par, o, TRUE))
<1> DEFINE q == OptionProcess(par, o, TRUE)
           text == Text(o.data, NameMax)
           first == o.data[1]
<1>1. q = DhcpOptionProcess(par, o)
    BY DEF OptionProcess
<1>2. first \in Nat
    <2> DEFINE data == o.data
    <2>1. data \in Seq(Nat) /\ data # <<>>
        BY DEF OptionData
    <2> HIDE DEF data
    <2>2. 1 \in 1 .. Len(data)
        BY <2>1, EmptySeq, LenProperties
    <2>3. data[1] \in Nat
        BY <2>1, <2>2, ElementOfSeq
    <2> QED
        BY <2>3 DEF data
<1>3. DOMAIN par = ParamFields /\ par.dhcpServer \in Nat
    BY DEF Typed
<1> HIDE DEF q
<1>4. q \in {[par EXCEPT !.mask = first], [par EXCEPT !.gateway = first], [par EXCEPT !.dns = first],
            [par EXCEPT !.host = text], [par EXCEPT !.root = text], [par EXCEPT !.dhcpServer = first], par}
    <2> HIDE DEF first, text
    <2> QED
        BY <1>1 DEF DhcpOptionProcess, first, text
<1> HIDE DEF first, text
<1>5. DOMAIN q = ParamFields /\ q.dhcpServer \in Nat
    BY <1>2, <1>3, <1>4 DEF ParamFields
<1> QED
    BY <1>5 DEF Typed, q

LEMMA OptionsTyped ==
    ASSUME NEW par, Typed(par), NEW options \in Seq(OptionData)
    PROVE  Typed(OptionsProcess(par, options, TRUE))
<1> DEFINE n == Len(options)
           after == CHOOSE f : f = ProcessWith(par, options, TRUE, f, n)
<1>1. n \in Nat /\ \A i \in 1 .. n : options[i] \in OptionData
    BY LenProperties, ElementOfSeq
<1>2. OptionsProcess(par, options, TRUE) = after[n]
    BY DEF OptionsProcess, ProcessWith
<1>3. after = ProcessWith(par, options, TRUE, after, n)
    <2>1. \E f : f = ProcessWith(par, options, TRUE, f, n)
        BY <1>1, ProcessExists
    <2> QED
        BY <2>1
<1> HIDE DEF after, n
<1>4. \A k \in 0 .. n : after[k] = IF k = 0 THEN par ELSE OptionProcess(after[k - 1], options[k], TRUE)
    <2>1. \A k \in 0 .. n :
              ProcessWith(par, options, TRUE, after, n)[k] = IF k = 0 THEN par ELSE OptionProcess(after[k - 1], options[k], TRUE)
        BY DEF ProcessWith
    <2> QED
        BY <1>3, <2>1
<1> DEFINE S == {k \in Nat : k <= n => Typed(after[k])}
<1>5. 0 \in S
    <2>1. 0 \in 0 .. n
        BY <1>1
    <2>2. after[0] = par
        BY <1>4, <2>1
    <2> QED
        BY <2>2
<1>6. ASSUME NEW k \in Nat, k \in S
      PROVE  k + 1 \in S
    <2> SUFFICES ASSUME k + 1 <= n PROVE Typed(after[k + 1])
        OBVIOUS
    <2>1. k + 1 \in 0 .. n /\ k + 1 # 0 /\ (k + 1) - 1 = k /\ k + 1 \in 1 .. n /\ k <= n
        BY <1>1
    <2>2. after[k + 1] = OptionProcess(after[k], options[k + 1], TRUE) /\ options[k + 1] \in OptionData
        BY <1>1, <1>4, <2>1
    <2>3. Typed(after[k])
        BY <1>6, <2>1
    <2> QED
        BY <2>2, <2>3, OptionTyped
<1> HIDE DEF S
<1>7. n \in S
    BY <1>1, <1>5, <1>6, SetInduction
<1>8. n <= n
    BY <1>1
<1>9. Typed(after[n])
    BY <1>7, <1>8 DEF S
<1> QED
    BY <1>2, <1>9

LEMMA ProcessNothing == \A par : OptionsProcess(par, <<>>, TRUE) = par
<1> SUFFICES ASSUME NEW par PROVE OptionsProcess(par, <<>>, TRUE) = par
    OBVIOUS
<1> DEFINE none == <<>>
           after == CHOOSE f : f = ProcessWith(par, none, TRUE, f, 0)
<1>1. Len(none) = 0 /\ 0 \in Nat
    OBVIOUS
<1> HIDE DEF none
<1>2. OptionsProcess(par, none, TRUE) = after[0]
    BY <1>1 DEF OptionsProcess, ProcessWith
<1>3. after = ProcessWith(par, none, TRUE, after, 0)
    <2>1. \E f : f = ProcessWith(par, none, TRUE, f, 0)
        BY <1>1, ProcessExists
    <2> QED
        BY <2>1
<1> HIDE DEF after
<1>4. ProcessWith(par, none, TRUE, after, 0)[0] = par
    BY DEF ProcessWith
<1>5. after[0] = par
    BY <1>3, <1>4
<1> QED
    BY <1>2, <1>5 DEF none

(* The options in front of the first zero.                                 *)
LEMMA UpToPadIs ==
    ASSUME NEW os \in Seq(Offered)
    PROVE  /\ UpToPad(os) \in Seq(Offered) /\ NoPads(UpToPad(os))
           /\ ~Padded(os) => UpToPad(os) = os
<1>1. Len(os) \in Nat /\ DOMAIN os = 1 .. Len(os) /\ \A i \in 1 .. Len(os) : os[i] \in Offered
    BY LenProperties, ElementOfSeq
<1>2. CASE ~Padded(os)
    BY <1>2 DEF UpToPad, Padded, NoPads
<1>3. CASE Padded(os)
    <2> DEFINE zeroes == {i \in DOMAIN os : os[i] = <<0>>}
               m == Min(zeroes)
               front == SubSeq(os, 1, m - 1)
    <2>1. zeroes \in SUBSET Nat /\ zeroes # {}
        BY <1>1, <1>3 DEF Padded
    <2>2. m \in zeroes /\ \A y \in zeroes : m <= y
        <3> HIDE DEF zeroes
        <3>1. \E x \in zeroes : \A y \in zeroes : x <= y
            BY <2>1, LeastNumber
        <3> QED
            BY <3>1 DEF Min
    <2> HIDE DEF m
    <2>3. m \in 1 .. Len(os) /\ m \in Nat
        BY <1>1, <2>2
    <2>4. \A i \in 1 .. m - 1 : os[i] \in Offered /\ os[i] # <<0>>
        <3>1. \A i \in 1 .. m - 1 : i \in 1 .. Len(os) /\ ~(m <= i)
            BY <1>1, <2>3
        <3>2. \A i \in 1 .. m - 1 : i \notin zeroes
            BY <2>2, <3>1
        <3> QED
            BY <1>1, <3>1, <3>2
    <2>5. 1 \in Int /\ m - 1 \in Int
        BY <2>3
    <2>6. /\ front \in Seq(Offered) /\ Len(front) = IF 1 <= m - 1 THEN m - 1 - 1 + 1 ELSE 0
          /\ \A i \in 1 .. m - 1 - 1 + 1 : front[i] = os[1 + i - 1]
        BY <2>4, <2>5, SubSeqProperties
    <2>7. Len(front) = m - 1 /\ m - 1 - 1 + 1 = m - 1
        BY <2>3, <2>6
    <2>8. UpToPad(os) = front
        BY <1>3 DEF UpToPad, m
    <2> HIDE DEF front
    <2>9. DOMAIN front = 1 .. m - 1
        BY <2>6, <2>7, LenProperties
    <2>10. \A i \in 1 .. m - 1 : 1 + i - 1 = i
        OBVIOUS
    <2>11. \A i \in 1 .. m - 1 : front[i] = os[i]
        BY <2>6, <2>7, <2>10
    <2>12. NoPads(front)
        BY <2>4, <2>9, <2>11 DEF NoPads
    <2> QED
        BY <1>3, <2>6, <2>8, <2>12
<1> QED
    BY <1>2, <1>3

(* What is found in step is made of options.                               *)
LEMMA AllParsedTyped ==
    ASSUME NEW os \in Seq(Wire), NoPads(os)
    PROVE  AllParsed(os) \in Seq(OptionData)
<1>1. Len(os) \in Nat /\ DOMAIN os = 1 .. Len(os) /\ \A i \in 1 .. Len(os) : os[i] \in Wire
    BY LenProperties, ElementOfSeq
<1>2. ASSUME NEW i \in 1 .. Len(os)
      PROVE  Parsed(os[i]) \in OptionData
    <2> DEFINE o == os[i]
               data == SubSeq(o, 3, Len(o))
    <2>1. o # <<0>> /\ o \in Wire
        BY <1>1 DEF NoPads
    <2>2. o \in Seq(Nat) /\ WellFormed(o)
        BY <2>1, WireIs
    <2> HIDE DEF o
    <2>3. data \in Seq(Nat) /\ Len(data) # 0 /\ o[1] \in Nat
        <3>1. data \in Seq(Nat) /\ Len(data) = Len(o) - 2 /\ Len(o) - 2 \in Nat \ {0}
            BY <2>2, DataIs
        <3>2. 1 \in 1 .. Len(o)
            BY <2>2, LenProperties DEF WellFormed
        <3> QED
            BY <2>2, <3>1, <3>2, ElementOfSeq
    <2>4. data # <<>>
        BY <2>3, EmptySeq
    <2>5. Parsed(o) = [code |-> o[1], data |-> data]
        BY <2>1 DEF Parsed
    <2> HIDE DEF data
    <2>6. Parsed(o) \in OptionData
        BY <2>3, <2>4, <2>5 DEF OptionData
    <2> QED
        BY <2>6 DEF o
<1> DEFINE all == [i \in 1 .. Len(os) |-> Parsed(os[i])]
<1>3. all \in Seq(OptionData)
    <2> HIDE DEF Parsed
    <2>1. \A i \in 1 .. Len(os) : Parsed(os[i]) \in OptionData
        BY <1>2
    <2> QED
        BY <1>1, <2>1
<1> QED
    BY <1>3 DEF AllParsed

-----------------------------------------------------------------------------
(* BOOTP, DHCP and RARP: the inductive invariant                           *)

BootpStates ==
    [client : {"none", "bootp", "dhcp", "rarp"}, try : Nat, net : {"idle", "continue", "restart", "fail"} \cup Autoload,
     state : {"INIT", "SELECTING", "REQUESTING", "BOUND"}]

(* What the last request asked for.                                        *)
AskedAsState ==
    /\ bootp.client = "bootp" => asked = BootpExtended
    /\ bootp.client = "dhcp" /\ bootp.state = "SELECTING" => asked = DhcpExtended(1, 0, 0)
    /\ bootp.client = "dhcp" /\ bootp.state = "REQUESTING" =>
           params.ip \in Nat \ {0} /\ asked = DhcpExtended(3, params.dhcpServer, params.ip)
    /\ bootp.client = "dhcp" /\ bootp.state = "BOUND" =>
           \E s \in Nat, a \in Nat \ {0} : asked = DhcpExtended(3, s, a)
    /\ bootp.client = "dhcp" => bootp.state # "INIT"

BootpInv ==
    /\ bootp \in BootpStates
    /\ area \in Seq(Offered) /\ taken \in Seq(Offered)
    /\ misread \in BOOLEAN /\ (misread => bootp.client = "dhcp")
    /\ DOMAIN params = ParamFields
    /\ bootp.client = "dhcp" => params.dhcpServer \in Nat
    /\ ~misread => Knows(params, taken, bootp.client = "dhcp")
    /\ bootp.net = "idle" => params = Unset /\ area = <<>> /\ taken = <<>> /\ ~misread
    /\ bootp.client = "none" => bootp.net = "idle"
    /\ AskedAsState

LEMMA KnowsNothing ==
    ASSUME NEW dhcp \in BOOLEAN, NEW par, DOMAIN par = ParamFields,
           \A c \in Codes(dhcp) : par[FieldOf(c)] = Unset[FieldOf(c)]
    PROVE  Knows(par, <<>>, dhcp)
<1>1. DOMAIN <<>> = {} /\ Len(<<>>) = 0 /\ 0 \in 0 .. 0
    OBVIOUS
<1>2. \A c \in {1, 3, 6, 12, 17, 54} : Unset[FieldOf(c)] = Unknown(c)
    BY DEF Unset, FieldOf, Unknown
<1>3. \A c \in Codes(dhcp) : CountsAt(<<>>, dhcp, c, 0) /\ par[FieldOf(c)] = Unknown(c)
    BY <1>1, <1>2 DEF CountsAt, Codes
<1> QED
    BY <1>1, <1>3 DEF Knows

LEMMA UnsetIs == DOMAIN Unset = ParamFields /\ Unset.dhcpServer = 0
    BY DEF Unset, ParamFields

(* Fields no option sets may change.                                       *)
LEMMA KnowsStill ==
    ASSUME NEW par, NEW q, NEW os, NEW dhcp \in BOOLEAN, Knows(par, os, dhcp), DOMAIN q = DOMAIN par,
           \A f \in {"mask", "gateway", "dns", "host", "root", "dhcpServer"} : q[f] = par[f]
    PROVE  Knows(q, os, dhcp)
<1>1. \A c \in Codes(dhcp) : FieldOf(c) \in {"mask", "gateway", "dns", "host", "root", "dhcpServer"}
    BY DEF Codes, FieldOf
<1> QED
    BY <1>1 DEF Knows

LEMMA CopyKeeps ==
    ASSUME NEW par, NEW os, NEW dhcp \in BOOLEAN, Knows(par, os, dhcp), NEW head, NEW file
    PROVE  /\ Knows(BootpCopyNetParams(par, head, file), os, dhcp)
           /\ BootpCopyNetParams(par, head, file).ip = head.yiaddr
           /\ BootpCopyNetParams(par, head, file).dhcpServer = par.dhcpServer
<1> DEFINE q == BootpCopyNetParams(par, head, file)
<1>1. DOMAIN par = ParamFields
    BY DEF Knows
<1>2. PICK s, f : q = [par EXCEPT !.ip = head.yiaddr, !.server = s, !.file = f]
    BY DEF BootpCopyNetParams
<1> HIDE DEF q
<1>3. DOMAIN q = DOMAIN par /\ \A f0 \in {"mask", "gateway", "dns", "host", "root", "dhcpServer"} : q[f0] = par[f0]
    BY <1>1, <1>2 DEF ParamFields
<1>4. q.ip = head.yiaddr /\ q.dhcpServer = par.dhcpServer
    BY <1>1, <1>2 DEF ParamFields
<1>5. Knows(q, os, dhcp)
    BY <1>3, KnowsStill
<1> QED
    BY <1>4, <1>5 DEF q

LEMMA CopyTyped ==
    ASSUME NEW par, Typed(par), NEW head, NEW file
    PROVE  /\ Typed(BootpCopyNetParams(par, head, file))
           /\ BootpCopyNetParams(par, head, file).ip = head.yiaddr
<1> DEFINE q == BootpCopyNetParams(par, head, file)
<1>1. DOMAIN par = ParamFields /\ par.dhcpServer \in Nat
    BY DEF Typed
<1>2. PICK s, f : q = [par EXCEPT !.ip = head.yiaddr, !.server = s, !.file = f]
    BY DEF BootpCopyNetParams
<1> HIDE DEF q
<1>3. DOMAIN q = ParamFields /\ q.ip = head.yiaddr /\ q.dhcpServer = par.dhcpServer
    BY <1>1, <1>2 DEF ParamFields
<1> QED
    BY <1>1, <1>3 DEF Typed, q

LEMMA OfferedOptions == ReplyOptions \subseteq Offered /\ Offered \subseteq Wire
<1>1. \A o \in ReplyOptions : o \in Wire /\ (o # <<0>> => Announces(o))
    BY BootpAssumption DEF Wire, WellFormed
<1> QED
    BY <1>1 DEF Offered

LEMMA InitBootp == BootpInit => BootpInv
<1> SUFFICES ASSUME BootpInit PROVE BootpInv
    OBVIOUS
<1>1. bootp \in BootpStates /\ bootp.client = "none" /\ bootp.net = "idle"
    BY DEF BootpInit, BootpStates
<1>2. Knows(params, <<>>, FALSE)
    BY UnsetIs, KnowsNothing DEF BootpInit
<1>3. <<>> \in Seq(Offered)
    BY EmptySeq
<1>4. DOMAIN params = ParamFields /\ misread = FALSE
    BY UnsetIs DEF BootpInit
<1> QED
    BY <1>1, <1>2, <1>3, <1>4 DEF BootpInit, BootpInv, AskedAsState

LEMMA StartKeeps == BootpInv /\ StartClient => BootpInv'
<1> SUFFICES ASSUME BootpInv, StartClient PROVE BootpInv'
    OBVIOUS
<1>1. PICK c \in IF bootp.net = "idle" THEN Clients ELSE {bootp.client} :
          bootp' = [client |-> c, try |-> 1, net |-> "continue", state |-> "SELECTING"] /\ asked' = Request(c)
    BY DEF StartClient
<1>2. /\ bootp.net \in {"idle", "restart"} /\ params' = [params EXCEPT !.ip = 0, !.server = 0]
      /\ area' = area /\ taken' = taken /\ misread' = misread
    BY DEF StartClient
<1>3. c \in {"bootp", "dhcp", "rarp"}
    <2>1. CASE bootp.net = "idle"
        BY <1>1, <2>1, BootpAssumption
    <2>2. CASE bootp.net = "restart"
        BY <1>1, <2>2 DEF BootpInv, BootpStates
    <2> QED
        BY <1>2, <2>1, <2>2
<1>4. /\ bootp' \in BootpStates /\ bootp'.client = c /\ bootp'.net = "continue" /\ bootp'.state = "SELECTING"
    BY <1>1, <1>3 DEF BootpStates
<1>5. DOMAIN params = ParamFields
    BY DEF BootpInv
<1>6. DOMAIN params' = DOMAIN params /\ \A f \in {"mask", "gateway", "dns", "host", "root", "dhcpServer"} : params'[f] = params[f]
    BY <1>2, <1>5 DEF ParamFields
<1>7. ASSUME ~misread
      PROVE  Knows(params', taken, c = "dhcp")
    <2>1. CASE bootp.net = "idle"
        <3>1. params = Unset /\ taken = <<>>
            BY <2>1 DEF BootpInv
        <3>2. \A k \in Codes(c = "dhcp") : FieldOf(k) \in {"mask", "gateway", "dns", "host", "root", "dhcpServer"}
            BY DEF Codes, FieldOf
        <3>3. \A k \in Codes(c = "dhcp") : params'[FieldOf(k)] = Unset[FieldOf(k)]
            BY <1>6, <3>1, <3>2
        <3> QED
            BY <1>5, <1>6, <3>1, <3>3, KnowsNothing
    <2>2. CASE bootp.net = "restart"
        <3>1. c = bootp.client
            BY <1>1, <2>2
        <3>2. Knows(params, taken, c = "dhcp")
            BY <1>7, <3>1 DEF BootpInv
        <3> QED
            BY <1>6, <3>2, KnowsStill
    <2> QED
        BY <1>2, <2>1, <2>2
<1>8. (c = "dhcp" => params'.dhcpServer \in Nat) /\ misread \in BOOLEAN /\ (misread => c = "dhcp")
    <2>1. params'.dhcpServer = params.dhcpServer
        BY <1>6
    <2>2. CASE bootp.net = "idle"
        BY <2>1, <2>2, UnsetIs DEF BootpInv
    <2>3. CASE bootp.net = "restart"
        BY <1>1, <2>1, <2>3 DEF BootpInv
    <2> QED
        BY <1>2, <2>2, <2>3
<1>9. AskedAsState'
    BY <1>1, <1>4 DEF AskedAsState, Request
<1> QED
    BY <1>2, <1>3, <1>4, <1>5, <1>6, <1>7, <1>8, <1>9 DEF BootpInv

LEMMA TriesKeep == BootpInv /\ (BootpTimeout \/ RarpTimeout) => BootpInv'
<1> SUFFICES ASSUME BootpInv, BootpTimeout \/ RarpTimeout PROVE BootpInv'
    OBVIOUS
<1>1. bootp.net = "continue" /\ bootp.client # "none" /\ (GivesUp \/ AsksAgain) /\ UNCHANGED <<params, area, taken, misread>>
    BY DEF BootpTimeout, RarpTimeout, BootpInv
<1>2. bootp \in BootpStates
    BY DEF BootpInv
<1>3. CASE GivesUp
    <2>1. PICK n \in {"restart", "fail"} : bootp' = [bootp EXCEPT !.net = n] /\ asked' = asked
        BY <1>3 DEF GivesUp
    <2>2. bootp' \in BootpStates /\ bootp'.net = n /\ bootp'.client = bootp.client /\ bootp'.state = bootp.state
        BY <1>2, <2>1 DEF BootpStates
    <2> QED
        BY <1>1, <2>1, <2>2 DEF BootpInv, AskedAsState
<1>4. CASE AsksAgain
    <2>1. bootp' = [bootp EXCEPT !.try = bootp.try + 1, !.state = "SELECTING"] /\ asked' = Request(bootp.client)
        BY <1>4 DEF AsksAgain
    <2>2. bootp.try + 1 \in Nat
        BY <1>2 DEF BootpStates
    <2>3. bootp' \in BootpStates /\ bootp'.net = bootp.net /\ bootp'.client = bootp.client /\ bootp'.state = "SELECTING"
        BY <1>2, <2>1, <2>2 DEF BootpStates
    <2>4. AskedAsState'
        BY <2>1, <2>3 DEF AskedAsState, Request
    <2> QED
        BY <1>1, <2>3, <2>4 DEF BootpInv
<1> QED
    BY <1>1, <1>3, <1>4

LEMMA AddKeeps == BootpInv /\ AddOption => BootpInv'
<1> SUFFICES ASSUME BootpInv, AddOption PROVE BootpInv'
    OBVIOUS
<1>1. PICK o \in ReplyOptions : area' = Append(area, o)
    BY DEF AddOption
<1>2. UNCHANGED <<bootp, params, taken, asked, misread>> /\ bootp.net = "continue"
    BY DEF AddOption
<1>3. area \in Seq(Offered) /\ o \in Offered
    BY OfferedOptions DEF BootpInv
<1>4. area' \in Seq(Offered)
    BY <1>1, <1>3, AppendProperties
<1> QED
    BY <1>2, <1>4 DEF BootpInv, AskedAsState

(* A reply that is taken.                                                  *)
LEMMA ReplyTold ==
    ASSUME BootpInv, NEW dhcp \in BOOLEAN, dhcp => NoPads(area), NEW par, Knows(par, taken, dhcp)
    PROVE  /\ Knows(OptionsProcess(par, OptionsIn(Bytes_(area), ~dhcp), dhcp), taken \o area, dhcp)
           /\ taken \o area \in Seq(Offered)
<1>1. area \in Seq(Offered) /\ taken \in Seq(Offered) /\ area \in Seq(Wire)
    BY OfferedOptions, SeqMonotonic DEF BootpInv
<1>2. OptionsIn(Bytes_(area), ~dhcp) = AllParsed(area)
    BY <1>1, OptionsAreFound
<1> QED
    BY <1>1, <1>2, KnowsAll, ConcatProperties

LEMMA BootpReplyKeeps == BootpInv /\ BootpHandler => BootpInv'
<1> SUFFICES ASSUME BootpInv, BootpHandler PROVE BootpInv'
    OBVIOUS
<1>1. /\ bootp.net = "continue" /\ bootp.client = "bootp" /\ area' = <<>> /\ taken' = taken \o area /\ asked' = asked
      /\ misread' = misread /\ misread = FALSE
    BY DEF BootpHandler, TakeReply, BootpInv
<1>2. PICK head \in ReplyHeads, next \in Autoload :
          /\ params' = OptionsProcess(BootpCopyNetParams(params, head, head.file), VendorOptions(Bytes_(area)), FALSE)
          /\ bootp' = [bootp EXCEPT !.net = next]
    BY DEF BootpHandler
<1>3. bootp' \in BootpStates /\ bootp'.net = next /\ bootp'.client = "bootp" /\ next # "idle"
    BY <1>1, <1>2 DEF BootpInv, BootpStates, Autoload
<1>4. Knows(params, taken, FALSE)
    BY <1>1 DEF BootpInv
<1>5. Knows(BootpCopyNetParams(params, head, head.file), taken, FALSE)
    BY <1>4, CopyKeeps
<1>6. Knows(params', taken', FALSE) /\ taken' \in Seq(Offered)
    BY <1>1, <1>2, <1>5, ReplyTold DEF VendorOptions
<1>7. DOMAIN params' = ParamFields
    BY <1>6 DEF Knows
<1>8. <<>> \in Seq(Offered)
    BY EmptySeq
<1> QED
    BY <1>1, <1>3, <1>6, <1>7, <1>8 DEF BootpInv, AskedAsState

(* What a DHCP reply tells.                                                *)
LEMMA DhcpTold ==
    ASSUME BootpInv, bootp.client = "dhcp", NEW head \in ReplyHeads, NEW stray \in ReadOutOfStep,
           NEW q, q = DhcpParams(head, stray)
    PROVE  /\ taken \o area \in Seq(Offered) /\ q.ip = head.yiaddr /\ q.ip \in Nat \ {0} /\ Typed(q)
           /\ ~(misread \/ Padded(area)) => Knows(q, taken \o area, TRUE)
<1> DEFINE inStep == OptionsProcess(params, ReadInStep, TRUE)
           par == OptionsProcess(inStep, stray, TRUE)
           file == BootFileOf(head.file, ReadInStep \o stray)
           os == taken \o area
           up == UpToPad(area)
<1>1. q = BootpCopyNetParams(par, head, file)
    BY DEF DhcpParams
<1>2. os \in Seq(Offered)
    BY ConcatProperties DEF BootpInv
<1>3. up \in Seq(Offered) /\ NoPads(up) /\ (~Padded(area) => up = area)
    BY UpToPadIs DEF BootpInv
<1>4. ReadInStep = AllParsed(up) /\ ReadInStep \in Seq(OptionData)
    <2> HIDE DEF up
    <2>1. up \in Seq(Wire) /\ FALSE \in BOOLEAN
        BY <1>3, OfferedOptions, SeqMonotonic
    <2>2. OptionsIn(Bytes_(up), FALSE) = AllParsed(up)
        BY <1>3, <2>1, OptionsAreFound
    <2>3. ReadInStep = OptionsIn(Bytes_(up), FALSE)
        BY DEF ReadInStep, DhcpOptions, up
    <2> QED
        BY <1>3, <2>1, <2>2, <2>3, AllParsedTyped
<1>5. stray \in Seq(OptionData) /\ (~Padded(area) => stray = <<>>)
    <2>1. Strays \subseteq Seq(OptionData) /\ <<>> \in Seq(OptionData)
        BY BootpAssumption, EmptySeq DEF OptionData
    <2> QED
        BY <2>1 DEF ReadOutOfStep
<1>6. Typed(params)
    BY DEF BootpInv, Typed
<1> HIDE DEF os, up
<1>7. Typed(inStep) /\ Typed(par)
    BY <1>4, <1>5, <1>6, OptionsTyped
<1>8. ASSUME ~(misread \/ Padded(area))
      PROVE  Knows(par, os, TRUE)
    <2>1. Knows(params, taken, TRUE) /\ TRUE \in BOOLEAN /\ taken \in Seq(Offered) /\ area \in Seq(Offered)
        BY <1>8 DEF BootpInv
    <2>2. up = area /\ NoPads(area) /\ stray = <<>> /\ ReadInStep = AllParsed(area)
        BY <1>3, <1>4, <1>5, <1>8
    <2>3. Knows(OptionsProcess(params, AllParsed(area), TRUE), taken \o area, TRUE)
        BY <2>1, <2>2, KnowsAll
    <2>4. Knows(inStep, os, TRUE)
        BY <2>2, <2>3 DEF os
    <2>5. par = inStep
        BY <2>2, ProcessNothing
    <2> QED
        BY <2>4, <2>5
<1> HIDE DEF par, file, inStep
<1>9. Typed(q) /\ q.ip = head.yiaddr
    BY <1>1, <1>7, CopyTyped
<1>10. ASSUME ~(misread \/ Padded(area))
       PROVE  Knows(q, os, TRUE)
    <2>1. TRUE \in BOOLEAN /\ Knows(par, os, TRUE)
        BY <1>8, <1>10
    <2>2. \A dhcp \in BOOLEAN : Knows(par, os, dhcp) => Knows(q, os, dhcp)
        BY <1>1, CopyKeeps
    <2> QED
        BY <2>1, <2>2
<1>11. head.yiaddr \in Nat \ {0}
    BY BootpAssumption
<1> QED
    BY <1>2, <1>9, <1>10, <1>11 DEF os

LEMMA DhcpOfferKeeps == BootpInv /\ DhcpOffer => BootpInv'
<1> SUFFICES ASSUME BootpInv, DhcpOffer PROVE BootpInv'
    OBVIOUS
<1>1. /\ bootp.net = "continue" /\ bootp.client = "dhcp" /\ area' = <<>> /\ taken' = taken \o area
      /\ misread' = (misread \/ Padded(area))
    BY DEF DhcpOffer, TakeReply, TakeDhcpReply
<1>2. PICK head \in ReplyHeads, stray \in ReadOutOfStep :
          params' = DhcpParams(head, stray) /\ asked' = DhcpExtended(3, params'.dhcpServer, head.yiaddr)
    BY DEF DhcpOffer
<1>3. bootp' = [bootp EXCEPT !.state = "REQUESTING"]
    BY DEF DhcpOffer
<1>4. bootp' \in BootpStates /\ bootp'.net = "continue" /\ bootp'.client = "dhcp" /\ bootp'.state = "REQUESTING"
    BY <1>1, <1>3 DEF BootpInv, BootpStates
<1>5. /\ taken' \in Seq(Offered) /\ params'.ip = head.yiaddr /\ params'.ip \in Nat \ {0} /\ Typed(params')
      /\ ~misread' => Knows(params', taken', TRUE)
    BY <1>1, <1>2, DhcpTold
<1>6. <<>> \in Seq(Offered) /\ misread' \in BOOLEAN
    BY <1>1, EmptySeq DEF Padded, BootpInv
<1>7. AskedAsState'
    BY <1>2, <1>4, <1>5 DEF AskedAsState
<1> QED
    BY <1>1, <1>4, <1>5, <1>6, <1>7 DEF BootpInv, Typed

LEMMA DhcpAckKeeps == BootpInv /\ DhcpAck => BootpInv'
<1> SUFFICES ASSUME BootpInv, DhcpAck PROVE BootpInv'
    OBVIOUS
<1>1. /\ bootp.net = "continue" /\ bootp.client = "dhcp" /\ bootp.state = "REQUESTING"
      /\ area' = <<>> /\ taken' = taken \o area /\ asked' = asked
      /\ misread' = (misread \/ Padded(area))
    BY DEF DhcpAck, TakeReply, TakeDhcpReply
<1>2. PICK head \in ReplyHeads, next \in Autoload, stray \in ReadOutOfStep :
          params' = DhcpParams(head, stray) /\ bootp' = [bootp EXCEPT !.state = "BOUND", !.net = next]
    BY DEF DhcpAck
<1>3. bootp' \in BootpStates /\ bootp'.net = next /\ next # "idle" /\ bootp'.client = "dhcp" /\ bootp'.state = "BOUND"
    BY <1>1, <1>2 DEF BootpInv, BootpStates, Autoload
<1>4. taken' \in Seq(Offered) /\ Typed(params') /\ (~misread' => Knows(params', taken', TRUE))
    BY <1>1, <1>2, DhcpTold
<1>5. <<>> \in Seq(Offered) /\ misread' \in BOOLEAN
    BY <1>1, EmptySeq DEF Padded, BootpInv
<1>6. \E s \in Nat, a \in Nat \ {0} : asked' = DhcpExtended(3, s, a)
    <2>1. params.ip \in Nat \ {0} /\ asked = DhcpExtended(3, params.dhcpServer, params.ip)
        BY <1>1 DEF BootpInv, AskedAsState
    <2>2. params.dhcpServer \in Nat
        BY <1>1 DEF BootpInv
    <2> QED
        BY <1>1, <2>1, <2>2
<1>7. AskedAsState'
    BY <1>3, <1>6 DEF AskedAsState
<1> QED
    BY <1>1, <1>3, <1>4, <1>5, <1>7 DEF BootpInv, Typed

LEMMA RarpReplyKeeps == BootpInv /\ RarpHandler => BootpInv'
<1> SUFFICES ASSUME BootpInv, RarpHandler PROVE BootpInv'
    OBVIOUS
<1>1. bootp.net = "continue" /\ bootp.client = "rarp" /\ UNCHANGED <<area, taken, asked, misread>> /\ misread = FALSE
    BY DEF RarpHandler, BootpInv
<1>2. PICK head \in ReplyHeads, next \in Autoload :
          /\ params' = [params EXCEPT !.ip = head.yiaddr, !.server = IF @ = 0 THEN head.siaddr ELSE @]
          /\ bootp' = [bootp EXCEPT !.net = next]
    BY DEF RarpHandler
<1>3. bootp' \in BootpStates /\ bootp'.net = next /\ next # "idle" /\ bootp'.client = "rarp"
    BY <1>1, <1>2 DEF BootpInv, BootpStates, Autoload
<1>4. DOMAIN params = ParamFields /\ Knows(params, taken, FALSE)
    BY <1>1 DEF BootpInv, Knows
<1>5. DOMAIN params' = DOMAIN params /\ \A f \in {"mask", "gateway", "dns", "host", "root", "dhcpServer"} : params'[f] = params[f]
    BY <1>2, <1>4 DEF ParamFields
<1>6. Knows(params', taken, FALSE)
    BY <1>4, <1>5, KnowsStill
<1> QED
    BY <1>1, <1>3, <1>4, <1>5, <1>6 DEF BootpInv, AskedAsState

LEMMA BootpSteps == BootpInv /\ [BootpNext]_optionVars => BootpInv'
<1> SUFFICES ASSUME BootpInv, [BootpNext]_optionVars PROVE BootpInv'
    OBVIOUS
<1>1. CASE UNCHANGED optionVars
    BY <1>1 DEF optionVars, BootpInv, AskedAsState
<1> QED
    BY <1>1, StartKeeps, TriesKeep, AddKeeps, BootpReplyKeeps, DhcpOfferKeeps, DhcpAckKeeps, RarpReplyKeeps DEF BootpNext

-----------------------------------------------------------------------------
(* What the invariant says of the parameters and the requests.             *)

LEMMA KnownIsGiven == BootpInv => ParamsAreGiven
<1> SUFFICES ASSUME BootpInv, ~misread PROVE ParamsAreGiven
    BY DEF ParamsAreGiven
<1> DEFINE dhcp == bootp.client = "dhcp"
<1>1. taken \in Seq(Offered) /\ DOMAIN taken = 1 .. Len(taken) /\ Len(taken) \in Nat /\ dhcp \in BOOLEAN
    BY LenProperties DEF BootpInv
<1>2. ASSUME NEW c \in Codes(dhcp)
      PROVE  params[FieldOf(c)] = IF Given(c) = {} THEN Unknown(c) ELSE ReadAs(c, Counts(c))
    <2>1. PICK i \in 0 .. Len(taken) :
              CountsAt(taken, dhcp, c, i) /\ params[FieldOf(c)] = IF i = 0 THEN Unknown(c) ELSE ReadAs(c, taken[i])
        BY <1>2 DEF BootpInv, Knows
    <2>2. CASE i = 0
        <3>1. Given(c) = {}
            BY <1>1, <2>1, <2>2 DEF CountsAt, Given
        <3> QED
            BY <2>1, <2>2, <3>1
    <2>3. CASE i # 0
        <3>1. /\ i \in DOMAIN taken /\ taken[i][1] = c /\ i \in Nat
              /\ \A j \in DOMAIN taken : taken[j][1] = c => IF dhcp THEN j <= i ELSE i <= j
            BY <1>1, <2>1, <2>3 DEF CountsAt
        <3>2. i \in Given(c) /\ \A j \in Given(c) : j \in Nat /\ IF dhcp THEN i >= j ELSE i <= j
            BY <1>1, <3>1 DEF Given
        <3>3. CASE dhcp
            <4>1. \A x \in Given(c) : (\A y \in Given(c) : x >= y) => x = i
                BY <3>1, <3>2, <3>3
            <4>2. Max(Given(c)) = i
                BY <3>2, <3>3, <4>1 DEF Max
            <4> QED
                BY <2>1, <2>3, <3>2, <3>3, <4>2 DEF Counts
        <3>4. CASE ~dhcp
            <4>1. \A x \in Given(c) : (\A y \in Given(c) : x <= y) => x = i
                BY <3>1, <3>2, <3>4
            <4>2. Min(Given(c)) = i
                BY <3>2, <3>4, <4>1 DEF Min
            <4> QED
                BY <2>1, <2>3, <3>2, <3>4, <4>2 DEF Counts
        <3> QED
            BY <3>3, <3>4
    <2> QED
        BY <2>2, <2>3
<1>3. ASSUME NEW c \in Codes(dhcp), Given(c) # {}
      PROVE  Counts(c) \in Seq(Nat) /\ WellFormed(Counts(c)) /\ Counts(c)[1] = c
    <2>1. PICK i \in 0 .. Len(taken) : CountsAt(taken, dhcp, c, i)
        BY <1>3 DEF BootpInv, Knows
    <2>2. \E i0 \in DOMAIN taken : Counts(c) = taken[i0] /\ taken[i0][1] = c
        <3>1. i # 0
            BY <1>1, <1>3, <2>1 DEF CountsAt, Given
        <3>2. /\ i \in DOMAIN taken /\ taken[i][1] = c /\ i \in Nat
              /\ \A j \in DOMAIN taken : taken[j][1] = c => IF dhcp THEN j <= i ELSE i <= j
            BY <1>1, <2>1, <3>1 DEF CountsAt
        <3>3. i \in Given(c) /\ \A j \in Given(c) : j \in Nat /\ IF dhcp THEN i >= j ELSE i <= j
            BY <1>1, <3>2 DEF Given
        <3>4. dhcp => Max(Given(c)) \in Given(c)
            BY <3>3 DEF Max
        <3>5. ~dhcp => Min(Given(c)) \in Given(c)
            BY <3>3 DEF Min
        <3> QED
            BY <3>4, <3>5 DEF Counts, Given
    <2>3. PICK i0 \in DOMAIN taken : Counts(c) = taken[i0] /\ taken[i0][1] = c
        BY <2>2
    <2>4. taken[i0] \in Offered
        BY <1>1, ElementOfSeq
    <2>5. taken[i0] # <<0>>
        BY <1>1, <2>3, <2>4, ReadIsKnown
    <2> QED
        BY <2>3, <2>4, <2>5, WireIs DEF Offered
<1> HIDE DEF dhcp
<1>4. ASSUME NEW c \in Codes(dhcp), c \notin {12, 17}
      PROVE  params[FieldOf(c)] = AddressGiven(c)
    <2>1. Given(c) # {} => ReadAs(c, Counts(c)) = Counts(c)[3]
        <3> SUFFICES ASSUME Given(c) # {} PROVE ReadAs(c, Counts(c)) = Counts(c)[3]
            OBVIOUS
        <3>1. Counts(c) \in Seq(Nat) /\ WellFormed(Counts(c))
            BY <1>3
        <3>2. 1 \in 1 .. Len(Counts(c)) - 2 /\ \A i \in 1 .. Len(Counts(c)) - 2 : SubSeq(Counts(c), 3, Len(Counts(c)))[i] = Counts(c)[i + 2]
            BY <3>1, DataIs
        <3> QED
            BY <1>4, <3>2 DEF ReadAs
    <2> QED
        BY <1>2, <1>4, <2>1 DEF AddressGiven, Unknown
<1>5. ASSUME NEW c \in Codes(dhcp), c \in {12, 17}
      PROVE  params[FieldOf(c)] = TextGiven(c)
    <2>1. ASSUME Given(c) # {}
          PROVE  ReadAs(c, Counts(c)) = TextGiven(c)
        <3> DEFINE all == SubSeq(Counts(c), 3, Len(Counts(c)))
        <3>1. Len(all) \in Nat /\ NameMax \in Nat
            BY <1>3, <2>1, DataIs, BootpAssumption
        <3>2. ReadAs(c, Counts(c)) = SubSeq(all, 1, truncate_sz(NameMax, Len(all)))
            BY <1>5 DEF ReadAs, Text
        <3>3. TextGiven(c) = SubSeq(all, 1, IF Len(all) < NameMax THEN Len(all) ELSE NameMax - 1)
            BY <2>1 DEF TextGiven
        <3> HIDE DEF all
        <3>4. truncate_sz(NameMax, Len(all)) = IF Len(all) < NameMax THEN Len(all) ELSE NameMax - 1
            BY <3>1 DEF truncate_sz
        <3> QED
            BY <3>2, <3>3, <3>4
    <2> QED
        BY <1>2, <1>5, <2>1 DEF TextGiven, Unknown
<1>6. {1, 3, 6, 12, 17} \subseteq Codes(dhcp) /\ (dhcp => 54 \in Codes(dhcp))
    BY DEF Codes
<1>7. /\ params.mask = AddressGiven(1) /\ params.gateway = AddressGiven(3) /\ params.dns = AddressGiven(6)
      /\ params.host = TextGiven(12) /\ params.root = TextGiven(17)
      /\ dhcp => params.dhcpServer = AddressGiven(54)
    <2>1. /\ params[FieldOf(1)] = AddressGiven(1) /\ params[FieldOf(3)] = AddressGiven(3) /\ params[FieldOf(6)] = AddressGiven(6)
          /\ params[FieldOf(12)] = TextGiven(12) /\ params[FieldOf(17)] = TextGiven(17)
          /\ dhcp => params[FieldOf(54)] = AddressGiven(54)
        BY <1>4, <1>5, <1>6
    <2>2. /\ FieldOf(1) = "mask" /\ FieldOf(3) = "gateway" /\ FieldOf(6) = "dns" /\ FieldOf(12) = "host"
          /\ FieldOf(17) = "root" /\ FieldOf(54) = "dhcpServer"
        BY DEF FieldOf
    <2> QED
        BY <2>1, <2>2
<1> QED
    BY <1>7 DEF ParamsAreGiven, dhcp

-----------------------------------------------------------------------------
(* Requests are read as replies are.                                       *)

AskingFor(type, server, address) ==
    <<<<53, 1, type>>, <<57, 2, 2, 64>>>> \o Named(54, server) \o Named(50, address) \o <<<<55, 6, 1, 3, 6, 12, 13, 17>>>>

PutOf(c, x) == IF x = 0 THEN {} ELSE {<<c, 1, x>>}

AskingHas(os, type, server, address) ==
    /\ os \in Seq(Wire) /\ NoPads(os) /\ 1 \in 1 .. Len(os) /\ os[1] = <<53, 1, type>>
    /\ Range(os) = {<<53, 1, type>>, <<57, 2, 2, 64>>, <<55, 6, 1, 3, 6, 12, 13, 17>>}
                        \cup PutOf(54, server) \cup PutOf(50, address)

(* What stands under a code.                                               *)
DataUnder(options, c) == {options[i].data : i \in OfCode(options, c)}

LEMMA FirstStays ==
    ASSUME NEW S, NEW s \in Seq(S), NEW t \in Seq(S), Len(s) > 0
    PROVE  /\ s \o t \in Seq(S) /\ Len(s \o t) \in Nat /\ Len(s \o t) > 0 /\ (s \o t)[1] = s[1]
           /\ Range(s \o t) = Range(s) \cup Range(t)
<1>1. Len(s) \in Nat /\ Len(t) \in Nat
    BY LenProperties
<1>2. 1 \in 1 .. Len(s) + Len(t) /\ 1 <= Len(s)
    BY <1>1
<1>3. /\ s \o t \in Seq(S) /\ Len(s \o t) = Len(s) + Len(t)
      /\ \A i \in 1 .. Len(s) + Len(t) : (s \o t)[i] = IF i <= Len(s) THEN s[i] ELSE t[i - Len(s)]
    BY ConcatProperties
<1>4. Range(s \o t) = Range(s) \cup Range(t)
    BY RangeConcatenation
<1> QED
    BY <1>1, <1>2, <1>3, <1>4

LEMMA RangesOf ==
    /\ Range(<<>>) = {}
    /\ \A x : Range(<<x>>) = {x}
    /\ \A x, y : Range(<<x, y>>) = {x, y}
<1>1. Range(<<>>) = {}
    BY DEF Range
<1>2. ASSUME NEW x PROVE Range(<<x>>) = {x}
    BY DEF Range
<1>3. ASSUME NEW x, NEW y PROVE Range(<<x, y>>) = {x, y}
    BY DEF Range
<1> QED
    BY <1>1, <1>2, <1>3

LEMMA TriplesAre ==
    ASSUME NEW c \in Nat, c \notin {0, OptEnd}, NEW x \in Nat
    PROVE  /\ <<c, 1, x>> \in Wire /\ <<c, 1, x>> # <<0>> /\ (<<c, 1, x>>)[1] = c
           /\ SubSeq(<<c, 1, x>>, 3, Len(<<c, 1, x>>)) = <<x>>
<1> DEFINE o == <<c, 1, x>>
<1>1. o \in Seq(Nat) /\ Len(o) = 3 /\ o[1] = c /\ o[2] = 1 /\ o[3] = x
    OBVIOUS
<1>2. <<x>> \in Seq(Nat) /\ Len(<<x>>) = 1 /\ <<x>>[1] = x /\ Len(<<0>>) = 1
    OBVIOUS
<1> HIDE DEF o
<1>3. WellFormed(o)
    BY <1>1 DEF WellFormed
<1>4. o \in Wire /\ o # <<0>>
    BY <1>1, <1>2, <1>3 DEF Wire
<1> DEFINE data == SubSeq(o, 3, Len(o))
<1>5. data \in Seq(Nat) /\ Len(data) = 1 /\ data[1] = x
    <2>1. /\ data \in Seq(Nat) /\ Len(data) = Len(o) - 2
          /\ \A i \in 1 .. Len(o) - 2 : data[i] = o[i + 2]
        BY <1>1, <1>3, DataIs
    <2>2. Len(o) - 2 = 1 /\ 1 \in 1 .. Len(o) - 2 /\ 1 + 2 = 3
        BY <1>1
    <2> QED
        BY <1>1, <2>1, <2>2
<1> HIDE DEF data
<1>6. \A i \in 1 .. Len(data) : data[i] = <<x>>[i]
    BY <1>2, <1>5
<1>7. data = <<x>>
    BY <1>2, <1>5, <1>6, SeqEqual
<1> QED
    BY <1>1, <1>4, <1>7 DEF o, data

LEMMA AskingIs ==
    ASSUME NEW type \in Nat, NEW server \in Nat, NEW address \in Nat
    PROVE  AskingHas(AskingFor(type, server, address), type, server, address)
<1> DEFINE typed == <<53, 1, type>>
           sized == <<57, 2, 2, 64>>
           listed == <<55, 6, 1, 3, 6, 12, 13, 17>>
           head == <<typed, sized>>
           tail == <<listed>>
           ns == Named(54, server)
           na == Named(50, address)
           os == AskingFor(type, server, address)
<1>1. typed \in Wire /\ typed # <<0>>
    <2>1. 53 \in Nat /\ 53 \notin {0, OptEnd}
        BY DEF OptEnd
    <2> QED
        BY <2>1, TriplesAre
<1>2. sized \in Wire /\ sized # <<0>>
    <2>1. sized \in Seq(Nat) /\ Len(sized) = 4 /\ sized[1] = 57 /\ sized[2] = 2 /\ Len(<<0>>) = 1
        OBVIOUS
    <2> HIDE DEF sized
    <2>2. WellFormed(sized)
        BY <2>1 DEF WellFormed, OptEnd
    <2> QED
        BY <2>1, <2>2 DEF Wire
<1>3. listed \in Wire /\ listed # <<0>>
    <2>1. listed \in Seq(Nat) /\ Len(listed) = 8 /\ listed[1] = 55 /\ listed[2] = 6 /\ Len(<<0>>) = 1
        OBVIOUS
    <2> HIDE DEF listed
    <2>2. WellFormed(listed)
        BY <2>1 DEF WellFormed, OptEnd
    <2> QED
        BY <2>1, <2>2 DEF Wire
<1>4. ASSUME NEW c \in {50, 54}, NEW x \in Nat
      PROVE  /\ Named(c, x) \in Seq(Wire) /\ Range(Named(c, x)) = PutOf(c, x)
             /\ \A o \in PutOf(c, x) : o # <<0>>
    <2>1. c \in Nat /\ c \notin {0, OptEnd}
        BY DEF OptEnd
    <2> DEFINE o == <<c, 1, x>>
    <2>2. o \in Wire /\ o # <<0>>
        BY <2>1, TriplesAre
    <2> HIDE DEF o
    <2>3. <<o>> \in Seq(Wire) /\ <<>> \in Seq(Wire) /\ Range(<<o>>) = {o} /\ Range(<<>>) = {}
        BY <2>2, RangesOf
    <2> QED
        BY <2>2, <2>3 DEF Named, PutOf, o
<1>5. ns \in Seq(Wire) /\ na \in Seq(Wire) /\ Range(ns) = PutOf(54, server) /\ Range(na) = PutOf(50, address)
    BY <1>4
<1>6. (\A o \in PutOf(54, server) : o # <<0>>) /\ (\A o \in PutOf(50, address) : o # <<0>>)
    BY <1>4
<1> HIDE DEF typed, sized, listed, ns, na
<1>7. head \in Seq(Wire) /\ Len(head) = 2 /\ head[1] = typed /\ Range(head) = {typed, sized}
    BY <1>1, <1>2, RangesOf
<1>8. tail \in Seq(Wire) /\ Range(tail) = {listed}
    BY <1>3, RangesOf
<1>9. os = ((head \o ns) \o na) \o tail
    BY DEF AskingFor, typed, sized, listed, ns, na
<1> HIDE DEF head, tail, os
<1>10. Len(head) > 0
    BY <1>7
<1>11. head \o ns \in Seq(Wire) /\ Len(head \o ns) > 0 /\ (head \o ns)[1] = typed /\ Range(head \o ns) = Range(head) \cup Range(ns)
    BY <1>5, <1>7, <1>10, FirstStays
<1>12. /\ os \in Seq(Wire) /\ 1 \in 1 .. Len(os) /\ os[1] = typed
       /\ Range(os) = ((Range(head) \cup Range(ns)) \cup Range(na)) \cup Range(tail)
    <2> DEFINE front == head \o ns
               most == front \o na
    <2>1. front \in Seq(Wire) /\ Len(front) > 0 /\ front[1] = typed /\ Range(front) = Range(head) \cup Range(ns)
        BY <1>11
    <2>2. os = most \o tail
        BY <1>9
    <2> HIDE DEF front
    <2>3. most \in Seq(Wire) /\ Len(most) > 0 /\ most[1] = typed /\ Range(most) = Range(front) \cup Range(na)
        BY <1>5, <2>1, FirstStays
    <2> HIDE DEF most
    <2>4. /\ os \in Seq(Wire) /\ Len(os) \in Nat /\ Len(os) > 0 /\ os[1] = typed
          /\ Range(os) = Range(most) \cup Range(tail)
        BY <1>8, <2>2, <2>3, FirstStays
    <2> QED
        BY <2>1, <2>3, <2>4
<1>13. Range(os) = {typed, sized, listed} \cup PutOf(54, server) \cup PutOf(50, address)
    BY <1>5, <1>7, <1>8, <1>12
<1>14. NoPads(os)
    <2>1. \A i \in DOMAIN os : os[i] \in Range(os)
        BY DEF Range
    <2> QED
        BY <1>1, <1>2, <1>3, <1>6, <1>13, <2>1 DEF NoPads
<1> QED
    BY <1>12, <1>13, <1>14 DEF AskingHas, os, typed, sized, listed

(* What is found under a code is what was put under it.                    *)
LEMMA FoundUnder ==
    ASSUME NEW os \in Seq(Wire), NoPads(os), NEW c
    PROVE  /\ OfCode(AllParsed(os), c) = {i \in 1 .. Len(os) : os[i][1] = c}
           /\ \A mine : {p \in Range(os) : p[1] = c} = {mine} =>
                 DataUnder(AllParsed(os), c) = {SubSeq(mine, 3, Len(mine))}
<1> DEFINE g == AllParsed(os)
<1>1. DOMAIN g = 1 .. Len(os) /\ DOMAIN os = 1 .. Len(os)
    BY LenProperties DEF AllParsed
<1>2. \A i \in 1 .. Len(os) : g[i].code = os[i][1] /\ g[i].data = SubSeq(os[i], 3, Len(os[i]))
    <2> SUFFICES ASSUME NEW i \in 1 .. Len(os)
                 PROVE  g[i].code = os[i][1] /\ g[i].data = SubSeq(os[i], 3, Len(os[i]))
        OBVIOUS
    <2>1. os[i] # <<0>>
        BY <1>1 DEF NoPads
    <2>2. g[i] = Parsed(os[i])
        BY DEF AllParsed
    <2> HIDE DEF g
    <2> QED
        BY <2>1, <2>2 DEF Parsed
<1> HIDE DEF g
<1>3. OfCode(g, c) = {i \in 1 .. Len(os) : os[i][1] = c}
    BY <1>1, <1>2 DEF OfCode
<1>4. ASSUME NEW mine, {p \in Range(os) : p[1] = c} = {mine}
      PROVE  {g[i].data : i \in OfCode(g, c)} = {SubSeq(mine, 3, Len(mine))}
    <2> DEFINE of == OfCode(g, c)
               data == SubSeq(mine, 3, Len(mine))
    <2>1. \A i \in of : os[i] \in Range(os) /\ os[i][1] = c
        BY <1>1, <1>3 DEF Range
    <2>2. \A i \in of : os[i] = mine /\ i \in 1 .. Len(os)
        BY <1>3, <1>4, <2>1
    <2>3. \A i \in of : g[i].data = data
        BY <1>2, <2>2
    <2>4. mine \in Range(os) /\ mine[1] = c
        BY <1>4
    <2>5. \E i \in 1 .. Len(os) : os[i] = mine
        BY <1>1, <2>4 DEF Range
    <2>6. of # {}
        BY <1>3, <2>4, <2>5
    <2> HIDE DEF of, data
    <2>7. {g[i].data : i \in of} = {data}
        BY <2>3, <2>6
    <2> QED
        BY <2>7 DEF of, data
<1>5. \A mine : {p \in Range(os) : p[1] = c} = {mine} => DataUnder(g, c) = {SubSeq(mine, 3, Len(mine))}
    BY <1>4 DEF DataUnder
<1> QED
    BY <1>3, <1>5 DEF g

LEMMA DhcpRequestRead ==
    ASSUME NEW type \in Nat, NEW server \in Nat, NEW address \in Nat, NEW b, b = DhcpExtended(type, server, address)
    PROVE  /\ DhcpMessageType(b) = type
           /\ address # 0 => DataUnder(DhcpOptions(b), 50) = {<<address>>}
           /\ server # 0 => DataUnder(DhcpOptions(b), 54) = {<<server>>}
<1> DEFINE os == AskingFor(type, server, address)
           typed == <<53, 1, type>>
           sized == <<57, 2, 2, 64>>
           listed == <<55, 6, 1, 3, 6, 12, 13, 17>>
<1>1. /\ os \in Seq(Wire) /\ NoPads(os) /\ 1 \in 1 .. Len(os) /\ os[1] = typed
      /\ Range(os) = {typed, sized, listed} \cup PutOf(54, server) \cup PutOf(50, address)
    <2>1. AskingHas(os, type, server, address)
        BY AskingIs
    <2> HIDE DEF os
    <2> QED
        BY <2>1 DEF AskingHas
<1>2. b = Bytes_(os)
    BY DEF DhcpExtended, AskingFor
<1> HIDE DEF os
<1>3. DhcpOptions(b) = AllParsed(os)
    BY <1>1, <1>2, OptionsAreFound DEF DhcpOptions
<1>4. typed[1] = 53 /\ sized[1] = 57 /\ listed[1] = 55
    OBVIOUS
<1>5. 50 \in Nat /\ 53 \in Nat /\ 54 \in Nat /\ OptEnd \notin {50, 53, 54}
    BY DEF OptEnd
<1>6. SubSeq(typed, 3, Len(typed)) = <<type>>
    BY <1>5, TriplesAre
<1> HIDE DEF typed, sized, listed
<1>7. DhcpMessageType(b) = type
    <2> DEFINE types == OfCode(AllParsed(os), 53)
    <2>1. types = {i \in 1 .. Len(os) : os[i][1] = 53}
        BY <1>1, FoundUnder
    <2>2. 1 \in types /\ \A i \in types : i \in Nat /\ 1 <= i
        BY <1>1, <1>4, <2>1
    <2> HIDE DEF types
    <2>3. \A x \in types : (\A y \in types : x <= y) => x = 1
        BY <2>2
    <2>4. Min(types) = 1
        BY <2>2, <2>3 DEF Min
    <2>5. typed # <<0>>
        BY <1>1 DEF NoPads
    <2>6. AllParsed(os)[1] = [code |-> typed[1], data |-> SubSeq(typed, 3, Len(typed))]
        BY <1>1, <2>5 DEF AllParsed, Parsed
    <2>7. AllParsed(os)[1].data = <<type>>
        BY <1>6, <2>6
    <2>8. DhcpMessageType(b) = IF types = {} THEN -1 ELSE AllParsed(os)[Min(types)].data[1]
        BY <1>3 DEF DhcpMessageType, types
    <2>9. DhcpMessageType(b) = AllParsed(os)[1].data[1]
        BY <2>2, <2>4, <2>8
    <2>10. <<type>>[1] = type
        OBVIOUS
    <2> QED
        BY <2>7, <2>9, <2>10
<1>8. \A c, mine : {p \in Range(os) : p[1] = c} = {mine} => DataUnder(AllParsed(os), c) = {SubSeq(mine, 3, Len(mine))}
    BY <1>1, FoundUnder
<1>9. ASSUME address # 0
      PROVE  DataUnder(DhcpOptions(b), 50) = {<<address>>}
    <2> DEFINE mine == <<50, 1, address>>
    <2>1. mine[1] = 50 /\ SubSeq(mine, 3, Len(mine)) = <<address>>
        BY <1>5, TriplesAre
    <2>2. \A o \in PutOf(54, server) : o[1] = 54
        BY DEF PutOf
    <2>3. PutOf(50, address) = {mine}
        BY <1>9 DEF PutOf
    <2> HIDE DEF mine
    <2>4. {p \in Range(os) : p[1] = 50} = {mine}
        BY <1>1, <1>4, <2>1, <2>2, <2>3
    <2>5. DataUnder(AllParsed(os), 50) = {SubSeq(mine, 3, Len(mine))}
        BY <1>8, <2>4
    <2> QED
        BY <1>3, <2>1, <2>5
<1>10. ASSUME server # 0
      PROVE  DataUnder(DhcpOptions(b), 54) = {<<server>>}
    <2> DEFINE mine == <<54, 1, server>>
    <2>1. mine[1] = 54 /\ SubSeq(mine, 3, Len(mine)) = <<server>>
        BY <1>5, TriplesAre
    <2>2. \A o \in PutOf(50, address) : o[1] = 50
        BY DEF PutOf
    <2>3. PutOf(54, server) = {mine}
        BY <1>10 DEF PutOf
    <2> HIDE DEF mine
    <2>4. {p \in Range(os) : p[1] = 54} = {mine}
        BY <1>1, <1>4, <2>1, <2>2, <2>3
    <2>5. DataUnder(AllParsed(os), 54) = {SubSeq(mine, 3, Len(mine))}
        BY <1>8, <2>4
    <2> QED
        BY <1>3, <2>1, <2>5
<1> QED
    BY <1>7, <1>9, <1>10


LEMMA RoomIs ==
    ASSUME NEW c \in Nat, c \notin {0, OptEnd}, NEW n \in Nat \ {0}
    PROVE  Room(c, n) \in Wire /\ Room(c, n) # <<0>> /\ Room(c, n)[1] = c
<1> DEFINE zeroes == [i \in 1 .. n |-> 0]
           o == Room(c, n)
           two == <<c, n>>
<1>1. zeroes \in Seq(Nat) /\ Len(zeroes) = n
    OBVIOUS
<1>2. two \in Seq(Nat) /\ Len(two) = 2 /\ two[1] = c /\ two[2] = n /\ Len(<<0>>) = 1
    OBVIOUS
<1>3. o = two \o zeroes
    BY DEF Room
<1> HIDE DEF zeroes, two, o
<1>4. /\ o \in Seq(Nat) /\ Len(o) = 2 + n
      /\ \A i \in 1 .. 2 + n : o[i] = IF i <= 2 THEN two[i] ELSE zeroes[i - 2]
    <2>1. /\ o \in Seq(Nat) /\ Len(o) = Len(two) + Len(zeroes)
          /\ \A i \in 1 .. Len(two) + Len(zeroes) : o[i] = IF i <= Len(two) THEN two[i] ELSE zeroes[i - Len(two)]
        BY <1>1, <1>2, <1>3, ConcatProperties, Zenon
    <2> QED
        BY <1>1, <1>2, <2>1
<1>5. o[1] = c /\ o[2] = n
    <2>1. 1 \in 1 .. 2 + n /\ 2 \in 1 .. 2 + n
        OBVIOUS
    <2> QED
        BY <1>2, <1>4, <2>1
<1>6. Len(o) > 2 /\ o[2] = Len(o) - 2 /\ Len(o) # 1
    BY <1>4, <1>5
<1>7. WellFormed(o)
    BY <1>4, <1>5, <1>6 DEF WellFormed
<1> QED
    BY <1>2, <1>4, <1>5, <1>6, <1>7 DEF Wire, o

LEMMA BootpRequestRead == \A o \in ToSet(VendorOptions(BootpExtended)) : o.code \in {1, 3, 6, 12, 13, 17}
<1> DEFINE codes == {1, 3, 6, 12, 13, 17}
           r1 == Room(1, 1)
           r3 == Room(3, 1)
           r6 == Room(6, 1)
           r12 == Room(12, 3)
           r13 == Room(13, 2)
           r17 == Room(17, 3)
           os == <<r1, r3, r6, r12, r13, r17>>
           good == {o \in Wire : o # <<0>> /\ o[1] \in codes}
<1>1. \A c \in codes : c \in Nat /\ c \notin {0, OptEnd}
    BY DEF OptEnd
<1>2. r1 \in good /\ r3 \in good /\ r6 \in good /\ r12 \in good /\ r13 \in good /\ r17 \in good
    <2>1. \A c \in codes, n \in {1, 2, 3} : Room(c, n) \in Wire /\ Room(c, n) # <<0>> /\ Room(c, n)[1] = c
        <3>1. \A n \in {1, 2, 3} : n \in Nat \ {0}
            OBVIOUS
        <3> QED
            BY <1>1, <3>1, RoomIs
    <2>2. \A c \in codes, n \in {1, 2, 3} : Room(c, n) \in good
        BY <2>1
    <2> HIDE DEF good
    <2> QED
        BY <2>2
<1>3. BootpExtended = Bytes_(os)
    BY DEF BootpExtended
<1> HIDE DEF r1, r3, r6, r12, r13, r17
<1>4. \A o \in good : o \in Wire /\ Parsed(o).code \in codes
    BY DEF Parsed
<1>5. os \in Seq(good)
    <2> HIDE DEF good
    <2> QED
        BY <1>2
<1> HIDE DEF os, good
<1>6. os \in Seq(Wire)
    BY <1>4, <1>5, SeqMonotonic
<1>7. VendorOptions(BootpExtended) = AllParsed(os)
    BY <1>3, <1>6, OptionsAreFound DEF VendorOptions
<1>8. \A i \in 1 .. Len(os) : os[i] \in good
    BY <1>5, ElementOfSeq
<1>9. \A o \in ToSet(AllParsed(os)) : \E i \in 1 .. Len(os) : o = Parsed(os[i])
    BY DEF ToSet, AllParsed
<1> QED
    BY <1>4, <1>7, <1>8, <1>9

LEMMA AskedIsReadable == BootpInv => RequestIsReadable
<1> SUFFICES ASSUME BootpInv PROVE RequestIsReadable
    OBVIOUS
<1>1. bootp.client = "bootp" => \A o \in ToSet(VendorOptions(asked)) : o.code \in {1, 3, 6, 12, 13, 17}
    BY BootpRequestRead DEF BootpInv, AskedAsState
<1>2. ASSUME bootp.client = "dhcp"
      PROVE  DhcpMessageType(asked) = IF bootp.state = "SELECTING" THEN 1 ELSE 3
    <2>1. bootp.state \in {"SELECTING", "REQUESTING", "BOUND"}
        BY <1>2 DEF BootpInv, BootpStates, AskedAsState
    <2>2. 0 \in Nat /\ 1 \in Nat /\ 3 \in Nat
        OBVIOUS
    <2>3. CASE bootp.state = "SELECTING"
        <3>1. asked = DhcpExtended(1, 0, 0)
            BY <1>2, <2>3 DEF BootpInv, AskedAsState
        <3> QED
            BY <2>2, <2>3, <3>1, DhcpRequestRead
    <2>4. CASE bootp.state # "SELECTING"
        <3>1. \E s \in Nat, a \in Nat : asked = DhcpExtended(3, s, a)
            <4>1. CASE bootp.state = "REQUESTING"
                <5>1. params.dhcpServer \in Nat
                    BY <1>2 DEF BootpInv
                <5> QED
                    BY <1>2, <4>1, <5>1 DEF BootpInv, AskedAsState
            <4>2. CASE bootp.state = "BOUND"
                BY <1>2, <4>2 DEF BootpInv, AskedAsState
            <4> QED
                BY <2>1, <2>4, <4>1, <4>2
        <3> QED
            BY <2>2, <2>4, <3>1, DhcpRequestRead
    <2> QED
        BY <2>3, <2>4
<1>3. ASSUME bootp.client = "dhcp", bootp.state = "REQUESTING"
      PROVE  Said(50) = {<<params.ip>>} /\ (Given(54) # {} /\ ~misread => Said(54) = {<<Counts(54)[3]>>})
    <2> DEFINE s == params.dhcpServer
               a == params.ip
    <2>1. a \in Nat \ {0} /\ asked = DhcpExtended(3, s, a) /\ s \in Nat /\ 3 \in Nat
        BY <1>3 DEF BootpInv, AskedAsState
    <2>2. ~misread => s = AddressGiven(54)
        BY <1>3, KnownIsGiven DEF ParamsAreGiven
    <2>3. Given(54) # {} /\ ~misread => s # 0
        <3> SUFFICES ASSUME Given(54) # {}, ~misread PROVE s # 0
            OBVIOUS
        <3> DEFINE dhcp == bootp.client = "dhcp"
        <3>1. 54 \in Codes(dhcp) /\ FieldOf(54) = "dhcpServer" /\ Unknown(54) = 0 /\ dhcp \in BOOLEAN
            BY <1>3 DEF Codes, FieldOf, Unknown
        <3>2. PICK i \in 0 .. Len(taken) : CountsAt(taken, dhcp, 54, i) /\ s = IF i = 0 THEN Unknown(54) ELSE ReadAs(54, taken[i])
            BY <3>1 DEF BootpInv, Knows
        <3>3. i # 0
            BY <3>2 DEF CountsAt, Given
        <3>4. i \in 1 .. Len(taken) /\ taken[i][1] = 54 /\ taken[i] \in Offered
            BY <3>2, <3>3, LenProperties, ElementOfSeq DEF CountsAt, BootpInv
        <3> HIDE DEF dhcp
        <3>5. ReadAs(54, taken[i]) # Unknown(54)
            BY <3>1, <3>4, ReadIsKnown
        <3> QED
            BY <3>1, <3>2, <3>3, <3>5
    <2>4. Said(50) = {<<a>>} /\ (s # 0 => Said(54) = {<<s>>})
        <3> DEFINE b == asked
        <3>1. b = DhcpExtended(3, s, a) /\ a \in Nat /\ a # 0
            BY <2>1
        <3> HIDE DEF a, s, b
        <3>2. DataUnder(DhcpOptions(b), 50) = {<<a>>}
            BY <2>1, <3>1, DhcpRequestRead
        <3>3. s # 0 => DataUnder(DhcpOptions(b), 54) = {<<s>>}
            BY <2>1, <3>1, DhcpRequestRead
        <3> QED
            BY <3>2, <3>3 DEF Said, DataUnder, b
    <2>5. Given(54) # {} /\ ~misread => s = Counts(54)[3]
        BY <2>2 DEF AddressGiven
    <2> QED
        BY <2>3, <2>4, <2>5
<1> QED
    BY <1>1, <1>2, <1>3 DEF RequestIsReadable

(* OptionsAreRead: however many replies are taken, the BOOTP client, and   *)
(* the DHCP client as long as no reply had a zero between its options,     *)
(* know what the options said; and their own requests are read as they     *)
(* were meant, whatever the replies carried (bootp.c:252, :480, :718).     *)
THEOREM OptionsRead == BootpSpec => []OptionsAreRead
<1>1. BootpInit => BootpInv
    BY InitBootp
<1>2. BootpInv /\ [BootpNext]_optionVars => BootpInv'
    BY BootpSteps
<1>3. BootpInv => OptionsAreRead
    BY KnownIsGiven, AskedIsReadable DEF OptionsAreRead
<1> QED
    BY <1>1, <1>2, <1>3, PTL DEF BootpSpec

-----------------------------------------------------------------------------
(* The commands together.                                                  *)

(* Each command, whichever is chosen, does what it does alone.             *)
LEMMA CommandsAlone ==
    /\ NetworkInit => DhcpInit /\ BootpInit /\ NfsInit /\ ProbesInit
    /\ [NetworkNext]_networkVars =>
           /\ [DhcpNext]_dhcpVars /\ [BootpNext]_optionVars
           /\ [NfsNext]_nfsVars /\ [ProbesNext]_probeVars
<1>1. NetworkInit => DhcpInit /\ BootpInit /\ NfsInit /\ ProbesInit
    BY DEF NetworkInit
<1>2. [NetworkNext]_networkVars =>
          /\ [DhcpNext]_dhcpVars /\ [BootpNext]_optionVars
          /\ [NfsNext]_nfsVars /\ [ProbesNext]_probeVars
    BY DEF NetworkNext, networkVars, Driver, Httpd, DhcpCommand, BootpCommand, NfsCommand, ProbeCommand
<1> QED
    BY <1>1, <1>2

(* What a command of the network reports is so, whichever runs: the lease, *)
(* the options that come with it, the file, the VLANs and the host that    *)
(* does not answer (bootp.c, nfs.c, net.c).                                *)
THEOREM CommandsExact == NetworkSpec => []CommandsAreExact
<1> DEFINE AllInv == DhcpInv /\ BootpInv /\ NfsInv /\ ProbeInv
<1>1. NetworkInit => AllInv
    BY CommandsAlone, DhcpStarts, InitBootp, InitNfs, InitProbes
<1>2. AllInv /\ [NetworkNext]_networkVars => AllInv'
    BY CommandsAlone, DhcpKeeps, BootpSteps, NfsSteps, ProbeSteps
<1>3. AllInv => CommandsAreExact
    BY DhcpReports, KnownIsGiven, AskedIsReadable, NfsLoads, ProbesReport DEF OptionsAreRead, CommandsAreExact
<1> QED
    BY <1>1, <1>2, <1>3, PTL DEF NetworkSpec

============================================================================
