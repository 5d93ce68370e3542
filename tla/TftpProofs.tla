---------------------------- MODULE TftpProofs -----------------------------
(***************************************************************************)
(* The download for every size of file and block counter, every number of  *)
(* devices, ports, faults, starts and commands, and every choice of the    *)
(* time limits.                                                            *)
(***************************************************************************)
EXTENDS Tftp, WellFoundedInduction, TLAPS

-----------------------------------------------------------------------------
(* The values of the variables, packets and sessions included.             *)
LoopType ==
    [pc : {"idle", "restart", "rx", "time", "switch", "done"},
     state : {"CONTINUE", "RESTART", "SUCCESS", "FAIL"},
     handler : {"none", "tftp", "ignore"}, timer : {"none", "tftp", "again"},
     age : 0..(2 * Ticks + 1), restarted : BOOLEAN, devexists : BOOLEAN,
     result : {"none", "ok", "fail", "abort"}]

Requests == [type : {"RRQ"}, dev : Devices, port : Ports]
Acks == [type : {"ACK"}, dev : Devices, port : Ports, sid : 0..MaxSessions, seq : 0..(SeqSize - 1)]
ArpPackets == [type : {"arpreq", "arprep"}, dev : Devices]
Answers == [type : {"OACK", "ERROR"}, dev : Devices, port : Ports, sid : 0..MaxSessions]
Blocks == [type : {"DATA"}, dev : Devices, port : Ports, sid : 0..MaxSessions, blk : 1..FileBlocks]
Packets == Requests \cup Acks \cup ArpPackets \cup Answers \cup Blocks

EthType ==
    [cur : Devices, first : Devices \cup {-1}, wrap : BOOLEAN, halted : Devices \cup {-1}, late : SUBSET Packets]

TftpType ==
    [state : {"RRQ", "OACK", "DATA"}, port : Ports, server : 0..MaxSessions,
     block : 0..(SeqSize - 1), last : 0..(SeqSize - 1), wrap : Nat, timeouts : 0..(TIMEOUT_COUNT + 1)]

ArpType == [ether : BOOLEAN, wait : {None} \cup Requests \cup Acks, try : Int, age : 0..(Ticks + 1)]

Sessions == [dev : Devices, port : Ports, blk : 0..(FileBlocks + 1), due : BOOLEAN]

Types ==
    /\ loop \in LoopType /\ eth \in EthType /\ tftp \in TftpType /\ arp \in ArpType
    /\ img \in [mem : [MemSlots -> 0..FileBlocks], size : Nat]
    /\ net \in SUBSET Packets
    /\ server \in Seq(Sessions) /\ Len(server) <= MaxSessions
    /\ \A s \in DOMAIN server : server[s].due => server[s].blk <= FileBlocks
    /\ faults \in 0..MaxFaults

(* While NetLoop polls, a timeout is armed, and it is the one of the       *)
(* handler. TftpTimeout gives up once: until TftpStart sets the counter    *)
(* back, its timer is not armed, or not in a state that lets it expire.    *)
Polling == loop.pc \in {"rx", "time", "switch"} /\ loop.state = "CONTINUE"

Timed ==
    /\ Polling => /\ loop.timer # "none"
                  /\ loop.handler = "ignore" <=> loop.timer = "again"
                  /\ loop.handler = "tftp" <=> loop.timer = "tftp"
    /\ tftp.timeouts > TIMEOUT_COUNT => /\ loop.timer = "tftp" => loop.age = 0
                                        /\ Polling => loop.timer # "tftp"

WaitInv == Types /\ Timed

(* With one device the retry policy has nothing to change to, and with     *)
(* netretry "yes" it never gives up: NetStartAgain waits, ignoring the     *)
(* packets, and starts again.  The block counter does not wrap.            *)
OneDevice == NDev = 1 /\ netretry = "yes" /\ FileBlocks < SeqSize

LoopInv ==
    /\ loop.timer = "tftp" => loop.handler = "tftp"
    /\ loop.handler # "none" \/ loop.devexists => 0 \notin NoMac
    /\ loop.pc \in {"rx", "time", "switch"} /\ 0 \notin NoMac => loop.devexists
    /\ loop.restarted \/ loop.timer = "again" \/ loop.state = "RESTART" => eth.first = 0
    /\ loop.result = "ok" => loop.pc = "done" /\ loop.state = "SUCCESS"

(* What is in memory: the block TftpHandler acknowledges, those that an    *)
(* acknowledgement on its way names, and all those before a block on its   *)
(* way.                                                                    *)
Has(mem, k) == mem[k - 1] = k

Good(mem, p) ==
    /\ p.type = "ACK" => p.seq <= FileBlocks /\ (p.seq # 0 => Has(mem, p.seq))
    /\ p.type = "DATA" => \A k \in 1..(p.blk - 1) : Has(mem, k)

Transfer ==
    /\ loop.handler = "tftp" => /\ tftp.state = "RRQ" => tftp.block = 0
                                /\ tftp.block # 0 => Has(img.mem, tftp.block)
    /\ tftp.block <= FileBlocks /\ tftp.last <= FileBlocks
    /\ tftp.last # 0 => Has(img.mem, tftp.last)
    /\ tftp.wrap = 0

OnTheirWay == Good(img.mem, arp.wait) /\ \A p \in net : Good(img.mem, p)

Loaded ==
    /\ img.size <= FileBlocks
    /\ loop.state = "SUCCESS" => img.size = FileBlocks /\ \A k \in 1..FileBlocks : Has(img.mem, k)

ImageInv == Transfer /\ OnTheirWay /\ AckedIsStored /\ Loaded

-----------------------------------------------------------------------------
LEMMA LeastNumber ==
    ASSUME NEW T \in SUBSET Nat, T # {}
    PROVE  \E x \in T : \A y \in T : x <= y
<1> DEFINE Less == {ss \in Nat \X Nat : ss[1] < ss[2]}
<1>1. IsWellFoundedOn(Less, Nat)
    BY NatLessThanWellFounded DEF OpToRel
<1>2. PICK x \in T : \A y \in T : ~(<<y, x>> \in Less)
    BY <1>1, WFMin
<1>3. \A y \in T : <<y, x>> \in Less <=> y < x
    BY <1>2
<1>4. x \in Nat /\ T \subseteq Nat
    BY <1>2
<1> HIDE DEF Less
<1>5. \A y \in T : ~(y < x)
    BY <1>2, <1>3
<1> QED
    BY <1>4, <1>5

LEMMA ModOfSum ==
    ASSUME NEW n \in Nat \ {0}, NEW x \in Nat, x < n + n
    PROVE  x % n = IF x < n THEN x ELSE x - n
<1>1. CASE x < n
    BY <1>1
<1>2. CASE x >= n
    BY <1>2
<1> QED
    BY <1>1, <1>2

(* eth_init finds the next device that has a link.                         *)
LEMMA NextLinked ==
    ASSUME NEW c \in Devices
    PROVE  \E k \in 0..(NDev - 1) :
               /\ (c + k) % NDev \in Linked
               /\ \A j \in 0..(k - 1) : (c + j) % NDev \notin Linked
<1> DEFINE T == {k \in 0..(NDev - 1) : (c + k) % NDev \in Linked}
<1>1. PICK d \in Linked : d \in Devices
    BY TftpAssumption
<1>2. c \in 0..(NDev - 1) /\ d \in 0..(NDev - 1) /\ NDev \in Nat \ {0}
    BY <1>1, TftpAssumption DEF Devices
<1>3. PICK k \in 0..(NDev - 1) : c + k = d \/ c + k = d + NDev
    <2>1. CASE d >= c
        <3>1. d - c \in 0..(NDev - 1) /\ c + (d - c) = d
            BY <2>1, <1>2
        <3> QED
            BY <3>1
    <2>2. CASE d < c
        <3>1. (d - c) + NDev \in 0..(NDev - 1) /\ c + ((d - c) + NDev) = d + NDev
            BY <2>2, <1>2
        <3> QED
            BY <3>1
    <2> QED
        BY <2>1, <2>2, <1>2
<1>4. (c + k) % NDev = d
    <2>1. c + k \in Nat /\ c + k < NDev + NDev
        BY <1>2, <1>3
    <2>2. (c + k) % NDev = IF c + k < NDev THEN c + k ELSE (c + k) - NDev
        BY <1>2, <2>1, ModOfSum
    <2>3. (IF c + k < NDev THEN c + k ELSE (c + k) - NDev) = d
        BY <1>2, <1>3
    <2> QED
        BY <2>2, <2>3
<1>5. T \in SUBSET Nat /\ T # {}
    <2>1. k \in T
        BY <1>1, <1>3, <1>4
    <2>2. T \subseteq 0..(NDev - 1) /\ 0..(NDev - 1) \subseteq Nat
        BY <1>2
    <2> HIDE DEF T
    <2> QED
        BY <2>1, <2>2
<1>6. PICK m \in T : \A y \in T : m <= y
    BY <1>5, LeastNumber
<1>7. \A j \in 0..(m - 1) : j \notin T /\ j \in 0..(NDev - 1)
    BY <1>2, <1>6
<1> QED
    BY <1>6, <1>7

LEMMA EthInitTypes ==
    ASSUME NEW e \in EthType
    PROVE  EthInit(e) \in EthType
<1> DEFINE At(k) == (e.cur + k) % NDev
           skips == CHOOSE k \in 0..(NDev - 1) : At(k) \in Linked /\ \A j \in 0..(k - 1) : At(j) \notin Linked
<1>1. e.cur \in Devices
    BY DEF EthType
<1>2. \E k \in 0..(NDev - 1) : At(k) \in Linked /\ \A j \in 0..(k - 1) : At(j) \notin Linked
    BY <1>1, NextLinked
<1>3. At(skips) \in Devices
    <2>1. At(skips) \in Linked
        BY <1>2
    <2> QED
        BY <2>1, TftpAssumption
<1>4. EthInit(e) = [e EXCEPT !.cur = At(skips), !.wrap = @ \/ \E j \in 1..skips : At(j) = e.first]
    BY DEF EthInit
<1> HIDE DEF At, skips
<1>5. e.wrap \in BOOLEAN
    BY DEF EthType
<1> QED
    BY <1>3, <1>4, <1>5 DEF EthType

LEMMA EthTryAnotherTypes ==
    ASSUME NEW e \in EthType, NEW fr \in BOOLEAN
    PROVE  EthTryAnother(e, fr) \in EthType
<1> DEFINE next == (e.cur + 1) % NDev
           first == IF fr THEN e.cur ELSE e.first
<1>1. e.cur \in Devices /\ e.first \in Devices \cup {-1}
    BY DEF EthType
<1>2. next \in Devices
    BY <1>1, TftpAssumption DEF Devices
<1>3. EthTryAnother(e, fr) = [e EXCEPT !.cur = next, !.first = first, !.wrap = @ \/ first = next]
    BY DEF EthTryAnother
<1>4. first \in Devices \cup {-1}
    BY <1>1
<1> HIDE DEF next, first
<1> QED
    BY <1>2, <1>3, <1>4 DEF EthType

LEMMA EthAgainTypes ==
    ASSUME NEW e \in EthType, loop \in LoopType
    PROVE  EthAgain(e) \in EthType
<1> DEFINE a == EthTryAnother(e, ~loop.restarted)
           i == EthInit(a)
<1>1. a \in EthType
    BY EthTryAnotherTypes
<1> HIDE DEF a
<1>2. i \in EthType
    BY <1>1, EthInitTypes
<1> HIDE DEF i
<1>3. EthRingReset(i) \in EthType
    BY <1>2 DEF EthRingReset, EthType
<1> QED
    BY <1>3 DEF EthAgain, i, a

LEMMA HaltTypes ==
    ASSUME eth \in EthType, NEW n \in SUBSET Packets
    PROVE  EthHaltInRecv(n) \in EthType
BY DEF EthHaltInRecv, EthType

LEMMA TimerTypes ==
    ASSUME NEW l \in LoopType
    PROVE  /\ SetTftpTimer(l) \in LoopType
           /\ SetTftpTimer(l).timer = "tftp" /\ SetTftpTimer(l).age = 0
           /\ SetTftpTimer(l).pc = l.pc /\ SetTftpTimer(l).state = l.state /\ SetTftpTimer(l).handler = l.handler
           /\ SetTftpTimer(l).devexists = l.devexists /\ SetTftpTimer(l).restarted = l.restarted
           /\ SetTftpTimer(l).result = l.result
<1>1. 0 \in 0..(2 * Ticks + 1)
    BY TftpAssumption
<1> QED
    BY <1>1 DEF SetTftpTimer, LoopType

(* What NetStartAgain leaves: a restart, a failure, or the wait.           *)
LEMMA NetStartAgainDoes ==
    ASSUME loop \in LoopType, NEW l \in LoopType, NEW h \in EthType, NetStartAgain(l, h)
    PROVE  /\ eth' \in EthType /\ loop' \in LoopType /\ loop'.pc = l.pc
           /\ \/ loop'.state \in {"RESTART", "FAIL"} /\ loop'.timer = l.timer /\ loop'.age = l.age
                     /\ loop'.handler = l.handler
              \/ loop'.handler = "ignore" /\ loop'.timer = "again" /\ loop'.state = l.state
<1> DEFINE e == EthAgain(h)
<1>1. e \in EthType
    BY EthAgainTypes
<1> HIDE DEF e
<1>2. CASE netretry = "no"
    <2>1. loop' = [l EXCEPT !.state = "FAIL"] /\ eth' = h
        BY <1>2 DEF NetStartAgain
    <2> QED
        BY <2>1 DEF LoopType
<1>3. CASE netretry # "no"
    <2>1. /\ eth' = [e EXCEPT !.wrap = FALSE]
          /\ \/ loop' = [l EXCEPT !.state = "RESTART"]
             \/ loop' = [l EXCEPT !.handler = "ignore", !.timer = "again", !.age = 0]
             \/ loop' = [l EXCEPT !.state = "FAIL"]
        BY <1>3 DEF NetStartAgain, e
    <2>2. eth' \in EthType
        BY <1>1, <2>1 DEF EthType
    <2>3. 0 \in 0..(2 * Ticks + 1)
        BY TftpAssumption
    <2> QED
        BY <2>1, <2>2, <2>3 DEF LoopType
<1> QED
    BY <1>2, <1>3

-----------------------------------------------------------------------------
(* Sending puts the packet, or the question for the address, on its way.   *)
LEMMA SendDoes ==
    ASSUME NEW a \in ArpType, NEW n \in SUBSET Packets, NEW p \in Requests \cup Acks
    PROVE  /\ ArpAfterSend(a, p) \in ArpType /\ ArpAfterSend(a, p).wait \in {a.wait, p}
           /\ NetAfterSend(a, n, p) \in SUBSET Packets
           /\ \A q \in NetAfterSend(a, n, p) : q \in n \/ q = p \/ q.type = "arpreq"
<1>1. p.dev \in Devices /\ p \in Packets
    BY DEF Requests, Acks, Packets
<1>2. ArpRequest(p.dev) \in ArpPackets /\ ArpRequest(p.dev) \in Packets /\ ArpRequest(p.dev).type = "arpreq"
    BY <1>1 DEF ArpRequest, ArpPackets, Packets
<1>3. 0 \in 0..(Ticks + 1)
    BY TftpAssumption
<1>4. ArpAfterSend(a, p) \in ArpType /\ ArpAfterSend(a, p).wait \in {a.wait, p}
    <2>1. CASE a.ether
        BY <2>1 DEF ArpAfterSend
    <2>2. CASE ~a.ether
        <3>1. ArpAfterSend(a, p) = [a EXCEPT !.wait = p, !.try = 1, !.age = 0]
            BY <2>2 DEF ArpAfterSend
        <3>2. p \in {None} \cup Requests \cup Acks /\ 1 \in Int
            OBVIOUS
        <3> QED
            BY <3>1, <3>2, <1>3 DEF ArpType
    <2> QED
        BY <2>1, <2>2
<1>5. /\ NetAfterSend(a, n, p) \in SUBSET Packets
      /\ \A q \in NetAfterSend(a, n, p) : q \in n \/ q = p \/ q.type = "arpreq"
    BY <1>1, <1>2 DEF NetAfterSend, EthSend
<1> QED
    BY <1>4, <1>5

LEMMA PacketTypes ==
    ASSUME NEW t \in TftpType, NEW d \in Devices
    PROVE  TftpPacket(t, d) \in Requests \cup Acks
BY DEF TftpPacket, TftpType, Requests, Acks

LEMMA TftpSendTypes ==
    ASSUME NEW t \in TftpType, NEW n \in SUBSET Packets, Types, TftpSend(t, n)
    PROVE  arp' \in ArpType /\ net' \in SUBSET Packets
<1>1. eth.cur \in Devices /\ arp \in ArpType
    BY DEF Types, EthType
<1>2. TftpPacket(t, eth.cur) \in Requests \cup Acks
    BY <1>1, PacketTypes
<1> QED
    BY <1>1, <1>2, SendDoes DEF TftpSend

(* What a packet that reaches NetReceive can be.                           *)
LEMMA Received ==
    ASSUME NEW p \in net, NEW n \in {net, net \ {p}}, Delivered(p, n), Types
    PROVE  /\ n \in SUBSET Packets /\ p \in Packets /\ loop.pc = "rx" /\ faults' \in 0..MaxFaults
           /\ p.type = "DATA" => p \in Blocks
           /\ p.type \in {"OACK", "ERROR"} => p \in Answers
<1>1. p \in Packets /\ n \in SUBSET Packets
    BY DEF Types
<1>2. (p.type = "DATA" => p \in Blocks) /\ (p.type \in {"OACK", "ERROR"} => p \in Answers)
    BY <1>1 DEF Packets, Requests, Acks, ArpPackets, Answers, Blocks
<1>3. faults' \in 0..MaxFaults /\ loop.pc = "rx"
    BY TftpAssumption DEF Delivered, Types
<1> QED
    BY <1>1, <1>2, <1>3

LEMMA DataStateTypes ==
    ASSUME NEW t \in TftpType, NEW p \in Blocks
    PROVE  /\ TftpDataState(t, p) \in TftpType
           /\ TftpDataState(t, p).timeouts = t.timeouts /\ TftpDataState(t, p).block = p.blk % SeqSize
           /\ TftpDataState(t, p).state \in {t.state, "DATA"}
           /\ TftpFirst(t) => TftpDataState(t, p).wrap = 0 /\ TftpDataState(t, p).last = 0
                              /\ TftpDataState(t, p).state = "DATA"
           /\ ~TftpFirst(t) => /\ TftpDataState(t, p).wrap = TftpWrapAfter(t, p.blk % SeqSize)
                               /\ TftpDataState(t, p).last = t.last /\ TftpDataState(t, p).state = t.state
<1> DEFINE seq == p.blk % SeqSize
           w == TftpWrapAfter(t, seq)
           u == [t EXCEPT !.block = seq, !.wrap = w]
<1>1. seq \in 0..(SeqSize - 1) /\ 0 \in 0..(SeqSize - 1)
    BY TftpAssumption DEF Blocks
<1>2. w \in Nat
    BY DEF TftpWrapAfter, TftpType
<1>3. TftpDataState(t, p) = IF TftpFirst(t)
                            THEN [u EXCEPT !.state = "DATA", !.server = p.sid, !.last = 0, !.wrap = 0] ELSE u
    BY DEF TftpDataState
<1>4. p.sid \in 0..MaxSessions
    BY DEF Blocks
<1>5. w = TftpWrapAfter(t, p.blk % SeqSize) /\ seq = p.blk % SeqSize
    OBVIOUS
<1> HIDE DEF seq, w
<1>6. /\ u \in TftpType /\ u.timeouts = t.timeouts /\ u.block = seq /\ u.state = t.state
      /\ u.wrap = w /\ u.last = t.last
    BY <1>1, <1>2 DEF TftpType
<1> HIDE DEF u
<1>7. CASE TftpFirst(t)
    <2>1. TftpDataState(t, p) = [u EXCEPT !.state = "DATA", !.server = p.sid, !.last = 0, !.wrap = 0]
        BY <1>3, <1>7
    <2> DEFINE r == [u EXCEPT !.state = "DATA", !.server = p.sid, !.last = 0, !.wrap = 0]
    <2>2. r \in TftpType /\ r.wrap = 0 /\ r.last = 0 /\ r.state = "DATA"
        BY <1>1, <1>4, <1>6 DEF TftpType
    <2>3. r.timeouts = u.timeouts /\ r.block = u.block
        BY <1>6 DEF TftpType
    <2> HIDE DEF r
    <2>4. TftpDataState(t, p) = r
        BY <2>1 DEF r
    <2> QED
        BY <1>5, <1>6, <1>7, <2>2, <2>3, <2>4
<1>8. CASE ~TftpFirst(t)
    BY <1>3, <1>5, <1>6, <1>8
<1> QED
    BY <1>7, <1>8

LEMMA StoreTypes ==
    ASSUME NEW i \in [mem : [MemSlots -> 0..FileBlocks], size : Nat], NEW t \in TftpType, NEW p \in Blocks
    PROVE  StoreBlock(i, t, p) \in [mem : [MemSlots -> 0..FileBlocks], size : Nat]
<1>1. p.blk \in 0..FileBlocks
    BY TftpAssumption DEF Blocks
<1>2. StoreSlot(t) \in Int
    <2>1. t.wrap \in Nat /\ SeqSize \in Nat /\ t.block \in Int
        BY TftpAssumption DEF TftpType
    <2> QED
        BY <2>1 DEF StoreSlot
<1>3. (IF i.size < StoreSlot(t) + 1 THEN StoreSlot(t) + 1 ELSE i.size) \in Nat
    BY <1>2
<1>4. [s \in MemSlots |-> IF s = StoreSlot(t) THEN p.blk ELSE i.mem[s]] \in [MemSlots -> 0..FileBlocks]
    BY <1>1
<1> QED
    BY <1>3, <1>4 DEF StoreBlock

-----------------------------------------------------------------------------
(* Each step keeps the types and the timers.                               *)
LEMMA StartWait ==
    ASSUME WaitInv, NetLoop \/ StartProtocol
    PROVE  WaitInv'
<1> USE DEF WaitInv
<1>1. CASE NetLoop
    <2>1. [eth EXCEPT !.cur = 0, !.halted = -1, !.late = {}] \in EthType
        <3>1. 0 \in Devices /\ {} \in SUBSET Packets
            BY TftpAssumption DEF Devices
        <3> QED
            BY <3>1 DEF Types, EthType
    <2>2. eth' \in EthType
        BY <1>1, <2>1, EthInitTypes DEF NetLoop
    <2>3. loop' \in LoopType /\ loop'.pc = "restart"
          /\ loop'.timer = loop.timer /\ loop'.age = loop.age
        BY <1>1 DEF NetLoop, Types, LoopType
    <2>4. arp' \in ArpType
        BY <1>1 DEF NetLoop, Types, ArpType
    <2>5. Types'
        BY <1>1, <2>2, <2>3, <2>4 DEF NetLoop, Types
    <2>6. Timed'
        BY <1>1, <2>3 DEF NetLoop, Timed, Polling
    <2> QED
        BY <2>5, <2>6
<1>2. CASE StartProtocol
    <2> DEFINE l == [loop EXCEPT !.state = "CONTINUE", !.pc = "rx"]
    <2>1. /\ l \in LoopType /\ l.pc = "rx" /\ l.state = "CONTINUE" /\ l.timer = loop.timer /\ l.age = loop.age
          /\ l.handler = loop.handler
        BY DEF Types, LoopType
    <2> HIDE DEF l
    <2>2. Restart(loop) /\ loop.pc = "restart"
        BY <1>2 DEF StartProtocol
    <2>3. CASE eth.cur \in NoMac
        <3>1. NetStartAgain(l, eth) /\ UNCHANGED <<tftp, arp, img, net, server, faults, hist>>
            BY <2>2, <2>3 DEF Restart, l
        <3>2. /\ eth' \in EthType /\ loop' \in LoopType /\ loop'.pc = l.pc
              /\ \/ loop'.state \in {"RESTART", "FAIL"} /\ loop'.timer = l.timer /\ loop'.age = l.age
                        /\ loop'.handler = l.handler
                 \/ loop'.handler = "ignore" /\ loop'.timer = "again" /\ loop'.state = l.state
            BY <3>1, <2>1, NetStartAgainDoes DEF Types
        <3>3. Types'
            BY <3>1, <3>2 DEF Types
        <3>4. Timed'
            BY <3>1, <3>2, <2>1 DEF Timed, Polling
        <3> QED
            BY <3>3, <3>4
    <2>4. CASE eth.cur \notin NoMac
        <3> DEFINE l2 == [l EXCEPT !.devexists = TRUE]
                   a == [arp EXCEPT !.ether = FALSE]
        <3>1. /\ TftpStart(l2, eth.cur) /\ img' = [img EXCEPT !.size = 0]
              /\ UNCHANGED <<eth, server, faults>>
            BY <2>2, <2>4 DEF Restart, l
        <3>2. l2 \in LoopType /\ l2.pc = "rx" /\ a \in ArpType
            BY <2>1 DEF LoopType, Types, ArpType
        <3> HIDE DEF l2, a
        <3>3. PICK port \in Ports :
                 LET t == [tftp EXCEPT !.server = 0, !.timeouts = 0, !.state = "RRQ", !.port = port, !.block = 0]
                 IN  /\ tftp' = t
                     /\ loop' = SetTftpTimer([l2 EXCEPT !.handler = "tftp"])
                     /\ arp' = ArpAfterSend(a, TftpPacket(t, eth.cur))
                     /\ net' = NetAfterSend(a, net, TftpPacket(t, eth.cur))
            BY <3>1 DEF TftpStart, a
        <3> DEFINE t == [tftp EXCEPT !.server = 0, !.timeouts = 0, !.state = "RRQ", !.port = port, !.block = 0]
        <3>4. t \in TftpType /\ t.timeouts = 0
            <4>1. 0 \in 0..(SeqSize - 1) /\ 0 \in 0..MaxSessions /\ 0 \in 0..(TIMEOUT_COUNT + 1)
                BY TftpAssumption
            <4> QED
                BY <4>1 DEF Types, TftpType
        <3>5. tftp' = t /\ arp' = ArpAfterSend(a, TftpPacket(t, eth.cur))
              /\ net' = NetAfterSend(a, net, TftpPacket(t, eth.cur))
            BY <3>3
        <3> HIDE DEF t
        <3>6. TftpPacket(t, eth.cur) \in Requests \cup Acks
            BY <3>4, PacketTypes DEF Types, EthType
        <3>7. arp' \in ArpType /\ net' \in SUBSET Packets
            BY <3>2, <3>5, <3>6, SendDoes DEF Types
        <3>8. loop' \in LoopType /\ loop'.pc = "rx" /\ loop'.handler = "tftp" /\ loop'.timer = "tftp"
            <4> DEFINE l3 == [l2 EXCEPT !.handler = "tftp"]
            <4>1. l3 \in LoopType /\ l3.pc = "rx" /\ l3.handler = "tftp"
                BY <3>2 DEF LoopType
            <4>2. loop' = SetTftpTimer(l3)
                BY <3>3
            <4> HIDE DEF l3
            <4> QED
                BY <4>1, <4>2, TimerTypes
        <3>9. Types'
            BY <3>1, <3>4, <3>5, <3>7, <3>8 DEF Types
        <3>10. Timed'
            BY <3>4, <3>5, <3>8, TftpAssumption DEF Timed, Polling
        <3> QED
            BY <3>9, <3>10
    <2> QED
        BY <2>3, <2>4
<1> QED
    BY <1>1, <1>2

LEMMA ReceiveWait ==
    ASSUME WaitInv, NEW p \in net, Receive(p)
    PROVE  WaitInv'
<1> USE DEF WaitInv
<1>1. CASE NetReceiveArp(p)
    <2>1. PICK n \in {net, net \ {p}} :
             /\ Delivered(p, n) /\ p.type = "arprep"
             /\ IF arp.wait = None THEN net' = n /\ UNCHANGED arp
                ELSE /\ arp' = [arp EXCEPT !.ether = TRUE, !.wait = None]
                     /\ net' = EthSend(n, eth.cur, [arp.wait EXCEPT !.dev = eth.cur])
             /\ UNCHANGED <<loop, eth, tftp, img, server, hist>>
        BY <1>1 DEF NetReceiveArp
    <2>2. n \in SUBSET Packets /\ faults' \in 0..MaxFaults
        BY <2>1, Received
    <2>3. arp' \in ArpType /\ net' \in SUBSET Packets
        <3>1. CASE arp.wait = None
            BY <2>1, <2>2, <3>1 DEF Types
        <3>2. CASE arp.wait # None
            <4>1. arp.wait \in Requests \cup Acks /\ eth.cur \in Devices
                BY <3>2 DEF Types, ArpType, EthType
            <4>2. [arp.wait EXCEPT !.dev = eth.cur] \in Packets
                BY <4>1 DEF Requests, Acks, Packets
            <4> QED
                BY <2>1, <2>2, <3>2, <4>2 DEF Types, ArpType, EthSend
        <3> QED
            BY <3>1, <3>2
    <2>4. Types'
        BY <2>1, <2>2, <2>3 DEF Types
    <2> QED
        BY <2>1, <2>4 DEF Timed, Polling
<1>2. CASE NetReceiveIgnored(p)
    <2>1. PICK n \in {net, net \ {p}} :
             Delivered(p, n) /\ net' = n /\ UNCHANGED <<loop, eth, tftp, arp, img, server, hist>>
        BY <1>2 DEF NetReceiveIgnored
    <2>2. n \in SUBSET Packets /\ faults' \in 0..MaxFaults
        BY <2>1, Received
    <2> QED
        BY <2>1, <2>2 DEF Types, Timed, Polling
<1>3. CASE TftpOack(p)
    <2>1. PICK n \in {net, net \ {p}} :
             /\ Delivered(p, n) /\ p.type = "OACK"
             /\ tftp' = [tftp EXCEPT !.state = "OACK", !.server = p.sid]
             /\ TftpSend(tftp', n)
             /\ UNCHANGED <<loop, eth, img, server, hist>>
        BY <1>3 DEF TftpOack
    <2>2. n \in SUBSET Packets /\ faults' \in 0..MaxFaults /\ p \in Answers
        BY <2>1, Received
    <2>3. tftp' \in TftpType /\ tftp'.timeouts = tftp.timeouts
        BY <2>1, <2>2 DEF Types, TftpType, Answers
    <2>4. arp' \in ArpType /\ net' \in SUBSET Packets
        BY <2>1, <2>2, <2>3, TftpSendTypes
    <2> QED
        BY <2>1, <2>2, <2>3, <2>4 DEF Types, Timed, Polling
<1>4. CASE TftpDataRestart(p) \/ TftpError(p)
    <2>1. PICK n \in {net, net \ {p}} :
             /\ Delivered(p, n) /\ TftpAccepts(p) /\ NetStartAgain(loop, EthHaltInRecv(n)) /\ net' = n
             /\ tftp' = tftp \/ (p.type = "DATA" /\ tftp' = TftpDataState(tftp, p))
             /\ UNCHANGED <<arp, img, server, hist>>
        BY <1>4 DEF TftpDataRestart, TftpError
    <2>2. n \in SUBSET Packets /\ faults' \in 0..MaxFaults /\ (p.type = "DATA" => p \in Blocks) /\ loop.pc = "rx"
        BY <2>1, Received
    <2>3. EthHaltInRecv(n) \in EthType
        BY <2>2, HaltTypes DEF Types
    <2>4. /\ eth' \in EthType /\ loop' \in LoopType /\ loop'.pc = loop.pc
          /\ \/ loop'.state \in {"RESTART", "FAIL"} /\ loop'.timer = loop.timer /\ loop'.age = loop.age
                    /\ loop'.handler = loop.handler
             \/ loop'.handler = "ignore" /\ loop'.timer = "again" /\ loop'.state = loop.state
        BY <2>1, <2>3, NetStartAgainDoes DEF Types
    <2>5. tftp' \in TftpType /\ tftp'.timeouts = tftp.timeouts
        BY <2>1, <2>2, DataStateTypes DEF Types
    <2>6. Types'
        BY <2>1, <2>2, <2>4, <2>5 DEF Types
    <2>7. Timed'
        BY <2>4, <2>5 DEF Timed, Polling
    <2> QED
        BY <2>6, <2>7
<1>5. CASE TftpDataSame(p)
    <2>1. PICK n \in {net, net \ {p}} :
             /\ Delivered(p, n) /\ p.type = "DATA" /\ tftp' = TftpDataState(tftp, p) /\ net' = n
             /\ UNCHANGED <<loop, eth, arp, img, server, hist>>
        BY <1>5 DEF TftpDataSame
    <2>2. n \in SUBSET Packets /\ faults' \in 0..MaxFaults /\ p \in Blocks
        BY <2>1, Received
    <2>3. tftp' \in TftpType /\ tftp'.timeouts = tftp.timeouts
        BY <2>1, <2>2, DataStateTypes DEF Types
    <2> QED
        BY <2>1, <2>2, <2>3 DEF Types, Timed, Polling
<1>6. CASE TftpDataStored(p)
    <2> DEFINE t == TftpDataState(tftp, p)
    <2>1. PICK n \in {net, net \ {p}} :
             /\ Delivered(p, n) /\ p.type = "DATA" /\ TftpAccepts(p)
             /\ tftp' = [t EXCEPT !.last = t.block]
             /\ loop' = [SetTftpTimer(loop) EXCEPT !.state = IF p.blk = FileBlocks THEN "SUCCESS" ELSE @]
             /\ img' = StoreBlock(img, t, p)
             /\ TftpSend(t, n)
             /\ UNCHANGED <<eth, server, hist>>
        BY <1>6 DEF TftpDataStored
    <2>2. n \in SUBSET Packets /\ faults' \in 0..MaxFaults /\ p \in Blocks /\ loop.pc = "rx"
        BY <2>1, Received
    <2>3. t \in TftpType /\ t.timeouts = tftp.timeouts
        BY <2>2, DataStateTypes DEF Types
    <2> HIDE DEF t
    <2>4. tftp' \in TftpType /\ tftp'.timeouts = tftp.timeouts
        BY <2>1, <2>3 DEF TftpType
    <2>5. /\ loop' \in LoopType /\ loop'.pc = "rx" /\ loop'.handler = "tftp" /\ loop'.timer = "tftp"
          /\ loop'.age = 0 /\ loop'.state \in {loop.state, "SUCCESS"}
        <3> DEFINE l == SetTftpTimer(loop)
        <3>1. /\ l \in LoopType /\ l.timer = "tftp" /\ l.age = 0 /\ l.pc = "rx" /\ l.state = loop.state
              /\ l.handler = "tftp"
            BY <2>1, <2>2, TimerTypes DEF Types, TftpAccepts
        <3>2. loop' = [l EXCEPT !.state = IF p.blk = FileBlocks THEN "SUCCESS" ELSE @]
            BY <2>1
        <3> HIDE DEF l
        <3> QED
            BY <3>1, <3>2 DEF LoopType
    <2>6. img' \in [mem : [MemSlots -> 0..FileBlocks], size : Nat]
        BY <2>1, <2>2, <2>3, StoreTypes DEF Types
    <2>7. arp' \in ArpType /\ net' \in SUBSET Packets
        BY <2>1, <2>2, <2>3, TftpSendTypes
    <2>8. Types'
        BY <2>1, <2>2, <2>4, <2>5, <2>6, <2>7 DEF Types
    <2>9. loop.handler = "tftp"
        BY <2>1 DEF TftpAccepts
    <2>10. Timed'
        BY <2>2, <2>4, <2>5, <2>9 DEF Timed, Polling
    <2> QED
        BY <2>8, <2>10
<1> QED
    BY <1>1, <1>2, <1>3, <1>4, <1>5, <1>6 DEF Receive

LEMMA PlainWait ==
    ASSUME WaitInv, LoopArp \/ NoTimeout \/ SwitchContinue \/ SwitchRestart \/ SwitchReturn \/ Abort
    PROVE  WaitInv'
<1> USE DEF WaitInv
<1>1. /\ loop' \in LoopType /\ loop'.timer = loop.timer /\ loop'.age = loop.age /\ loop'.handler = loop.handler
      /\ loop'.state = loop.state
      /\ loop'.pc \in {"rx", "time", "switch"} => loop.pc \in {"rx", "time", "switch"}
    BY DEF Types, LoopType, LoopArp, NoTimeout, SwitchContinue, SwitchRestart, SwitchReturn, Abort
<1>2. eth' \in EthType
    <2>1. [eth EXCEPT !.halted = -1, !.late = {}] \in EthType
        BY DEF Types, EthType
    <2> QED
        BY <2>1 DEF Types, LoopArp, NoTimeout, SwitchContinue, SwitchRestart, SwitchReturn, Abort
<1>3. UNCHANGED <<tftp, arp, img, net, server, faults>>
    BY DEF LoopArp, NoTimeout, SwitchContinue, SwitchRestart, SwitchReturn, Abort
<1>4. Types'
    BY <1>1, <1>2, <1>3 DEF Types
<1>5. Timed'
    BY <1>1, <1>3 DEF Timed, Polling
<1> QED
    BY <1>4, <1>5

LEMMA ArpWait ==
    ASSUME WaitInv, ArpTryAgain \/ ArpGiveUp
    PROVE  WaitInv'
<1> USE DEF WaitInv
<1> DEFINE l == [loop EXCEPT !.pc = "time"]
<1>1. /\ l \in LoopType /\ l.pc = "time" /\ l.timer = loop.timer /\ l.age = loop.age /\ l.handler = loop.handler
      /\ l.state = loop.state
    BY DEF Types, LoopType
<1> HIDE DEF l
<1>2. loop.pc = "rx" /\ UNCHANGED <<tftp, img, server, faults>>
    BY DEF ArpTryAgain, ArpGiveUp
<1>3. arp' \in ArpType
    <2>1. 0 \in 0..(Ticks + 1)
        BY TftpAssumption
    <2>2. [arp EXCEPT !.try = @ + 1, !.age = 0] \in ArpType /\ [arp EXCEPT !.try = 0] \in ArpType
        <3>1. arp.try + 1 \in Int /\ 0 \in Int
            BY DEF Types, ArpType
        <3> QED
            BY <2>1, <3>1 DEF Types, ArpType
    <2> QED
        BY <2>2 DEF ArpTryAgain, ArpGiveUp
<1>4. CASE ArpTryAgain
    <2>1. loop' = l /\ eth' = eth /\ net' = EthSend(net, eth.cur, ArpRequest(eth.cur))
        BY <1>4 DEF ArpTryAgain, l
    <2>2. ArpRequest(eth.cur) \in Packets
        BY DEF ArpRequest, ArpPackets, Packets, Types, EthType
    <2>3. net' \in SUBSET Packets
        BY <2>1, <2>2 DEF EthSend, Types
    <2>4. Types'
        BY <1>1, <1>2, <1>3, <2>1, <2>3 DEF Types
    <2>5. Timed'
        BY <1>1, <1>2, <2>1 DEF Timed, Polling
    <2> QED
        BY <2>4, <2>5
<1>5. CASE ArpGiveUp
    <2>1. NetStartAgain(l, eth) /\ net' = net
        BY <1>5 DEF ArpGiveUp, l
    <2>2. /\ eth' \in EthType /\ loop' \in LoopType /\ loop'.pc = l.pc
          /\ \/ loop'.state \in {"RESTART", "FAIL"} /\ loop'.timer = l.timer /\ loop'.age = l.age
                    /\ loop'.handler = l.handler
             \/ loop'.handler = "ignore" /\ loop'.timer = "again" /\ loop'.state = l.state
        BY <1>1, <2>1, NetStartAgainDoes DEF Types
    <2>3. Types'
        BY <1>2, <1>3, <2>1, <2>2 DEF Types
    <2>4. Timed'
        BY <1>1, <1>2, <2>2 DEF Timed, Polling
    <2> QED
        BY <2>3, <2>4
<1> QED
    BY <1>4, <1>5

LEMMA CountTypes ==
    ASSUME NEW t \in TftpType
    PROVE  /\ t.timeouts \in 0..(TIMEOUT_COUNT + 1) /\ TIMEOUT_COUNT \in Nat
           /\ ~(t.timeouts > TIMEOUT_COUNT) => t.timeouts <= TIMEOUT_COUNT
           /\ t.timeouts + 1 <= TIMEOUT_COUNT => t.timeouts <= TIMEOUT_COUNT
           /\ t.timeouts <= TIMEOUT_COUNT => [t EXCEPT !.timeouts = @ + 1] \in TftpType
           /\ [t EXCEPT !.timeouts = @ + 1].timeouts = t.timeouts + 1
           /\ ~(t.timeouts + 1 <= TIMEOUT_COUNT /\ t.timeouts + 1 > TIMEOUT_COUNT)
<1>1. t.timeouts \in 0..(TIMEOUT_COUNT + 1) /\ TIMEOUT_COUNT \in Nat
    BY TftpAssumption DEF TftpType
<1>2. \A c \in 0..(TIMEOUT_COUNT + 1) : /\ c <= TIMEOUT_COUNT => c + 1 \in 0..(TIMEOUT_COUNT + 1)
                                        /\ ~(c > TIMEOUT_COUNT) => c <= TIMEOUT_COUNT
                                        /\ c + 1 <= TIMEOUT_COUNT => c <= TIMEOUT_COUNT
                                        /\ ~(c + 1 <= TIMEOUT_COUNT /\ c + 1 > TIMEOUT_COUNT)
    BY <1>1
<1>3. t.timeouts <= TIMEOUT_COUNT => [t EXCEPT !.timeouts = @ + 1] \in TftpType
    BY <1>1, <1>2 DEF TftpType
<1>4. [t EXCEPT !.timeouts = @ + 1].timeouts = t.timeouts + 1
    BY DEF TftpType
<1> QED
    BY <1>1, <1>2, <1>3, <1>4

LEMMA TimeoutWait ==
    ASSUME WaitInv, TftpTimeoutRetry \/ TftpTimeoutGiveUp \/ startAgainTimeout
    PROVE  WaitInv'
<1> USE DEF WaitInv
<1>1. /\ LoopCalled \in LoopType /\ LoopCalled.pc = "switch" /\ LoopCalled.timer = "none"
      /\ LoopCalled.age = loop.age /\ LoopCalled.handler = loop.handler /\ LoopCalled.state = loop.state
    BY DEF Types, LoopType, LoopCalled
<1>2. loop.pc = "time" /\ loop.timer \in {"tftp", "again"} /\ TimerExpired
    BY DEF TftpTimeoutRetry, TftpTimeoutGiveUp, startAgainTimeout
<1>3. CASE TftpTimeoutRetry
    <2>1. /\ tftp.timeouts + 1 <= TIMEOUT_COUNT /\ loop.timer = "tftp"
          /\ tftp' = [tftp EXCEPT !.timeouts = @ + 1] /\ loop' = SetTftpTimer(LoopCalled)
          /\ TftpSend(tftp, net) /\ UNCHANGED <<eth, img, server, faults>>
        BY <1>3 DEF TftpTimeoutRetry
    <2>2. tftp' \in TftpType /\ ~(tftp'.timeouts > TIMEOUT_COUNT)
        BY <2>1, CountTypes DEF Types
    <2>3. arp' \in ArpType /\ net' \in SUBSET Packets
        BY <2>1, TftpSendTypes DEF Types
    <2>4. /\ loop' \in LoopType /\ loop'.timer = "tftp" /\ loop'.handler = loop.handler /\ loop'.state = loop.state
        BY <1>1, <2>1, TimerTypes
    <2>5. Types'
        BY <2>1, <2>2, <2>3, <2>4 DEF Types
    <2>6. Timed'
        BY <1>2, <2>1, <2>2, <2>4 DEF Timed, Polling
    <2> QED
        BY <2>5, <2>6
<1>4. CASE TftpTimeoutGiveUp
    <2>1. /\ loop.timer = "tftp" /\ tftp' = [tftp EXCEPT !.timeouts = @ + 1] /\ NetStartAgain(LoopCalled, eth)
          /\ UNCHANGED <<arp, img, net, server, faults>>
        BY <1>4 DEF TftpTimeoutGiveUp
    <2>2. tftp.timeouts <= TIMEOUT_COUNT
        <3>1. loop.age > Ticks /\ loop.age # 0
            BY <1>2, <2>1, TftpAssumption DEF TimerExpired, TimeDelta, Types, LoopType
        <3> QED
            BY <3>1, <2>1, CountTypes DEF Timed, Types
    <2>3. tftp' \in TftpType
        BY <2>1, <2>2, CountTypes DEF Types
    <2>4. /\ eth' \in EthType /\ loop' \in LoopType /\ loop'.pc = "switch"
          /\ \/ loop'.state \in {"RESTART", "FAIL"} /\ loop'.timer = "none"
             \/ loop'.handler = "ignore" /\ loop'.timer = "again"
        BY <1>1, <2>1, NetStartAgainDoes DEF Types
    <2>5. Types'
        BY <2>1, <2>3, <2>4 DEF Types
    <2>6. Timed'
        BY <2>4 DEF Timed, Polling
    <2> QED
        BY <2>5, <2>6
<1>5. CASE startAgainTimeout
    <2>1. loop' = [LoopCalled EXCEPT !.state = "RESTART"] /\ UNCHANGED <<eth, tftp, arp, img, net, server, faults>>
        BY <1>5 DEF startAgainTimeout
    <2>2. loop' \in LoopType /\ loop'.state = "RESTART" /\ loop'.timer = "none"
        BY <1>1, <2>1 DEF LoopType
    <2> QED
        BY <2>1, <2>2 DEF Types, Timed, Polling
<1> QED
    BY <1>3, <1>4, <1>5

(* The network and the server touch no variable of the loop.               *)
LEMMA ServerWait ==
    ASSUME WaitInv,
           \/ \E p \in net : Serve(p) \/ Lose(p)
           \/ \E s \in DOMAIN server : ServerResend(s)
    PROVE  WaitInv'
<1> USE DEF WaitInv
<1>1. UNCHANGED <<loop, eth, tftp, arp, img>>
    BY DEF Serve, ServerArp, ServerRequest, ServerAck, Unheard, Lose, ServerResend
<1>2. faults' \in 0..MaxFaults
    <2>1. faults \in 0..MaxFaults /\ MaxFaults \in Nat
        BY TftpAssumption DEF Types
    <2>2. \A f \in 0..MaxFaults : f < MaxFaults => f + 1 \in 0..MaxFaults
        BY <2>1
    <2>3. faults' = faults \/ (faults < MaxFaults /\ faults' = faults + 1)
        BY DEF Serve, ServerArp, ServerRequest, ServerAck, Unheard, Lose, ServerResend
    <2> QED
        BY <2>1, <2>2, <2>3
<1>3. ASSUME NEW s \in 0..MaxSessions, NEW ses \in Sessions, ses.blk <= FileBlocks
      PROVE  Packet(s, ses) \in Packets
    BY <1>3, TftpAssumption DEF Packet, Sessions, Answers, Blocks, Packets
<1>4. ASSUME NEW n \in SUBSET Packets, net' = n, NEW v \in Seq(Sessions), server' = v, Len(v) <= MaxSessions,
             \A s \in DOMAIN v : v[s].due => v[s].blk <= FileBlocks
      PROVE  WaitInv'
    <2>1. Types'
        BY <1>1, <1>2, <1>4 DEF Types
    <2>2. Timed'
        BY <1>1 DEF Timed, Polling
    <2> QED
        BY <2>1, <2>2
<1>5. ASSUME NEW n \in SUBSET Packets, net' = n, server' = server
      PROVE  WaitInv'
    BY <1>4, <1>5 DEF Types
<1>6. ASSUME NEW p \in net, ServerArp(p)
      PROVE  WaitInv'
    <2>1. net' = (net \ {p}) \cup {[type |-> "arprep", dev |-> p.dev]} /\ server' = server /\ p.type = "arpreq"
        BY <1>6 DEF ServerArp
    <2>2. p.dev \in Devices
        BY <2>1 DEF Types, Packets, Requests, Acks, ArpPackets, Answers, Blocks
    <2>3. [type |-> "arprep", dev |-> p.dev] \in Packets
        BY <2>2 DEF Packets, ArpPackets
    <2>4. net' \in SUBSET Packets
        BY <2>1, <2>3 DEF Types
    <2> QED
        BY <1>5, <2>1, <2>4
<1>7. ASSUME NEW p \in net, Unheard(p) \/ Lose(p)
      PROVE  WaitInv'
    <2>1. net' = net \ {p} /\ server' = server
        BY <1>7 DEF Unheard, Lose
    <2> QED
        BY <1>5, <2>1 DEF Types
<1>8. ASSUME NEW p \in net, ServerRequest(p)
      PROVE  WaitInv'
    <2> DEFINE ses == [dev |-> p.dev, port |-> p.port, blk |-> IF UseOack THEN 0 ELSE 1, due |-> FALSE]
               sid == Len(server) + 1
               err == [ses EXCEPT !.blk = FileBlocks + 1]
    <2>1. p \in Requests /\ Len(server) \in Nat
        <3>1. p \in Packets /\ server \in Seq(Sessions)
            BY DEF Types
        <3>2. p.type = "RRQ"
            BY <1>8 DEF ServerRequest
        <3>3. p \in Requests
            BY <3>1, <3>2 DEF Packets, Requests, Acks, ArpPackets, Answers, Blocks
        <3> QED
            BY <3>1, <3>3
    <2>2. ses \in Sessions /\ ses.blk <= FileBlocks /\ ses.due = FALSE /\ ses.dev = p.dev /\ ses.port = p.port
        BY <2>1, TftpAssumption DEF Sessions, Requests
    <2>3. err \in Sessions /\ err.due = FALSE
        <3>1. FileBlocks + 1 \in 0..(FileBlocks + 1)
            BY TftpAssumption
        <3> HIDE DEF ses
        <3> QED
            BY <2>2, <3>1 DEF Sessions
    <2>4. [type |-> "ERROR", dev |-> p.dev, port |-> p.port, sid |-> sid] \in Packets \/ Len(server) >= MaxSessions
        BY <2>1, TftpAssumption DEF Answers, Packets, Requests
    <2>5. \/ /\ Len(server) < MaxSessions /\ server' = Append(server, ses)
             /\ net' = (net \ {p}) \cup {Packet(sid, ses)}
          \/ /\ Len(server) < MaxSessions /\ server' = Append(server, err)
             /\ net' = (net \ {p}) \cup {[type |-> "ERROR", dev |-> p.dev, port |-> p.port, sid |-> sid]}
          \/ Len(server) = MaxSessions /\ net' = net \ {p} /\ server' = server
        BY <1>8 DEF ServerRequest
    <2> HIDE DEF ses, err
    <2>6. ASSUME NEW x \in Sessions, x.due = FALSE, Len(server) < MaxSessions
          PROVE  /\ Append(server, x) \in Seq(Sessions) /\ Len(Append(server, x)) <= MaxSessions
                 /\ \A s \in DOMAIN Append(server, x) :
                        Append(server, x)[s].due => Append(server, x)[s].blk <= FileBlocks
        <3>1. /\ server \in Seq(Sessions) /\ Len(server) \in Nat
              /\ \A s \in DOMAIN server : server[s].due => server[s].blk <= FileBlocks
            BY DEF Types
        <3> DEFINE q == Append(server, x)
        <3>2. /\ q \in Seq(Sessions) /\ Len(q) = Len(server) + 1 /\ q[Len(server) + 1] = x
              /\ \A s \in 1..Len(server) : q[s] = server[s]
            BY <3>1, <2>6
        <3>3. DOMAIN q = 1..(Len(server) + 1) /\ DOMAIN server = 1..Len(server)
            BY <3>1, <3>2
        <3> HIDE DEF q
        <3>4. ASSUME NEW s \in DOMAIN q, q[s].due
              PROVE  q[s].blk <= FileBlocks
            <4>1. s \in 1..Len(server) \/ s = Len(server) + 1
                BY <3>1, <3>3
            <4>2. s # Len(server) + 1
                BY <3>2, <3>4, <2>6
            <4> QED
                BY <3>1, <3>2, <3>3, <3>4, <4>1, <4>2
        <3>5. Len(q) <= MaxSessions
            BY <3>1, <3>2, <2>6, TftpAssumption
        <3> QED
            BY <3>2, <3>4, <3>5 DEF q
    <2>7. CASE Len(server) < MaxSessions /\ server' = Append(server, ses)
               /\ net' = (net \ {p}) \cup {Packet(sid, ses)}
        <3>1. sid \in 0..MaxSessions
            BY <2>7, <2>1, TftpAssumption
        <3>2. Packet(sid, ses) \in Packets
            BY <1>3, <2>2, <3>1
        <3>3. net' \in SUBSET Packets
            BY <2>7, <3>2 DEF Types
        <3> QED
            BY <1>4, <2>2, <2>6, <2>7, <3>3
    <2>8. CASE Len(server) < MaxSessions /\ server' = Append(server, err)
               /\ net' = (net \ {p}) \cup {[type |-> "ERROR", dev |-> p.dev, port |-> p.port, sid |-> sid]}
        <3>1. [type |-> "ERROR", dev |-> p.dev, port |-> p.port, sid |-> sid] \in Packets
            BY <2>1, <2>4, <2>8, TftpAssumption
        <3>2. net' \in SUBSET Packets
            BY <2>8, <3>1 DEF Types
        <3> QED
            BY <1>4, <2>3, <2>6, <2>8, <3>2
    <2>9. CASE net' = net \ {p} /\ server' = server
        BY <1>5, <2>9 DEF Types
    <2> QED
        BY <2>5, <2>7, <2>8, <2>9
<1>9. ASSUME NEW s \in DOMAIN server, NEW x \in Sessions, x.due => x.blk <= FileBlocks
      PROVE  /\ [server EXCEPT ![s] = x] \in Seq(Sessions) /\ Len([server EXCEPT ![s] = x]) <= MaxSessions
             /\ \A i \in DOMAIN [server EXCEPT ![s] = x] :
                    [server EXCEPT ![s] = x][i].due => [server EXCEPT ![s] = x][i].blk <= FileBlocks
    BY <1>9 DEF Types
<1>10. ASSUME NEW s \in DOMAIN server
       PROVE  server[s] \in Sessions /\ s \in 0..MaxSessions /\ FileBlocks \in Nat
    BY TftpAssumption DEF Types
<1>11. ASSUME NEW p \in net, ServerAck(p)
       PROVE  WaitInv'
    <2> DEFINE ses == [server[p.sid] EXCEPT !.blk = @ + 1, !.due = FALSE]
    <2>1. \/ /\ p.sid \in DOMAIN server /\ server[p.sid].blk <= FileBlocks
             /\ server' = [server EXCEPT ![p.sid] = ses]
             /\ net' = (net \ {p}) \cup (IF ses.blk > FileBlocks THEN {} ELSE {Packet(p.sid, ses)})
          \/ net' = net \ {p} /\ server' = server
        BY <1>11 DEF ServerAck
    <2>2. CASE /\ p.sid \in DOMAIN server /\ server[p.sid].blk <= FileBlocks
               /\ server' = [server EXCEPT ![p.sid] = ses]
               /\ net' = (net \ {p}) \cup (IF ses.blk > FileBlocks THEN {} ELSE {Packet(p.sid, ses)})
        <3>1. server[p.sid] \in Sessions /\ p.sid \in 0..MaxSessions /\ FileBlocks \in Nat
            BY <2>2, <1>10
        <3>2. \A b \in 0..(FileBlocks + 1) : b <= FileBlocks => b + 1 \in 0..(FileBlocks + 1)
            BY <3>1
        <3>3. server[p.sid].blk \in 0..(FileBlocks + 1)
            BY <3>1 DEF Sessions
        <3>4. ses \in Sessions /\ ses.due = FALSE
            BY <2>2, <3>1, <3>2, <3>3 DEF Sessions
        <3> HIDE DEF ses
        <3>5. ses.blk > FileBlocks \/ Packet(p.sid, ses) \in Packets
            <4>1. ses.blk \in Int
                BY <3>4 DEF Sessions
            <4>2. ses.blk > FileBlocks \/ ses.blk <= FileBlocks
                BY <3>1, <4>1
            <4> QED
                BY <1>3, <3>1, <3>4, <4>2
        <3>6. net' \in SUBSET Packets
            BY <2>2, <3>5 DEF Types
        <3>7. /\ [server EXCEPT ![p.sid] = ses] \in Seq(Sessions) /\ Len([server EXCEPT ![p.sid] = ses]) <= MaxSessions
              /\ \A i \in DOMAIN [server EXCEPT ![p.sid] = ses] :
                     [server EXCEPT ![p.sid] = ses][i].due => [server EXCEPT ![p.sid] = ses][i].blk <= FileBlocks
            BY <1>9, <2>2, <3>4
        <3> QED
            BY <1>4, <2>2, <3>6, <3>7
    <2>3. CASE net' = net \ {p} /\ server' = server
        BY <1>5, <2>3 DEF Types
    <2> QED
        BY <2>1, <2>2, <2>3
<1>12. ASSUME NEW s \in DOMAIN server, ServerResend(s)
       PROVE  WaitInv'
    <2> DEFINE ses == [server[s] EXCEPT !.due = FALSE]
    <2>1. server[s].due /\ server' = [server EXCEPT ![s] = ses] /\ net' = net \cup {Packet(s, server[s])}
        BY <1>12 DEF ServerResend
    <2>2. server[s] \in Sessions /\ server[s].blk <= FileBlocks /\ s \in 0..MaxSessions
        BY <1>10, <2>1 DEF Types
    <2>3. ses \in Sessions /\ ses.due = FALSE
        BY <2>2 DEF Sessions
    <2> HIDE DEF ses
    <2>4. Packet(s, server[s]) \in Packets
        BY <1>3, <2>2
    <2>5. net' \in SUBSET Packets
        BY <2>1, <2>4 DEF Types
    <2>6. /\ [server EXCEPT ![s] = ses] \in Seq(Sessions) /\ Len([server EXCEPT ![s] = ses]) <= MaxSessions
          /\ \A i \in DOMAIN [server EXCEPT ![s] = ses] :
                 [server EXCEPT ![s] = ses][i].due => [server EXCEPT ![s] = ses][i].blk <= FileBlocks
        BY <1>9, <2>3
    <2> QED
        BY <1>4, <2>1, <2>5, <2>6
<1> QED
    BY <1>6, <1>7, <1>8, <1>11, <1>12 DEF Serve

LEMMA TickWait ==
    ASSUME WaitInv, Tick
    PROVE  WaitInv'
<1> USE DEF WaitInv
<1> DEFINE older == Older(loop.age, TimeDelta)
           arpOlder == Older(arp.age, Ticks)
           next == [s \in DOMAIN server |-> [server[s] EXCEPT !.due = server[s].blk <= FileBlocks]]
<1>1. /\ loop.pc = "rx" /\ loop.state = "CONTINUE"
      /\ loop' = [loop EXCEPT !.age = IF loop.timer = "none" THEN 0 ELSE older]
      /\ arp' = [arp EXCEPT !.age = IF arp.wait = None THEN 0 ELSE arpOlder]
      /\ server' = next
      /\ UNCHANGED <<eth, tftp, img, net, faults>>
    BY DEF Tick
<1>2. Ticks \in Nat /\ loop.age \in 0..(2 * Ticks + 1) /\ arp.age \in 0..(Ticks + 1)
    BY TftpAssumption DEF Types, LoopType, ArpType
<1>3. 0 \in 0..(2 * Ticks + 1) /\ 0 \in 0..(Ticks + 1) /\ TimeDelta \in {Ticks, 2 * Ticks}
    BY <1>2 DEF TimeDelta
<1>4. older \in 0..(2 * Ticks + 1)
    <2>1. \A a \in 0..(2 * Ticks + 1), d \in {Ticks, 2 * Ticks} :
              (IF a > d THEN a ELSE a + 1) \in 0..(2 * Ticks + 1)
        BY <1>2
    <2> QED
        BY <1>2, <1>3, <2>1 DEF Older
<1>5. arpOlder \in 0..(Ticks + 1)
    <2>1. \A a \in 0..(Ticks + 1) : (IF a > Ticks THEN a ELSE a + 1) \in 0..(Ticks + 1)
        BY <1>2
    <2> QED
        BY <1>2, <2>1 DEF Older
<1> HIDE DEF older, arpOlder
<1>6. /\ loop' \in LoopType /\ loop'.pc = "rx" /\ loop'.state = loop.state /\ loop'.handler = loop.handler
      /\ loop'.timer = loop.timer
    BY <1>1, <1>3, <1>4 DEF Types, LoopType
<1>7. arp' \in ArpType
    BY <1>1, <1>3, <1>5 DEF Types, ArpType
<1>8. /\ next \in Seq(Sessions) /\ Len(next) <= MaxSessions
      /\ \A s \in DOMAIN next : next[s].due => next[s].blk <= FileBlocks
    <2>1. server \in Seq(Sessions) /\ Len(server) <= MaxSessions
        BY DEF Types
    <2>2. \A x \in Sessions, b \in BOOLEAN : /\ [x EXCEPT !.due = b] \in Sessions
                                             /\ [x EXCEPT !.due = b].due = b /\ [x EXCEPT !.due = b].blk = x.blk
        BY DEF Sessions
    <2>3. \A s \in DOMAIN server : server[s] \in Sessions
        BY <2>1
    <2>4. \A s \in DOMAIN next : next[s] = [server[s] EXCEPT !.due = server[s].blk <= FileBlocks]
        OBVIOUS
    <2>5. ASSUME NEW s \in DOMAIN next
          PROVE  next[s] \in Sessions /\ (next[s].due => next[s].blk <= FileBlocks)
        <3> DEFINE b == server[s].blk <= FileBlocks
        <3>1. b \in BOOLEAN /\ server[s] \in Sessions /\ next[s] = [server[s] EXCEPT !.due = b]
            BY <2>3, <2>4
        <3>2. next[s] \in Sessions /\ next[s].due = b /\ next[s].blk = server[s].blk
            BY <2>2, <3>1
        <3> QED
            BY <3>2
    <2>6. DOMAIN next = 1..Len(server) /\ Len(server) \in Nat
        BY <2>1
    <2> HIDE DEF next
    <2>7. next \in [1..Len(server) -> Sessions]
        <3>1. next = [s \in DOMAIN server |-> next[s]] /\ DOMAIN server = 1..Len(server)
            BY <2>1 DEF next
        <3> QED
            BY <2>5, <2>6, <3>1
    <2> QED
        BY <2>1, <2>5, <2>6, <2>7
<1> HIDE DEF next
<1>9. Types'
    BY <1>1, <1>6, <1>7, <1>8 DEF Types
<1>10. Timed'
    <2>1. loop.timer # "none" /\ (loop.timer = "tftp" => tftp.timeouts <= TIMEOUT_COUNT)
        <3>1. loop.timer # "none" /\ (tftp.timeouts > TIMEOUT_COUNT => loop.timer # "tftp")
            BY <1>1 DEF Timed, Polling
        <3> QED
            BY <3>1, CountTypes DEF Types
    <2> QED
        BY <1>1, <1>6, <2>1 DEF Timed, Polling
<1> QED
    BY <1>9, <1>10

LEMMA InitWait ==
    ASSUME Init
    PROVE  WaitInv
<1>1. (CHOOSE p \in Ports : TRUE) \in Ports
    BY TftpAssumption
<1>2. 0 \in Devices /\ 0 \in 0..(SeqSize - 1) /\ 0 \in 0..(2 * Ticks + 1) /\ 0 \in 0..(Ticks + 1)
      /\ 0 \in 0..MaxSessions /\ 0 \in 0..(TIMEOUT_COUNT + 1) /\ 0 \in 0..MaxFaults /\ 0 \in 0..FileBlocks
      /\ ~(0 > TIMEOUT_COUNT)
    BY TftpAssumption DEF Devices
<1>3. loop \in LoopType /\ loop.pc = "idle"
    BY <1>2 DEF Init, LoopType
<1>4. eth \in EthType /\ arp \in ArpType
    BY <1>2 DEF Init, EthType, ArpType
<1>5. tftp \in TftpType /\ tftp.timeouts = 0
    BY <1>1, <1>2 DEF Init, TftpType
<1>6. img \in [mem : [MemSlots -> 0..FileBlocks], size : Nat]
    <2>1. [s \in MemSlots |-> 0] \in [MemSlots -> 0..FileBlocks]
        BY <1>2
    <2> QED
        BY <2>1 DEF Init
<1>7. net \in SUBSET Packets /\ server \in Seq(Sessions) /\ Len(server) <= MaxSessions
      /\ (\A s \in DOMAIN server : server[s].due => server[s].blk <= FileBlocks) /\ faults \in 0..MaxFaults
    BY <1>2, TftpAssumption DEF Init
<1>8. Types
    BY <1>3, <1>4, <1>5, <1>6, <1>7 DEF Types
<1>9. Timed
    BY <1>2, <1>3, <1>5 DEF Timed, Polling
<1> QED
    BY <1>8, <1>9 DEF WaitInv

LEMMA StepWait ==
    ASSUME WaitInv, [Next]_vars
    PROVE  WaitInv'
<1>1. CASE UNCHANGED vars
    BY <1>1 DEF vars, WaitInv, Types, Timed, Polling
<1>2. CASE Next
    <2>1. CASE NetLoop \/ StartProtocol
        BY <2>1, StartWait
    <2>2. CASE Timers \/ Abort
        BY <2>2, PlainWait, ArpWait, TimeoutWait DEF Timers
    <2>3. CASE Tick
        BY <2>3, TickWait
    <2>4. CASE \E p \in net : Receive(p)
        BY <2>4, ReceiveWait
    <2>5. CASE (\E p \in net : Serve(p) \/ Lose(p)) \/ \E s \in DOMAIN server : ServerResend(s)
        BY <2>5, ServerWait
    <2> QED
        BY <1>2, <2>1, <2>2, <2>3, <2>4, <2>5 DEF Next
<1> QED
    BY <1>1, <1>2

LEMMA AlwaysWait == Spec => []WaitInv
<1>1. Init => WaitInv
    BY InitWait
<1>2. WaitInv /\ [Next]_vars => WaitInv'
    BY StepWait
<1> QED
    BY <1>1, <1>2, PTL DEF Spec

(* NetLoop never waits without a timeout to end the wait, whatever the     *)
(* network, the server and the user do: NetLoop's variables hold values of *)
(* their types, and in state CONTINUE TftpTimeout or startAgainTimeout is  *)
(* armed.                                                                  *)
THEOREM WaitBounded == Spec => []WaitIsBounded
<1>1. WaitInv => TypeOK
    BY DEF WaitInv, Types, TypeOK, LoopType, EthType, TftpType
<1>2. WaitInv => WaitIsBounded
    BY <1>1 DEF WaitInv, Timed, Polling, WaitIsBounded
<1> QED
    BY <1>2, AlwaysWait, PTL

-----------------------------------------------------------------------------
(* With one device NetStartAgain finds it has been tried.                  *)
LEMMA EthInitKeeps ==
    ASSUME NEW e \in EthType
    PROVE  EthInit(e).first = e.first /\ (e.wrap => EthInit(e).wrap)
<1> DEFINE At(k) == (e.cur + k) % NDev
           skips == CHOOSE k \in 0..(NDev - 1) :
                        At(k) \in Linked /\ \A j \in 0..(k - 1) : At(j) \notin Linked
           passed == \E j \in 1..skips : At(j) = e.first
           cur == At(skips)
<1>1. EthInit(e) = [e EXCEPT !.cur = cur, !.wrap = @ \/ passed]
    BY DEF EthInit
<1>2. e.wrap \in BOOLEAN /\ passed \in BOOLEAN
    BY DEF EthType
<1> HIDE DEF passed, cur, skips, At
<1> QED
    BY <1>1, <1>2 DEF EthType

LEMMA AgainOne ==
    ASSUME OneDevice, Types, LoopInv, NEW l \in LoopType, NEW h \in EthType, h.first = eth.first,
           NetStartAgain(l, h)
    PROVE  /\ eth'.first = 0
           /\ l.devexists => loop' = [l EXCEPT !.handler = "ignore", !.timer = "again", !.age = 0]
           /\ ~l.devexists => loop' = [l EXCEPT !.state = "FAIL"]
<1> DEFINE a == EthTryAnother(h, ~loop.restarted)
           i == EthInit(a)
           e == EthRingReset(i)
<1>1. Devices = {0} /\ loop.restarted \in BOOLEAN
    BY DEF OneDevice, Devices, Types, LoopType
<1>2. a \in EthType /\ a.first = 0 /\ a.wrap = TRUE
    <2> DEFINE next == (h.cur + 1) % NDev
               first == IF ~loop.restarted THEN h.cur ELSE h.first
    <2>1. a = [h EXCEPT !.cur = next, !.first = first, !.wrap = @ \/ first = next]
        BY DEF EthTryAnother
    <2>2. a \in EthType
        BY <1>1, EthTryAnotherTypes
    <2>3. h.cur = 0
        BY <1>1 DEF EthType
    <2>4. next = 0
        <3>1. (0 + 1) % 1 = 0
            OBVIOUS
        <3> QED
            BY <2>3, <3>1 DEF OneDevice
    <2>5. first = 0
        BY <2>3 DEF LoopInv
    <2>6. a.first = first /\ a.wrap = (h.wrap \/ first = next)
        <3> HIDE DEF a, first, next
        <3> QED
            BY <2>1 DEF EthType
    <2> HIDE DEF a, first, next
    <2> QED
        BY <2>2, <2>4, <2>5, <2>6
<1> HIDE DEF a
<1>3. i \in EthType /\ i.first = 0 /\ i.wrap = TRUE
    BY <1>2, EthInitTypes, EthInitKeeps DEF EthType
<1> HIDE DEF i
<1>4. e \in EthType /\ e.first = 0 /\ e.wrap = TRUE
    BY <1>3 DEF EthRingReset, EthType
<1>5. e = EthAgain(h)
    BY DEF EthAgain, i, a
<1> HIDE DEF e
<1>6. /\ eth' = [e EXCEPT !.wrap = FALSE]
      /\ loop' = IF l.devexists THEN [l EXCEPT !.handler = "ignore", !.timer = "again", !.age = 0]
                 ELSE [l EXCEPT !.state = "FAIL"]
    BY <1>4, <1>5 DEF NetStartAgain, OneDevice
<1>7. eth'.first = 0
    BY <1>4, <1>6 DEF EthType
<1> QED
    BY <1>6, <1>7

LEMMA HaltKeeps ==
    ASSUME eth \in EthType, NEW n
    PROVE  EthHaltInRecv(n).first = eth.first
BY DEF EthHaltInRecv, EthType

(* Each step keeps what LoopInv says of the loop.                          *)
LEMMA AgainLoop ==
    ASSUME OneDevice, Types, LoopInv, NEW l \in LoopType, NEW h \in EthType, h.first = eth.first,
           l.timer = "tftp" => l.handler = "tftp",
           l.handler # "none" \/ l.devexists => 0 \notin NoMac,
           l.pc # "done" => l.result # "ok", l.pc # "done", 0 \notin NoMac => l.devexists,
           NetStartAgain(l, h)
    PROVE  LoopInv'
<1>1. CASE l.devexists
    <2>1. eth'.first = 0 /\ loop' = [l EXCEPT !.handler = "ignore", !.timer = "again", !.age = 0]
        BY <1>1, AgainOne
    <2>2. loop'.handler = "ignore" /\ loop'.timer = "again" /\ loop'.devexists = l.devexists
          /\ loop'.result = l.result /\ loop'.pc = l.pc
        BY <2>1 DEF LoopType
    <2> QED
        BY <1>1, <2>1, <2>2 DEF LoopInv
<1>2. CASE ~l.devexists
    <2>1. eth'.first = 0 /\ loop' = [l EXCEPT !.state = "FAIL"]
        BY <1>2, AgainOne
    <2>2. loop'.handler = l.handler /\ loop'.timer = l.timer /\ loop'.devexists = l.devexists
          /\ loop'.result = l.result /\ loop'.pc = l.pc
        BY <2>1 DEF LoopType
    <2> QED
        BY <1>2, <2>1, <2>2 DEF LoopInv
<1> QED
    BY <1>1, <1>2

LEMMA StepLoop ==
    ASSUME OneDevice, Types, LoopInv, [Next]_vars
    PROVE  LoopInv'
<1>1. loop \in LoopType /\ eth \in EthType /\ Devices = {0} /\ eth.cur = 0
    BY DEF Types, EthType, OneDevice, Devices
<1>2. CASE NetLoop
    <2>1. /\ loop' = [loop EXCEPT !.pc = "restart", !.restarted = FALSE, !.devexists = FALSE,
                                  !.state = "CONTINUE", !.result = "none"]
          /\ eth' = EthInit([eth EXCEPT !.cur = 0, !.halted = -1, !.late = {}])
        BY <1>2 DEF NetLoop
    <2>2. eth'.first = eth.first
        <3> DEFINE e == [eth EXCEPT !.cur = 0, !.halted = -1, !.late = {}]
        <3>1. e \in EthType /\ e.first = eth.first
            BY <1>1 DEF EthType
        <3> HIDE DEF e
        <3> QED
            BY <2>1, <3>1, EthInitKeeps DEF e
    <2>3. /\ loop'.pc = "restart" /\ loop'.restarted = FALSE /\ loop'.devexists = FALSE
          /\ loop'.state = "CONTINUE" /\ loop'.result = "none"
          /\ loop'.timer = loop.timer /\ loop'.handler = loop.handler
        BY <1>1, <2>1 DEF LoopType
    <2> QED
        BY <2>2, <2>3 DEF LoopInv
<1>3. CASE StartProtocol
    <2> DEFINE l == [loop EXCEPT !.state = "CONTINUE", !.pc = "rx"]
               l3 == [[l EXCEPT !.devexists = TRUE] EXCEPT !.handler = "tftp"]
    <2>1. Restart(loop) /\ loop.pc = "restart"
        BY <1>3 DEF StartProtocol
    <2>2. /\ l \in LoopType /\ l.pc = "rx" /\ l.state = "CONTINUE" /\ l.timer = loop.timer
          /\ l.handler = loop.handler /\ l.devexists = loop.devexists /\ l.result = loop.result
          /\ l.restarted = loop.restarted
        BY <1>1 DEF LoopType
    <2>3. /\ l3 \in LoopType /\ l3.pc = "rx" /\ l3.state = "CONTINUE" /\ l3.handler = "tftp"
          /\ l3.devexists = TRUE /\ l3.result = loop.result /\ l3.restarted = loop.restarted
        BY <2>2 DEF LoopType
    <2> HIDE DEF l, l3
    <2>4. CASE eth.cur \in NoMac
        <3>1. NetStartAgain(l, eth)
            BY <2>1, <2>4 DEF Restart, l
        <3> QED
            BY <1>1, <2>1, <2>2, <2>4, <3>1, AgainLoop DEF LoopInv
    <2>5. CASE eth.cur \notin NoMac
        <3>1. eth' = eth /\ loop' = SetTftpTimer(l3)
            BY <2>1, <2>5 DEF Restart, TftpStart, l, l3
        <3>2. /\ loop'.pc = "rx" /\ loop'.state = "CONTINUE" /\ loop'.handler = "tftp" /\ loop'.timer = "tftp"
              /\ loop'.devexists = TRUE /\ loop'.result = loop.result /\ loop'.restarted = loop.restarted
            BY <2>3, <3>1, TimerTypes
        <3> QED
            BY <1>1, <2>1, <2>5, <3>1, <3>2 DEF LoopInv
    <2> QED
        BY <2>4, <2>5
<1>4. CASE ArpGiveUp
    <2> DEFINE l == [loop EXCEPT !.pc = "time"]
    <2>1. /\ l \in LoopType /\ l.pc = "time" /\ l.timer = loop.timer /\ l.handler = loop.handler
          /\ l.devexists = loop.devexists /\ l.result = loop.result
        BY <1>1 DEF LoopType
    <2>2. NetStartAgain(l, eth) /\ loop.pc = "rx"
        BY <1>4 DEF ArpGiveUp
    <2> HIDE DEF l
    <2> QED
        BY <1>1, <2>1, <2>2, AgainLoop DEF LoopInv
<1>5. CASE TftpTimeoutGiveUp
    <2>1. /\ LoopCalled \in LoopType /\ LoopCalled.pc = "switch" /\ LoopCalled.timer = "none"
          /\ LoopCalled.handler = loop.handler /\ LoopCalled.devexists = loop.devexists
          /\ LoopCalled.result = loop.result
        BY <1>1 DEF LoopType, LoopCalled
    <2>2. NetStartAgain(LoopCalled, eth) /\ loop.pc = "time"
        BY <1>5 DEF TftpTimeoutGiveUp
    <2> QED
        BY <1>1, <2>1, <2>2, AgainLoop DEF LoopInv
<1>6. CASE \E p \in net : TftpDataRestart(p) \/ TftpError(p)
    <2>1. PICK p \in net : TftpDataRestart(p) \/ TftpError(p)
        BY <1>6
    <2>2. PICK n \in {net, net \ {p}} :
             Delivered(p, n) /\ TftpAccepts(p) /\ NetStartAgain(loop, EthHaltInRecv(n))
        BY <2>1 DEF TftpDataRestart, TftpError
    <2>3. loop.pc = "rx" /\ n \in SUBSET Packets
        BY <2>2, Received
    <2>4. EthHaltInRecv(n) \in EthType /\ EthHaltInRecv(n).first = eth.first
        BY <1>1, <2>3, HaltTypes, HaltKeeps
    <2> QED
        BY <1>1, <2>2, <2>3, <2>4, AgainLoop DEF LoopInv
<1>7. CASE \E p \in net : TftpDataStored(p)
    <2>1. PICK p \in net : TftpDataStored(p)
        BY <1>7
    <2>2. /\ loop.pc = "rx" /\ loop.handler = "tftp" /\ eth' = eth
          /\ loop' = [SetTftpTimer(loop) EXCEPT !.state = IF p.blk = FileBlocks THEN "SUCCESS" ELSE @]
        BY <2>1 DEF TftpDataStored, Delivered, TftpAccepts
    <2> DEFINE l == SetTftpTimer(loop)
    <2>3. /\ l \in LoopType /\ l.timer = "tftp" /\ l.pc = loop.pc /\ l.state = loop.state
          /\ l.handler = loop.handler /\ l.devexists = loop.devexists /\ l.restarted = loop.restarted
          /\ l.result = loop.result
        BY <1>1, TimerTypes
    <2> HIDE DEF l
    <2>4. /\ loop'.timer = "tftp" /\ loop'.pc = loop.pc /\ loop'.state \in {loop.state, "SUCCESS"}
          /\ loop'.handler = loop.handler /\ loop'.devexists = loop.devexists /\ loop'.restarted = loop.restarted
          /\ loop'.result = loop.result
        BY <2>2, <2>3 DEF LoopType, l
    <2> QED
        BY <2>2, <2>4 DEF LoopInv
<1>8. CASE TftpTimeoutRetry \/ startAgainTimeout
    <2>1. /\ loop.pc = "time" /\ eth' = eth
          /\ \/ loop.timer = "tftp" /\ loop' = SetTftpTimer(LoopCalled)
             \/ loop.timer = "again" /\ loop' = [LoopCalled EXCEPT !.state = "RESTART"]
        BY <1>8 DEF TftpTimeoutRetry, startAgainTimeout
    <2>2. /\ LoopCalled \in LoopType /\ LoopCalled.pc = "switch" /\ LoopCalled.timer = "none"
          /\ LoopCalled.handler = loop.handler /\ LoopCalled.devexists = loop.devexists
          /\ LoopCalled.result = loop.result /\ LoopCalled.state = loop.state
          /\ LoopCalled.restarted = loop.restarted
        BY <1>1 DEF LoopType, LoopCalled
    <2>3. /\ loop'.pc = "switch" /\ loop'.handler = loop.handler /\ loop'.devexists = loop.devexists
          /\ loop'.result = loop.result /\ loop'.restarted = loop.restarted
          /\ \/ loop.timer = "tftp" /\ loop'.timer = "tftp" /\ loop'.state = loop.state
             \/ loop.timer = "again" /\ loop'.timer = "none"
        <3>1. CASE loop' = SetTftpTimer(LoopCalled) /\ loop.timer = "tftp"
            BY <2>2, <3>1, TimerTypes
        <3>2. CASE loop' = [LoopCalled EXCEPT !.state = "RESTART"] /\ loop.timer = "again"
            BY <2>2, <3>2 DEF LoopType
        <3> QED
            BY <2>1, <3>1, <3>2
    <2> QED
        BY <2>1, <2>3 DEF LoopInv
<1>9. CASE LoopArp \/ ArpTryAgain \/ NoTimeout \/ SwitchContinue \/ SwitchRestart \/ SwitchReturn \/ Abort
    <2>1. /\ loop'.timer = loop.timer /\ loop'.handler = loop.handler /\ loop'.devexists = loop.devexists
          /\ loop'.state = loop.state /\ (loop'.restarted => loop.restarted \/ loop.state = "RESTART")
          /\ loop.pc \in {"rx", "time", "switch"}
          /\ loop'.pc = "done" \/ loop'.result = loop.result
          /\ loop'.result = "ok" => loop.result = "ok" \/ (loop'.pc = "done" /\ loop.state = "SUCCESS")
        BY <1>1, <1>9 DEF LoopArp, ArpTryAgain, NoTimeout, SwitchContinue, SwitchRestart, SwitchReturn, Abort,
                          LoopType
    <2>2. eth'.first = eth.first
        BY <1>1, <1>9 DEF LoopArp, ArpTryAgain, NoTimeout, SwitchContinue, SwitchRestart, SwitchReturn, Abort,
                          EthType
    <2> QED
        BY <2>1, <2>2 DEF LoopInv
<1>10. CASE Tick
    <2>1. /\ loop'.timer = loop.timer /\ loop'.handler = loop.handler /\ loop'.devexists = loop.devexists
          /\ loop'.state = loop.state /\ loop'.restarted = loop.restarted /\ loop'.pc = loop.pc
          /\ loop'.result = loop.result /\ eth' = eth
        BY <1>1, <1>10 DEF Tick, LoopType
    <2> QED
        BY <2>1 DEF LoopInv
<1>11. ASSUME UNCHANGED <<loop, eth>>
       PROVE  LoopInv'
    BY <1>11 DEF LoopInv
<1>12. CASE \E p \in net : NetReceiveArp(p) \/ NetReceiveIgnored(p) \/ TftpOack(p) \/ TftpDataSame(p)
                           \/ Serve(p) \/ Lose(p)
    BY <1>11, <1>12 DEF NetReceiveArp, NetReceiveIgnored, TftpOack, TftpDataSame, Serve, ServerArp,
                        ServerRequest, ServerAck, Unheard, Lose
<1>13. CASE \E s \in DOMAIN server : ServerResend(s)
    BY <1>11, <1>13 DEF ServerResend
<1>14. CASE UNCHANGED vars
    BY <1>11, <1>14 DEF vars
<1> QED
    BY <1>2, <1>3, <1>4, <1>5, <1>6, <1>7, <1>8, <1>9, <1>10, <1>12, <1>13, <1>14 DEF Next, Timers, Receive

-----------------------------------------------------------------------------
(* Without a wrap, a block is stored at its place, and what is stored      *)
(* stays.                                                                  *)
LEMMA DataOne ==
    ASSUME OneDevice, NEW t \in TftpType, t.wrap = 0, NEW p \in Blocks
    PROVE  /\ p.blk \in 1..FileBlocks /\ FileBlocks \in Nat
           /\ TftpDataState(t, p).block = p.blk /\ TftpDataState(t, p).wrap = 0
           /\ TftpDataState(t, p).last \in {t.last, 0} /\ TftpDataState(t, p).state = "DATA"
<1>1. p.blk \in 1..FileBlocks /\ FileBlocks \in Nat /\ SeqSize \in Nat /\ FileBlocks < SeqSize
    BY TftpAssumption DEF OneDevice, Blocks
<1>2. \A b \in 1..FileBlocks : b % SeqSize = b /\ b # 0
    <2>1. ASSUME NEW b \in 1..FileBlocks
          PROVE  b % SeqSize = b /\ b # 0
        <3>1. b \in Nat /\ b < SeqSize /\ b < SeqSize + SeqSize /\ SeqSize \in Nat \ {0}
            BY <1>1
        <3>2. b % SeqSize = b
            BY <3>1, ModOfSum
        <3> QED
            BY <3>2
    <2> QED
        BY <2>1
<1>3. p.blk % SeqSize = p.blk /\ p.blk # 0
    BY <1>1, <1>2
<1>4. CASE TftpFirst(t)
    BY <1>1, <1>3, <1>4, DataStateTypes
<1>5. CASE ~TftpFirst(t)
    <2>1. t.state = "DATA"
        BY <1>5 DEF TftpFirst, TftpType
    <2>2. TftpWrapAfter(t, p.blk % SeqSize) = 0
        BY <1>3 DEF TftpWrapAfter
    <2> QED
        BY <1>1, <1>3, <1>5, <2>1, <2>2, DataStateTypes
<1> QED
    BY <1>4, <1>5

LEMMA StoreOne ==
    ASSUME OneDevice, NEW i \in [mem : [MemSlots -> 0..FileBlocks], size : Nat], NEW t \in TftpType,
           NEW p \in Blocks, t.block = p.blk, t.wrap = 0
    PROVE  /\ \A k \in 1..FileBlocks : k = p.blk \/ Has(i.mem, k) => Has(StoreBlock(i, t, p).mem, k)
           /\ StoreBlock(i, t, p).size = IF i.size < p.blk THEN p.blk ELSE i.size
<1>1. p.blk \in 1..FileBlocks /\ FileBlocks \in Nat /\ SeqSize \in Nat
    BY TftpAssumption DEF Blocks
<1>2. StoreSlot(t) = p.blk - 1
    <2>1. \A b \in 1..FileBlocks : (b - 1) + 0 * SeqSize = b - 1
        BY <1>1
    <2> QED
        BY <1>1, <2>1 DEF StoreSlot
<1>3. \A k \in 1..FileBlocks : k - 1 \in MemSlots
    BY <1>1 DEF MemSlots
<1>4. /\ StoreBlock(i, t, p).mem = [s \in MemSlots |-> IF s = p.blk - 1 THEN p.blk ELSE i.mem[s]]
      /\ StoreBlock(i, t, p).size = IF i.size < (p.blk - 1) + 1 THEN (p.blk - 1) + 1 ELSE i.size
    BY <1>2 DEF StoreBlock
<1>5. (p.blk - 1) + 1 = p.blk
    BY <1>1
<1>6. \A k \in 1..FileBlocks : StoreBlock(i, t, p).mem[k - 1] = IF k - 1 = p.blk - 1 THEN p.blk ELSE i.mem[k - 1]
    BY <1>3, <1>4
<1>7. \A k \in 1..FileBlocks : k - 1 = p.blk - 1 <=> k = p.blk
    BY <1>1
<1> QED
    BY <1>4, <1>5, <1>6, <1>7 DEF Has

LEMMA GoodStays ==
    ASSUME NEW mem, NEW later, \A k \in 1..FileBlocks : Has(mem, k) => Has(later, k),
           NEW p \in {None} \cup Packets, Good(mem, p)
    PROVE  Good(later, p)
<1>1. CASE p.type = "ACK"
    <2>1. p \in Acks
        BY <1>1 DEF None, Packets, Requests, Acks, ArpPackets, Answers, Blocks
    <2>2. p.seq \in Nat /\ p.seq <= FileBlocks /\ FileBlocks \in Nat
        BY <1>1, <2>1, TftpAssumption DEF Acks, Good
    <2>3. p.seq = 0 \/ p.seq \in 1..FileBlocks
        BY <2>2
    <2> QED
        BY <1>1, <2>3 DEF Good
<1>2. CASE p.type = "DATA"
    <2>1. p \in Blocks
        BY <1>2 DEF None, Packets, Requests, Acks, ArpPackets, Answers, Blocks
    <2>2. p.blk \in 1..FileBlocks /\ FileBlocks \in Nat
        BY <2>1, TftpAssumption DEF Blocks
    <2>3. \A k \in 1..(p.blk - 1) : k \in 1..FileBlocks
        BY <2>2
    <2> QED
        BY <1>2, <2>3 DEF Good
<1> QED
    BY <1>1, <1>2 DEF Good

LEMMA SendGood ==
    ASSUME NEW mem, NEW a \in ArpType, NEW n \in SUBSET Packets, NEW p \in Requests \cup Acks,
           Good(mem, a.wait), Good(mem, p), \A q \in n : Good(mem, q)
    PROVE  Good(mem, ArpAfterSend(a, p).wait) /\ \A q \in NetAfterSend(a, n, p) : Good(mem, q)
<1>1. ArpAfterSend(a, p).wait \in {a.wait, p}
    BY SendDoes
<1>2. \A q \in NetAfterSend(a, n, p) : q \in n \/ q = p \/ q.type = "arpreq"
    BY SendDoes
<1>3. \A q : q.type = "arpreq" => Good(mem, q)
    BY DEF Good
<1> QED
    BY <1>1, <1>2, <1>3

LEMMA PacketGood ==
    ASSUME NEW mem, NEW t \in TftpType, NEW d, t.block <= FileBlocks,
           t.state # "RRQ" /\ t.block # 0 => Has(mem, t.block)
    PROVE  Good(mem, TftpPacket(t, d))
<1>1. CASE t.state = "RRQ"
    <2>1. TftpPacket(t, d).type = "RRQ"
        BY <1>1 DEF TftpPacket
    <2> QED
        BY <2>1 DEF Good
<1>2. CASE t.state # "RRQ"
    <2>1. TftpPacket(t, d).type = "ACK" /\ TftpPacket(t, d).seq = t.block
        BY <1>2 DEF TftpPacket
    <2> QED
        BY <1>2, <2>1 DEF Good
<1> QED
    BY <1>1, <1>2

-----------------------------------------------------------------------------
(* Steps that send no packet of the transfer.                              *)
QuietServer == DOMAIN server' = DOMAIN server /\ \A s \in DOMAIN server : server'[s].blk = server[s].blk

QuietLoop ==
    /\ loop'.handler = "tftp" => loop.handler = "tftp"
    /\ loop'.state = "SUCCESS" => loop.state = "SUCCESS"

LEMMA Quiet ==
    ASSUME ImageInv, img' = img, QuietLoop, QuietServer,
           tftp'.state = tftp.state, tftp'.block = tftp.block, tftp'.last = tftp.last, tftp'.wrap = tftp.wrap,
           arp'.wait \in {arp.wait, None}, \A q \in net' : q \in net \/ q.type \in {"arpreq", "arprep"}
    PROVE  ImageInv'
<1>1. Transfer'
    BY DEF ImageInv, Transfer, QuietLoop
<1>2. OnTheirWay'
    <2>1. \A q : q.type \in {"arpreq", "arprep", "none"} => Good(img.mem, q)
        BY DEF Good
    <2>2. None.type = "none"
        BY DEF None
    <2>3. Good(img.mem, arp'.wait) /\ \A q \in net' : Good(img.mem, q)
        BY <2>1, <2>2 DEF ImageInv, OnTheirWay
    <2> QED
        BY <2>3 DEF OnTheirWay
<1>3. AckedIsStored'
    BY DEF ImageInv, AckedIsStored, QuietServer
<1>4. Loaded'
    BY DEF ImageInv, Loaded, QuietLoop
<1> QED
    BY <1>1, <1>2, <1>3, <1>4 DEF ImageInv

(* A packet is sent, and the memory, the server and NetState stay.         *)
LEMMA Sent ==
    ASSUME ImageInv, img'.mem = img.mem, img'.size \in {img.size, 0}, server' = server,
           loop'.state = "SUCCESS" => loop.state = "SUCCESS" /\ img' = img, FileBlocks \in Nat,
           Transfer', OnTheirWay'
    PROVE  ImageInv'
<1>1. AckedIsStored'
    BY DEF ImageInv, AckedIsStored
<1>2. Loaded'
    BY DEF ImageInv, Loaded
<1> QED
    BY <1>1, <1>2 DEF ImageInv

LEMMA StartImage ==
    ASSUME OneDevice, Types, Types', LoopInv, ImageInv, NetLoop \/ StartProtocol
    PROVE  ImageInv'
<1>1. loop \in LoopType /\ eth \in EthType /\ FileBlocks \in Nat
    BY TftpAssumption DEF Types
<1>2. CASE NetLoop
    <2>1. loop'.handler = loop.handler /\ loop'.state = "CONTINUE" /\ arp'.wait = None
        BY <1>1, <1>2 DEF NetLoop, LoopType, Types, ArpType
    <2>2. UNCHANGED <<tftp, img, net, server>>
        BY <1>2 DEF NetLoop
    <2> QED
        BY <2>1, <2>2, Quiet DEF QuietLoop, QuietServer
<1>3. CASE StartProtocol
    <2> DEFINE l == [loop EXCEPT !.state = "CONTINUE", !.pc = "rx"]
               l3 == [[l EXCEPT !.devexists = TRUE] EXCEPT !.handler = "tftp"]
    <2>1. Restart(loop)
        BY <1>3 DEF StartProtocol
    <2>2. l \in LoopType /\ l.state = "CONTINUE" /\ l.handler = loop.handler /\ l3 \in LoopType /\ l3.state = "CONTINUE"
        BY <1>1 DEF LoopType
    <2> HIDE DEF l, l3
    <2>3. CASE eth.cur \in NoMac
        <3>1. NetStartAgain(l, eth) /\ UNCHANGED <<tftp, arp, img, net, server>>
            BY <2>1, <2>3 DEF Restart, l
        <3>2. loop' = [l EXCEPT !.handler = "ignore", !.timer = "again", !.age = 0] \/ loop' = [l EXCEPT !.state = "FAIL"]
            BY <1>1, <2>2, <3>1, AgainOne
        <3>3. QuietLoop
            BY <2>2, <3>2 DEF QuietLoop, LoopType
        <3> QED
            BY <3>1, <3>3, Quiet DEF QuietServer
    <2>4. CASE eth.cur \notin NoMac
        <3> DEFINE a == [arp EXCEPT !.ether = FALSE]
        <3>1. PICK port \in Ports :
                 LET t == [tftp EXCEPT !.server = 0, !.timeouts = 0, !.state = "RRQ", !.port = port, !.block = 0]
                 IN  /\ tftp' = t /\ loop' = SetTftpTimer(l3)
                     /\ arp' = ArpAfterSend(a, TftpPacket(t, eth.cur))
                     /\ net' = NetAfterSend(a, net, TftpPacket(t, eth.cur))
                     /\ img' = [img EXCEPT !.size = 0] /\ server' = server
            BY <2>1, <2>4 DEF Restart, TftpStart, l, l3
        <3>2. a \in ArpType /\ a.wait = arp.wait
            BY DEF Types, ArpType
        <3> HIDE DEF a
        <3>3. /\ tftp' \in TftpType /\ tftp'.state = "RRQ" /\ tftp'.block = 0
              /\ tftp'.last = tftp.last /\ tftp'.wrap = tftp.wrap
            BY <3>1 DEF Types, TftpType
        <3>4. /\ arp' = ArpAfterSend(a, TftpPacket(tftp', eth.cur))
              /\ net' = NetAfterSend(a, net, TftpPacket(tftp', eth.cur))
            BY <3>1
        <3>5. loop'.state = "CONTINUE"
            BY <2>2, <3>1, TimerTypes
        <3>6. img'.mem = img.mem /\ img'.size = 0 /\ server' = server
            BY <3>1 DEF Types
        <3>7. TftpPacket(tftp', eth.cur) \in Requests \cup Acks /\ Good(img.mem, TftpPacket(tftp', eth.cur))
            BY <1>1, <3>3, PacketTypes, PacketGood DEF EthType
        <3>8. Good(img.mem, arp'.wait) /\ \A q \in net' : Good(img.mem, q)
            BY <3>2, <3>4, <3>7, SendGood DEF ImageInv, OnTheirWay, Types
        <3>9. OnTheirWay'
            BY <3>6, <3>8 DEF OnTheirWay
        <3>10. Transfer'
            BY <1>1, <3>3, <3>6 DEF ImageInv, Transfer
        <3> QED
            BY <1>1, <3>5, <3>6, <3>9, <3>10, Sent
    <2> QED
        BY <2>3, <2>4
<1> QED
    BY <1>2, <1>3

(* TftpSend in a state that may acknowledge.                               *)
LEMMA SendImage ==
    ASSUME Types, ImageInv, loop.handler = "tftp", NEW t \in TftpType, t.block = tftp.block,
           t.state \in {tftp.state, "OACK"}, NEW n \in SUBSET Packets, n \subseteq net, TftpSend(t, n)
    PROVE  Good(img.mem, arp'.wait) /\ \A q \in net' : Good(img.mem, q)
<1>1. Good(img.mem, TftpPacket(t, eth.cur))
    BY PacketGood DEF ImageInv, Transfer
<1>2. TftpPacket(t, eth.cur) \in Requests \cup Acks
    BY PacketTypes DEF Types, EthType
<1> QED
    BY <1>1, <1>2, SendGood DEF TftpSend, ImageInv, OnTheirWay, Types

LEMMA TimersImage ==
    ASSUME OneDevice, Types, Types', LoopInv, ImageInv, Timers \/ Abort \/ Tick
    PROVE  ImageInv'
<1>1. loop \in LoopType /\ eth \in EthType /\ tftp \in TftpType /\ arp \in ArpType /\ FileBlocks \in Nat
    BY TftpAssumption DEF Types
<1>2. CASE LoopArp \/ NoTimeout \/ SwitchContinue \/ SwitchRestart \/ SwitchReturn \/ Abort
    <2>1. UNCHANGED <<tftp, arp, img, net, server>> /\ loop'.handler = loop.handler /\ loop'.state = loop.state
        BY <1>1, <1>2 DEF LoopArp, NoTimeout, SwitchContinue, SwitchRestart, SwitchReturn, Abort, LoopType
    <2> QED
        BY <2>1, Quiet DEF QuietLoop, QuietServer
<1>3. CASE ArpTryAgain
    <2>1. /\ UNCHANGED <<tftp, img, server>> /\ loop'.handler = loop.handler /\ loop'.state = loop.state
          /\ arp'.wait = arp.wait /\ net' = EthSend(net, eth.cur, ArpRequest(eth.cur))
        BY <1>1, <1>3 DEF ArpTryAgain, LoopType, ArpType
    <2>2. \A q \in net' : q \in net \/ q.type = "arpreq"
        BY <2>1 DEF EthSend, ArpRequest
    <2> QED
        BY <2>1, <2>2, Quiet DEF QuietLoop, QuietServer
<1>4. CASE ArpGiveUp
    <2> DEFINE l == [loop EXCEPT !.pc = "time"]
    <2>1. UNCHANGED <<tftp, img, net, server>> /\ arp'.wait = arp.wait /\ NetStartAgain(l, eth)
        BY <1>1, <1>4 DEF ArpGiveUp, ArpType
    <2>2. l \in LoopType /\ l.handler = loop.handler /\ l.state = loop.state
        BY <1>1 DEF LoopType
    <2> HIDE DEF l
    <2>3. loop' = [l EXCEPT !.handler = "ignore", !.timer = "again", !.age = 0] \/ loop' = [l EXCEPT !.state = "FAIL"]
        BY <1>1, <2>1, <2>2, AgainOne
    <2>4. QuietLoop
        BY <2>2, <2>3 DEF QuietLoop, LoopType
    <2> QED
        BY <2>1, <2>4, Quiet DEF QuietServer
<1>5. CASE TftpTimeoutGiveUp
    <2>1. /\ UNCHANGED <<arp, img, net, server>> /\ NetStartAgain(LoopCalled, eth)
          /\ tftp' = [tftp EXCEPT !.timeouts = @ + 1]
        BY <1>5 DEF TftpTimeoutGiveUp
    <2>2. LoopCalled \in LoopType /\ LoopCalled.handler = loop.handler /\ LoopCalled.state = loop.state
        BY <1>1 DEF LoopType, LoopCalled
    <2>3. loop' = [LoopCalled EXCEPT !.handler = "ignore", !.timer = "again", !.age = 0]
          \/ loop' = [LoopCalled EXCEPT !.state = "FAIL"]
        BY <1>1, <2>1, <2>2, AgainOne
    <2>4. QuietLoop
        BY <2>2, <2>3 DEF QuietLoop, LoopType
    <2>5. tftp'.state = tftp.state /\ tftp'.block = tftp.block /\ tftp'.last = tftp.last /\ tftp'.wrap = tftp.wrap
        BY <1>1, <2>1 DEF TftpType
    <2> QED
        BY <2>1, <2>4, <2>5, Quiet DEF QuietServer
<1>6. CASE startAgainTimeout
    <2>1. /\ UNCHANGED <<tftp, arp, img, net, server>> /\ loop'.handler = loop.handler /\ loop'.state = "RESTART"
        BY <1>1, <1>6 DEF startAgainTimeout, LoopCalled, LoopType
    <2> QED
        BY <2>1, Quiet DEF QuietLoop, QuietServer
<1>7. CASE TftpTimeoutRetry
    <2>1. /\ UNCHANGED <<img, server>> /\ loop' = SetTftpTimer(LoopCalled) /\ loop.timer = "tftp"
          /\ tftp' = [tftp EXCEPT !.timeouts = @ + 1] /\ TftpSend(tftp, net)
        BY <1>7 DEF TftpTimeoutRetry
    <2>2. LoopCalled \in LoopType /\ LoopCalled.handler = loop.handler /\ LoopCalled.state = loop.state
        BY <1>1 DEF LoopType, LoopCalled
    <2>3. loop'.handler = loop.handler /\ loop'.state = loop.state
        BY <2>1, <2>2, TimerTypes
    <2>4. tftp'.state = tftp.state /\ tftp'.block = tftp.block /\ tftp'.last = tftp.last /\ tftp'.wrap = tftp.wrap
        BY <1>1, <2>1 DEF TftpType
    <2>5. loop.handler = "tftp"
        BY <2>1 DEF LoopInv
    <2>6. Good(img.mem, arp'.wait) /\ \A q \in net' : Good(img.mem, q)
        BY <1>1, <2>1, <2>5, SendImage DEF Types
    <2>7. OnTheirWay'
        BY <2>1, <2>6 DEF OnTheirWay
    <2>8. Transfer'
        BY <2>1, <2>3, <2>4 DEF ImageInv, Transfer
    <2> QED
        BY <1>1, <2>1, <2>3, <2>7, <2>8, Sent
<1>8. CASE Tick
    <2>1. /\ UNCHANGED <<tftp, img, net>> /\ loop'.handler = loop.handler /\ loop'.state = loop.state
          /\ arp'.wait = arp.wait
          /\ server' = [s \in DOMAIN server |-> [server[s] EXCEPT !.due = server[s].blk <= FileBlocks]]
        BY <1>1, <1>8 DEF Tick, LoopType, ArpType
    <2>2. QuietServer
        <3>1. \A s \in DOMAIN server : server[s] \in Sessions
            BY DEF Types
        <3>2. ASSUME NEW x \in Sessions, NEW b
              PROVE  [x EXCEPT !.due = b].blk = x.blk
            BY DEF Sessions
        <3> QED
            BY <2>1, <3>1, <3>2 DEF QuietServer
    <2> QED
        BY <2>1, <2>2, Quiet DEF QuietLoop
<1> QED
    BY <1>2, <1>3, <1>4, <1>5, <1>6, <1>7, <1>8 DEF Timers

LEMMA ReceiveImage ==
    ASSUME OneDevice, Types, Types', LoopInv, ImageInv, NEW p \in net, Receive(p)
    PROVE  ImageInv'
<1>1. /\ loop \in LoopType /\ eth \in EthType /\ tftp \in TftpType /\ arp \in ArpType
      /\ net \in SUBSET Packets /\ FileBlocks \in Nat /\ tftp.wrap = 0
    BY TftpAssumption DEF Types, ImageInv, Transfer
<1>2. CASE NetReceiveArp(p)
    <2>1. PICK n \in {net, net \ {p}} :
             /\ IF arp.wait = None THEN net' = n /\ UNCHANGED arp
                ELSE /\ arp' = [arp EXCEPT !.ether = TRUE, !.wait = None]
                     /\ net' = EthSend(n, eth.cur, [arp.wait EXCEPT !.dev = eth.cur])
             /\ UNCHANGED <<loop, eth, tftp, img, server, hist>>
        BY <1>2 DEF NetReceiveArp
    <2>2. CASE arp.wait = None
        BY <2>1, <2>2, Quiet DEF QuietLoop, QuietServer
    <2>3. CASE arp.wait # None
        <3> DEFINE w == [arp.wait EXCEPT !.dev = eth.cur]
        <3>1. arp.wait \in Requests \cup Acks /\ Good(img.mem, arp.wait)
            BY <1>1, <2>3 DEF ArpType, ImageInv, OnTheirWay
        <3>2. Good(img.mem, w)
            BY <3>1 DEF Requests, Acks, Good
        <3>3. arp'.wait = None /\ net' = EthSend(n, eth.cur, w)
            BY <1>1, <2>1, <2>3 DEF ArpType
        <3> HIDE DEF w
        <3>4. \A q \in net' : Good(img.mem, q)
            BY <2>1, <3>2, <3>3 DEF EthSend, ImageInv, OnTheirWay
        <3>5. Good(img.mem, arp'.wait)
            BY <3>3 DEF None, Good
        <3>6. OnTheirWay' /\ Transfer'
            BY <2>1, <3>4, <3>5 DEF ImageInv, OnTheirWay, Transfer
        <3> QED
            BY <1>1, <2>1, <3>6, Sent
    <2> QED
        BY <2>2, <2>3
<1>3. CASE NetReceiveIgnored(p)
    <2>1. PICK n \in {net, net \ {p}} : net' = n /\ UNCHANGED <<loop, eth, tftp, arp, img, server, hist>>
        BY <1>3 DEF NetReceiveIgnored
    <2> QED
        BY <2>1, Quiet DEF QuietLoop, QuietServer
<1>4. CASE TftpOack(p)
    <2>1. PICK n \in {net, net \ {p}} :
             /\ TftpAccepts(p) /\ tftp' = [tftp EXCEPT !.state = "OACK", !.server = p.sid]
             /\ TftpSend(tftp', n) /\ UNCHANGED <<loop, eth, img, server, hist>>
        BY <1>4 DEF TftpOack
    <2>2. /\ tftp'.state = "OACK" /\ tftp'.block = tftp.block /\ tftp'.last = tftp.last /\ tftp'.wrap = tftp.wrap
          /\ loop.handler = "tftp" /\ tftp' \in TftpType
        BY <1>1, <2>1 DEF TftpType, TftpAccepts, Types
    <2>3. n \in SUBSET Packets /\ n \subseteq net
        BY <1>1, <2>1
    <2>4. Good(img.mem, arp'.wait) /\ \A q \in net' : Good(img.mem, q)
        BY <2>1, <2>2, <2>3, SendImage
    <2>5. OnTheirWay' /\ Transfer'
        BY <2>1, <2>2, <2>4 DEF ImageInv, OnTheirWay, Transfer
    <2> QED
        BY <1>1, <2>1, <2>5, Sent
<1>5. CASE TftpDataRestart(p)
    <2>1. PICK n \in {net, net \ {p}} :
             /\ Delivered(p, n) /\ p.type = "DATA" /\ TftpAccepts(p) /\ tftp' = TftpDataState(tftp, p)
             /\ NetStartAgain(loop, EthHaltInRecv(n)) /\ net' = n /\ UNCHANGED <<arp, img, server, hist>>
        BY <1>5 DEF TftpDataRestart
    <2>2. n \in SUBSET Packets /\ p \in Blocks /\ loop.pc = "rx" /\ loop.handler = "tftp"
        BY <2>1, Received DEF TftpAccepts
    <2>3. loop.devexists
        BY <2>2 DEF LoopInv
    <2>4. EthHaltInRecv(n) \in EthType /\ EthHaltInRecv(n).first = eth.first
        BY <1>1, <2>2, HaltTypes, HaltKeeps
    <2>5. loop' = [loop EXCEPT !.handler = "ignore", !.timer = "again", !.age = 0]
        BY <1>1, <2>1, <2>3, <2>4, AgainOne
    <2>6. loop'.handler = "ignore" /\ loop'.state = loop.state
        BY <1>1, <2>5 DEF LoopType
    <2>7. tftp'.block = p.blk /\ tftp'.wrap = 0 /\ tftp'.last \in {tftp.last, 0} /\ p.blk \in 1..FileBlocks
        BY <1>1, <2>1, <2>2, DataOne
    <2>8. Transfer'
        BY <1>1, <2>1, <2>6, <2>7 DEF ImageInv, Transfer
    <2>9. OnTheirWay'
        BY <2>1 DEF ImageInv, OnTheirWay
    <2> QED
        BY <1>1, <2>1, <2>6, <2>8, <2>9, Sent
<1>6. CASE TftpError(p)
    <2>1. PICK n \in {net, net \ {p}} :
             /\ Delivered(p, n) /\ NetStartAgain(loop, EthHaltInRecv(n)) /\ net' = n
             /\ UNCHANGED <<tftp, arp, img, server, hist>>
        BY <1>6 DEF TftpError
    <2>2. n \in SUBSET Packets
        BY <2>1, Received
    <2>3. EthHaltInRecv(n) \in EthType /\ EthHaltInRecv(n).first = eth.first
        BY <1>1, <2>2, HaltTypes, HaltKeeps
    <2>4. loop' = [loop EXCEPT !.handler = "ignore", !.timer = "again", !.age = 0]
          \/ loop' = [loop EXCEPT !.state = "FAIL"]
        BY <1>1, <2>1, <2>3, AgainOne
    <2>5. QuietLoop
        BY <1>1, <2>4 DEF QuietLoop, LoopType
    <2> QED
        BY <2>1, <2>5, Quiet DEF QuietServer
<1>7. CASE TftpDataSame(p)
    <2>1. PICK n \in {net, net \ {p}} :
             /\ Delivered(p, n) /\ p.type = "DATA" /\ tftp' = TftpDataState(tftp, p)
             /\ TftpDataState(tftp, p).block = TftpDataState(tftp, p).last
             /\ net' = n /\ UNCHANGED <<loop, eth, arp, img, server, hist>>
        BY <1>7 DEF TftpDataSame
    <2>2. p \in Blocks
        BY <2>1, Received
    <2>3. /\ tftp'.block = p.blk /\ tftp'.wrap = 0 /\ tftp'.last \in {tftp.last, 0} /\ p.blk \in 1..FileBlocks
          /\ tftp'.state = "DATA" /\ tftp'.block = tftp'.last
        BY <1>1, <2>1, <2>2, DataOne
    <2>4. tftp'.last = tftp.last /\ tftp.last # 0
        BY <2>3
    <2>5. Transfer'
        BY <2>1, <2>3, <2>4 DEF ImageInv, Transfer
    <2>6. OnTheirWay'
        BY <2>1 DEF ImageInv, OnTheirWay
    <2> QED
        BY <1>1, <2>1, <2>5, <2>6, Sent
<1>8. CASE TftpDataStored(p)
    <2> DEFINE t == TftpDataState(tftp, p)
    <2>1. PICK n \in {net, net \ {p}} :
             /\ Delivered(p, n) /\ p.type = "DATA" /\ TftpAccepts(p)
             /\ tftp' = [t EXCEPT !.last = t.block]
             /\ loop' = [SetTftpTimer(loop) EXCEPT !.state = IF p.blk = FileBlocks THEN "SUCCESS" ELSE @]
             /\ img' = StoreBlock(img, t, p)
             /\ TftpSend(t, n)
             /\ UNCHANGED <<eth, server, hist>>
        BY <1>8 DEF TftpDataStored
    <2>2. n \in SUBSET Packets /\ n \subseteq net /\ p \in Blocks /\ p \in Packets
        BY <1>1, <2>1, Received
    <2>3. /\ t \in TftpType /\ t.block = p.blk /\ t.wrap = 0 /\ t.last \in {tftp.last, 0} /\ t.state = "DATA"
          /\ p.blk \in 1..FileBlocks
        BY <1>1, <2>2, DataOne, DataStateTypes
    <2> HIDE DEF t
    <2>4. tftp'.block = p.blk /\ tftp'.last = p.blk /\ tftp'.wrap = 0 /\ tftp'.state = "DATA"
        BY <2>1, <2>3 DEF TftpType
    <2>5. /\ \A k \in 1..FileBlocks : k = p.blk \/ Has(img.mem, k) => Has(img'.mem, k)
          /\ img'.size = IF img.size < p.blk THEN p.blk ELSE img.size
        <3>1. img \in [mem : [MemSlots -> 0..FileBlocks], size : Nat]
            BY DEF Types
        <3>2. /\ \A k \in 1..FileBlocks : k = p.blk \/ Has(img.mem, k) => Has(StoreBlock(img, t, p).mem, k)
              /\ StoreBlock(img, t, p).size = IF img.size < p.blk THEN p.blk ELSE img.size
            BY <2>2, <2>3, <3>1, StoreOne
        <3>3. img' = StoreBlock(img, t, p)
            BY <2>1
        <3> QED
            BY <3>2, <3>3
    <2>6. \A k \in 1..FileBlocks : Has(img.mem, k) => Has(img'.mem, k)
        BY <2>5
    <2>7. Has(img'.mem, p.blk)
        BY <2>3, <2>5
    <2>8. Transfer'
        BY <1>1, <2>3, <2>4, <2>7 DEF Transfer
    <2>9. OnTheirWay'
        <3>1. Good(img'.mem, arp.wait)
            <4>1. Good(img.mem, arp.wait) /\ arp.wait \in {None} \cup Packets
                BY <1>1 DEF ImageInv, OnTheirWay, ArpType, Packets
            <4> QED
                BY <2>6, <4>1, GoodStays
        <3>2. \A q \in n : Good(img'.mem, q)
            <4>1. ASSUME NEW q \in n
                  PROVE  Good(img'.mem, q)
                <5>1. q \in Packets /\ Good(img.mem, q)
                    BY <2>2, <4>1 DEF ImageInv, OnTheirWay
                <5> QED
                    BY <2>6, <5>1, GoodStays
            <4> QED
                BY <4>1
        <3>3. Good(img'.mem, TftpPacket(t, eth.cur)) /\ TftpPacket(t, eth.cur) \in Requests \cup Acks
            BY <1>1, <2>3, <2>7, PacketGood, PacketTypes DEF EthType
        <3>4. Good(img'.mem, arp'.wait) /\ \A q \in net' : Good(img'.mem, q)
            BY <1>1, <2>1, <2>2, <3>1, <3>2, <3>3, SendGood DEF TftpSend
        <3> QED
            BY <3>4 DEF OnTheirWay
    <2>10. AckedIsStored'
        <3>1. ASSUME NEW s \in DOMAIN server, server[s].blk <= FileBlocks, NEW k \in 1..(server[s].blk - 1)
              PROVE  Has(img'.mem, k)
            <4>1. server[s] \in Sessions
                BY DEF Types
            <4>2. server[s].blk \in Nat
                BY <1>1, <4>1 DEF Sessions
            <4>3. k \in 1..FileBlocks
                BY <1>1, <3>1, <4>2
            <4>4. Has(img.mem, k)
                BY <3>1 DEF ImageInv, AckedIsStored, Has
            <4> QED
                BY <2>6, <4>3, <4>4
        <3> QED
            BY <2>1, <3>1 DEF AckedIsStored, Has
    <2>11. Loaded'
        <3>1. img.size \in Nat /\ img.size <= FileBlocks
            BY DEF Types, ImageInv, Loaded
        <3>2. img'.size <= FileBlocks /\ (p.blk = FileBlocks => img'.size = FileBlocks)
            BY <1>1, <2>3, <2>5, <3>1
        <3>3. p.blk = FileBlocks => \A k \in 1..FileBlocks : Has(img'.mem, k)
            <4>1. ASSUME p.blk = FileBlocks, NEW k \in 1..FileBlocks, k # p.blk
                  PROVE  Has(img.mem, k)
                <5>1. k \in 1..(p.blk - 1)
                    BY <1>1, <4>1
                <5> QED
                    BY <2>1, <5>1 DEF ImageInv, OnTheirWay, Good
            <4> QED
                BY <2>5, <4>1
        <3>4. loop'.state = IF p.blk = FileBlocks THEN "SUCCESS" ELSE loop.state
            <4> DEFINE l == SetTftpTimer(loop)
            <4>1. l \in LoopType /\ l.state = loop.state
                BY <1>1, TimerTypes
            <4>2. loop' = [l EXCEPT !.state = IF p.blk = FileBlocks THEN "SUCCESS" ELSE @]
                BY <2>1
            <4> HIDE DEF l
            <4> QED
                BY <4>1, <4>2 DEF LoopType
        <3>5. loop.state = "SUCCESS" => img.size = FileBlocks /\ \A k \in 1..FileBlocks : Has(img'.mem, k)
            BY <2>6 DEF ImageInv, Loaded
        <3>6. loop.state = "SUCCESS" => img'.size = FileBlocks
            BY <1>1, <2>3, <2>5, <3>5
        <3> QED
            BY <3>2, <3>3, <3>4, <3>5, <3>6 DEF Loaded
    <2> QED
        BY <2>8, <2>9, <2>10, <2>11 DEF ImageInv
<1> QED
    BY <1>2, <1>3, <1>4, <1>5, <1>6, <1>7, <1>8 DEF Receive

LEMMA ServerImage ==
    ASSUME OneDevice, Types, ImageInv,
           \/ \E p \in net : Serve(p) \/ Lose(p)
           \/ \E s \in DOMAIN server : ServerResend(s)
    PROVE  ImageInv'
<1>1. UNCHANGED <<loop, eth, tftp, arp, img>> /\ FileBlocks \in Nat
    BY TftpAssumption DEF Serve, ServerArp, ServerRequest, ServerAck, Unheard, Lose, ServerResend
<1>2. ASSUME \A q \in net' : Good(img.mem, q), NEW v, server' = v,
             \A s \in DOMAIN v : v[s].blk <= FileBlocks =>
                 \/ s \in DOMAIN server /\ v[s].blk = server[s].blk
                 \/ \A k \in 1..(v[s].blk - 1) : Has(img.mem, k)
      PROVE  ImageInv'
    <2>1. Transfer' /\ Loaded'
        BY <1>1 DEF ImageInv, Transfer, Loaded
    <2>2. OnTheirWay'
        BY <1>1, <1>2 DEF ImageInv, OnTheirWay
    <2>3. AckedIsStored'
        BY <1>1, <1>2 DEF ImageInv, AckedIsStored, Has
    <2> QED
        BY <2>1, <2>2, <2>3 DEF ImageInv
<1>3. ASSUME NEW s, NEW ses, ses.blk <= FileBlocks => \A k \in 1..(ses.blk - 1) : Has(img.mem, k),
             ses.blk <= FileBlocks
      PROVE  Good(img.mem, Packet(s, ses))
    BY <1>3 DEF Packet, Good
<1>4. \A q \in net : Good(img.mem, q)
    BY DEF ImageInv, OnTheirWay
<1>5. CASE \E p \in net : ServerArp(p) \/ Unheard(p) \/ Lose(p)
    <2>1. server' = server /\ \A q \in net' : q \in net \/ q.type = "arprep"
        BY <1>5 DEF ServerArp, Unheard, Lose
    <2>2. \A q \in net' : Good(img.mem, q)
        BY <1>4, <2>1 DEF Good
    <2> QED
        BY <1>2, <2>1, <2>2
<1>6. ASSUME NEW p \in net, ServerRequest(p)
      PROVE  ImageInv'
    <2> DEFINE ses == [dev |-> p.dev, port |-> p.port, blk |-> IF UseOack THEN 0 ELSE 1, due |-> FALSE]
               sid == Len(server) + 1
               err == [ses EXCEPT !.blk = FileBlocks + 1]
    <2>1. /\ ses.blk \in {0, 1} /\ err.blk = FileBlocks + 1
          /\ \/ /\ server' = Append(server, ses)
                /\ net' = (net \ {p}) \cup {Packet(sid, ses)}
             \/ /\ server' = Append(server, err)
                /\ net' = (net \ {p}) \cup {[type |-> "ERROR", dev |-> p.dev, port |-> p.port, sid |-> sid]}
             \/ net' = net \ {p} /\ server' = server
        BY <1>6 DEF ServerRequest
    <2> HIDE DEF ses, err
    <2>2. ASSUME NEW x
          PROVE  \A s \in DOMAIN Append(server, x) :
                     \/ s \in DOMAIN server /\ Append(server, x)[s] = server[s]
                     \/ Append(server, x)[s] = x
        <3>1. server \in Seq(Sessions)
            BY DEF Types
        <3> QED
            BY <3>1
    <2>3. \A k \in 1..(ses.blk - 1) : FALSE
        BY <2>1
    <2>4. CASE server' = Append(server, ses) /\ net' = (net \ {p}) \cup {Packet(sid, ses)}
        <3>1. ses.blk <= FileBlocks
            BY <1>1, <2>1, TftpAssumption
        <3>2. Good(img.mem, Packet(sid, ses))
            BY <1>3, <2>3, <3>1
        <3>3. \A q \in net' : Good(img.mem, q)
            BY <1>4, <2>4, <3>2
        <3>4. \A s \in DOMAIN server' :
                \/ s \in DOMAIN server /\ server'[s].blk = server[s].blk
                \/ \A k \in 1..(server'[s].blk - 1) : Has(img.mem, k)
            BY <2>2, <2>3, <2>4
        <3> QED
            BY <1>2, <3>3, <3>4
    <2>5. CASE /\ server' = Append(server, err)
               /\ net' = (net \ {p}) \cup {[type |-> "ERROR", dev |-> p.dev, port |-> p.port, sid |-> sid]}
        <3>1. \A q \in net' : Good(img.mem, q)
            BY <1>4, <2>5 DEF Good
        <3>2. ~(err.blk <= FileBlocks)
            BY <1>1, <2>1
        <3>3. \A s \in DOMAIN server' : server'[s].blk <= FileBlocks =>
                  s \in DOMAIN server /\ server'[s].blk = server[s].blk
            BY <2>2, <2>5, <3>2
        <3> QED
            BY <1>2, <3>1, <3>3
    <2>6. CASE net' = net \ {p} /\ server' = server
        BY <1>2, <1>4, <2>6
    <2> QED
        BY <2>1, <2>4, <2>5, <2>6
<1>7. ASSUME NEW s \in DOMAIN server
      PROVE  /\ server[s].blk \in 0..(FileBlocks + 1)
             /\ server[s].blk <= FileBlocks => \A k \in 1..(server[s].blk - 1) : Has(img.mem, k)
             /\ \A x : \A i \in DOMAIN [server EXCEPT ![s] = x] :
                    [server EXCEPT ![s] = x][i] = IF i = s THEN x ELSE server[i]
             /\ \A x : DOMAIN [server EXCEPT ![s] = x] = DOMAIN server
    <2>1. server[s] \in Sessions /\ DOMAIN server = 1..Len(server)
        BY DEF Types
    <2>2. server[s].blk \in 0..(FileBlocks + 1)
        BY <2>1 DEF Sessions
    <2>3. server[s].blk <= FileBlocks => \A k \in 1..(server[s].blk - 1) : Has(img.mem, k)
        BY DEF ImageInv, AckedIsStored, Has
    <2> QED
        BY <2>2, <2>3
<1>8. ASSUME NEW p \in net, ServerAck(p)
      PROVE  ImageInv'
    <2> DEFINE ses == [server[p.sid] EXCEPT !.blk = @ + 1, !.due = FALSE]
    <2>1. \/ /\ p.sid \in DOMAIN server /\ server[p.sid].blk <= FileBlocks /\ p.seq = server[p.sid].blk % SeqSize
             /\ server' = [server EXCEPT ![p.sid] = ses]
             /\ net' = (net \ {p}) \cup (IF ses.blk > FileBlocks THEN {} ELSE {Packet(p.sid, ses)})
          \/ net' = net \ {p} /\ server' = server
        BY <1>8 DEF ServerAck
    <2>2. CASE /\ p.sid \in DOMAIN server /\ server[p.sid].blk <= FileBlocks /\ p.seq = server[p.sid].blk % SeqSize
               /\ server' = [server EXCEPT ![p.sid] = ses]
               /\ net' = (net \ {p}) \cup (IF ses.blk > FileBlocks THEN {} ELSE {Packet(p.sid, ses)})
        <3> DEFINE b == server[p.sid].blk
        <3>1. b \in 0..(FileBlocks + 1) /\ b <= FileBlocks /\ p.seq = b % SeqSize /\ p.type = "ACK"
            BY <1>7, <1>8, <2>2 DEF ServerAck
        <3>2. \A k \in 1..(b - 1) : Has(img.mem, k)
            BY <1>7, <2>2
        <3>3. ses.blk = b + 1
            <4>1. server[p.sid] \in Sessions
                BY <2>2 DEF Types
            <4> QED
                BY <4>1 DEF Sessions
        <3> HIDE DEF b, ses
        <3>4. p.seq = b
            <4>1. b \in Nat /\ b < SeqSize /\ SeqSize \in Nat \ {0} /\ b < SeqSize + SeqSize
                BY <1>1, <3>1, TftpAssumption DEF OneDevice
            <4>2. b % SeqSize = b
                BY <4>1, ModOfSum
            <4> QED
                BY <3>1, <4>2
        <3>5. b # 0 => Has(img.mem, b)
            BY <1>4, <3>1, <3>4 DEF Good
        <3>6. \A k \in 1..(ses.blk - 1) : Has(img.mem, k)
            <4>1. \A k \in 1..((b + 1) - 1) : k \in 1..(b - 1) \/ (k = b /\ b # 0)
                BY <1>1, <3>1
            <4> QED
                BY <3>2, <3>3, <3>5, <4>1
        <3>7. ses.blk > FileBlocks \/ Good(img.mem, Packet(p.sid, ses))
            <4>1. ses.blk > FileBlocks \/ ses.blk <= FileBlocks
                BY <1>1, <3>1, <3>3
            <4> QED
                BY <1>3, <3>6, <4>1
        <3>8. \A q \in net' : Good(img.mem, q)
            BY <1>4, <2>2, <3>7
        <3>9. \A s \in DOMAIN server' :
                \/ s \in DOMAIN server /\ server'[s].blk = server[s].blk
                \/ \A k \in 1..(server'[s].blk - 1) : Has(img.mem, k)
            BY <1>7, <2>2, <3>6
        <3> QED
            BY <1>2, <3>8, <3>9
    <2>3. CASE net' = net \ {p} /\ server' = server
        BY <1>2, <1>4, <2>3
    <2> QED
        BY <2>1, <2>2, <2>3
<1>9. ASSUME NEW s \in DOMAIN server, ServerResend(s)
      PROVE  ImageInv'
    <2> DEFINE ses == [server[s] EXCEPT !.due = FALSE]
    <2>1. server[s].due /\ server' = [server EXCEPT ![s] = ses] /\ net' = net \cup {Packet(s, server[s])}
        BY <1>9 DEF ServerResend
    <2>2. ses.blk = server[s].blk
        BY DEF Types, Sessions
    <2> HIDE DEF ses
    <2>3. server[s].blk <= FileBlocks
        BY <2>1 DEF Types
    <2>4. Good(img.mem, Packet(s, server[s]))
        BY <1>3, <1>7, <2>3
    <2>5. \A q \in net' : Good(img.mem, q)
        BY <1>4, <2>1, <2>4
    <2>6. \A i \in DOMAIN server' : i \in DOMAIN server /\ server'[i].blk = server[i].blk
        BY <1>7, <2>1, <2>2
    <2> QED
        BY <1>2, <2>5, <2>6
<1> QED
    BY <1>5, <1>6, <1>8, <1>9 DEF Serve

LEMMA StepImage ==
    ASSUME OneDevice, Types, Types', LoopInv, ImageInv, [Next]_vars
    PROVE  ImageInv'
<1>1. CASE UNCHANGED vars
    BY <1>1, Quiet DEF vars, QuietLoop, QuietServer
<1>2. CASE Next
    <2>1. CASE NetLoop \/ StartProtocol
        BY <2>1, StartImage
    <2>2. CASE Timers \/ Abort \/ Tick
        BY <2>2, TimersImage
    <2>3. CASE \E p \in net : Receive(p)
        BY <2>3, ReceiveImage
    <2>4. CASE (\E p \in net : Serve(p) \/ Lose(p)) \/ \E s \in DOMAIN server : ServerResend(s)
        BY <2>4, ServerImage
    <2> QED
        BY <1>2, <2>1, <2>2, <2>3, <2>4 DEF Next
<1> QED
    BY <1>1, <1>2

LEMMA AlwaysImage ==
    ASSUME OneDevice
    PROVE  Spec => [](LoopInv /\ ImageInv)
<1>1. Init => LoopInv /\ ImageInv
    <2> SUFFICES ASSUME Init PROVE LoopInv /\ ImageInv
        OBVIOUS
    <2>1. FileBlocks \in Nat
        BY TftpAssumption
    <2>2. LoopInv
        BY DEF Init, LoopInv
    <2>3. Transfer /\ Loaded
        BY <2>1 DEF Init, Transfer, Loaded
    <2>4. OnTheirWay
        BY DEF Init, OnTheirWay, Good, None
    <2>5. AckedIsStored
        BY DEF Init, AckedIsStored
    <2> QED
        BY <2>2, <2>3, <2>4, <2>5 DEF ImageInv
<1>2. WaitInv => Types
    BY DEF WaitInv
<1>3. Types /\ Types' /\ LoopInv /\ ImageInv /\ [Next]_vars => LoopInv' /\ ImageInv'
    BY StepLoop, StepImage
<1> QED
    BY <1>1, <1>2, <1>3, AlwaysWait, PTL DEF Spec

(* The server never gets ahead of memory: TftpHandler has stored every     *)
(* block before the one a transfer has reached, also those stored in an    *)
(* attempt given up since.                                                 *)
THEOREM AckedStored ==
    ASSUME OneDevice
    PROVE  Spec => []AckedIsStored
<1>1. ImageInv => AckedIsStored
    BY DEF ImageInv
<1> QED
    BY <1>1, AlwaysImage, PTL

(* NetLoop reports success only when every block of the file is at its     *)
(* place in memory and NetBootFileXferSize is the length of the file.      *)
THEOREM ImageComplete ==
    ASSUME OneDevice
    PROVE  Spec => []ImageCorrect
<1>1. LoopInv /\ ImageInv => ImageCorrect
    BY DEF LoopInv, ImageInv, Loaded, Has, ImageCorrect
<1> QED
    BY <1>1, AlwaysImage, PTL
============================================================================
