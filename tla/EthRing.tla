------------------------------ MODULE EthRing ------------------------------
(***************************************************************************)
(* The receive rings of the Ethernet driver (cpu/mips/ar7240/ag7240.c),    *)
(* the devices of net/eth.c and the way NetLoop (net/net.c) starts, polls, *)
(* switches and stops them.  The engine of each device stores frames on    *)
(* its own while the program runs; both devices store into NetRxPackets.   *)
(***************************************************************************)
EXTENDS Integers, FiniteSets

CONSTANTS
    EthDevices,         \* number of MACs registered, CFG_AG7240_NMACS
    RxSlots,            \* NO_OF_RX_FIFOS
    MaxFrames,          \* bound on the frames that arrive
    MinLinks,           \* how many cables stay connected, at least
    RestartFrom         \* who calls NetStartAgain: "timeout", "packet"

ASSUME EthAssumption == EthDevices \in Nat \ {0} /\ RxSlots \in Nat \ {0} /\ MaxFrames \in Nat

VARIABLES
    rings,              \* per device: descriptors, next_rx, the engine
    packets,            \* NetRxPackets: the frame in each buffer
    linkUp,             \* the cable of each device
    current,            \* eth_current
    ethact,             \* the variable of that name
    netState,           \* NetState
    depth,              \* 1 while ctrlc runs NetLoop for the console
    at,                 \* where the program is
    recvOf,             \* the device, slot and length recv works on
    frames,             \* frames so far
    handed,             \* what NetReceive got last: described and found
    restarted           \* whether the handler of a packet started again: "never",
                        \* "now", or "before" the last loop was started

ethVars == <<rings, packets, linkUp, current, ethact, netState, depth, at, recvOf, frames, handed, restarted>>

Devs == 0 .. EthDevices - 1
Slots == 0 .. RxSlots - 1
NoFrame == 0

After(i, n) == (i + 1) % n

(* The engine is stopped; the program waits until it is.                   *)
Halted(r, d) == [r EXCEPT ![d].on = FALSE]

(* Mutant: next_rx is not reset.                                           *)
CleanRingKeepsNext(r, d) ==
    [r EXCEPT ![d] = [owner |-> [s \in Slots |-> "dma"], described |-> @.described,
                      next |-> @.next, pos |-> 0, on |-> TRUE]]

(* Every descriptor goes to the engine, which starts at the first.         *)
CleanRing(r, d) ==
    [r EXCEPT ![d] = [owner |-> [s \in Slots |-> "dma"], described |-> @.described,
                      next |-> 0, pos |-> 0, on |-> TRUE]]

-----------------------------------------------------------------------------
(* The devices of net/eth.c, a ring in which each leads to the next. The   *)
(* name of a device is its number, since the driver names them "eth%d".    *)
NoDevice == -1

(* The first device leads to itself; another one goes behind the device    *)
(* that leads to the first.                                                *)
eth_register(list, dev) ==
    IF list.first = NoDevice THEN [first |-> dev, next |-> [d \in {dev} |-> dev]]
    ELSE [first |-> list.first,
          next |-> [d \in {dev} \cup DOMAIN list.next |->
                       CASE d = dev -> list.first
                         [] d # dev /\ list.next[d] = list.first -> dev
                         [] OTHER -> list.next[d]]]

(* ag7240_enet_initialize registers the MACs in their order.               *)
Registered[n \in 0 .. EthDevices] ==
    IF n = 0 THEN [first |-> NoDevice, next |-> <<>>] ELSE eth_register(Registered[n - 1], n - 1)

EthList == Registered[EthDevices]

(* The k-th device of a walk that starts at d.                             *)
Walk(d, k) == LET w[i \in 0 .. k] == IF i = 0 THEN d ELSE EthList.next[w[i - 1]] IN w[k]

(* The first of that name on the walk from d, before it is at d again.     *)
Found(d, name) ==
    LET S == {k \in 0 .. EthDevices - 1 : Walk(d, k) = name /\ \A j \in 1 .. k : Walk(d, j) # d}
    IN  IF S = {} THEN NoDevice ELSE Walk(d, CHOOSE k \in S : \A j \in S : k <= j)

eth_get_dev_by_name(name) == Found(EthList.first, name)

(* How many devices are before the current one.                            *)
eth_get_dev_index(c) ==
    CHOOSE n \in 0 .. EthDevices - 1 : Walk(EthList.first, n) = c /\ \A j \in 0 .. n - 1 : Walk(EthList.first, j) # c

(* Which device eth_set_enetaddr gives the address of eth<num>addr.        *)
AddressOf(num) ==
    IF \E j \in 1 .. num : Walk(EthList.first, j) = EthList.first THEN NoDevice ELSE Walk(EthList.first, num)

(* "ethprime" may name another device than the first; the board has none.  *)
eth_initialize(prime) == IF eth_get_dev_by_name(prime) = NoDevice THEN EthList.first ELSE prime

(* The device "ethact" names becomes the current one; an unknown name is   *)
(* replaced.                                                               *)
eth_set_current(c, act) ==
    LET d == Found(c, act)
        now == IF d = NoDevice THEN c ELSE d
    IN  [current |-> now, act |-> now]

(* eth_init tries every device once, from the current one on; without any  *)
(* link it ends where it started.                                          *)
Candidates(c) == {k \in 0 .. EthDevices - 1 : linkUp[Walk(c, k)]}
InitDevice(c) ==
    IF Candidates(c) = {} THEN c
    ELSE Walk(c, CHOOSE k \in Candidates(c) : \A j \in Candidates(c) : k <= j)

eth_init(r, c) == IF Candidates(c) = {} THEN r ELSE CleanRing(r, InitDevice(c))

-----------------------------------------------------------------------------
(* The engine of a device and the cable.                                   *)

Store(d) ==
    LET p == rings[d].pos IN
    /\ rings[d].on /\ linkUp[d] /\ frames < MaxFrames
    /\ rings[d].owner[p] = "dma"
    /\ frames' = frames + 1
    /\ packets' = [packets EXCEPT ![p] = frames']
    /\ rings' = [rings EXCEPT ![d].owner[p] = "cpu", ![d].described[p] = frames',
                              ![d].pos = After(p, RxSlots)]
    /\ UNCHANGED <<linkUp, current, ethact, netState, depth, at, recvOf, handed, restarted>>

(* The next descriptor is not the engine's: the ring is full.              *)
Overrun(d) ==
    /\ rings[d].on /\ rings[d].owner[rings[d].pos] = "cpu"
    /\ rings' = Halted(rings, d)
    /\ UNCHANGED <<packets, linkUp, current, ethact, netState, depth, at, recvOf, frames, handed, restarted>>

Cable(d) ==
    /\ linkUp' = [linkUp EXCEPT ![d] = ~@]
    /\ Cardinality({e \in Devs : linkUp'[e]}) >= MinLinks
    /\ UNCHANGED <<rings, packets, current, ethact, netState, depth, at, recvOf, frames, handed, restarted>>

-----------------------------------------------------------------------------
(* NetLoop up to its polling loop: the current device is stopped, and      *)
(* "ethact", set to the name of the first, makes that current before it is *)
(* started.                                                                *)
StartDevice == eth_set_current(current, 0).current

StartLoop(level) ==
    LET r == Halted(rings, current) IN
    /\ rings' = eth_init(r, StartDevice)
    /\ current' = InitDevice(StartDevice) /\ ethact' = current'
    /\ IF Candidates(StartDevice) = {}
       THEN /\ at' = IF level = 0 THEN "idle" ELSE "examine"
            /\ UNCHANGED <<netState, depth>>
       ELSE at' = "poll" /\ netState' = "continue" /\ depth' = level
    /\ restarted' = IF restarted = "now" /\ at' = "poll" THEN "before" ELSE restarted
    /\ UNCHANGED <<packets, linkUp, recvOf, frames, handed>>

Command == at = "idle" /\ StartLoop(0)

(* What NetStartAgain leaves: the device after the current one, started if *)
(* any has a link.  The restart or the failure follows when NetLoop looks  *)
(* at NetState; "continue" is the wait of ten seconds.                     *)
RestartedRings == eth_init(Halted(rings, current), EthList.next[current])
RestartedCurrent == InitDevice(EthList.next[current])

NetStartAgain ==
    \/ /\ rings' = RestartedRings /\ current' = RestartedCurrent /\ ethact' = current'
       /\ netState' \in {"restart", "continue", "fail"}
    \/ /\ rings' = Halted(rings, current) /\ netState' = "fail"
       /\ UNCHANGED <<current, ethact>>

Poll ==
    /\ at = "poll"
    /\ at' = "look" /\ recvOf' = [device |-> current, slot |-> 0, described |-> NoFrame]
    /\ UNCHANGED <<rings, packets, linkUp, current, ethact, netState, depth, frames, handed, restarted>>

-----------------------------------------------------------------------------
(* ag7240_recv: the loop takes every frame the engine is done with.        *)

Ring == rings[recvOf.device]

(* A stopped engine starts again where the program will look next.         *)
(* Mutant: an engine that stopped is left alone.                           *)
ResumedNot == rings

Resumed == [rings EXCEPT ![recvOf.device].pos = IF Ring.on THEN @ ELSE Ring.next,
                         ![recvOf.device].on = TRUE]

(* The length is read before NetReceive is called.                         *)
Look ==
    /\ at = "look"
    /\ IF Ring.owner[Ring.next] = "cpu"
       THEN /\ at' = "receive"
            /\ recvOf' = [recvOf EXCEPT !.slot = Ring.next, !.described = Ring.described[Ring.next]]
            /\ UNCHANGED rings
       ELSE /\ at' = "ctrlc" /\ rings' = Resumed /\ UNCHANGED recvOf
    /\ UNCHANGED <<packets, linkUp, current, ethact, netState, depth, frames, handed, restarted>>

(* NetReceive, with the length of the descriptor and the bytes of the      *)
(* buffer; its handler may end the loop or start again.                    *)
Receive ==
    /\ at = "receive"
    /\ handed' = [described |-> recvOf.described, found |-> packets[recvOf.slot]]
    /\ at' = "give"
    /\ \/ "packet" \in RestartFrom /\ NetStartAgain /\ restarted' = "now"
       \/ /\ netState' \in {netState, "success"}
          /\ UNCHANGED <<rings, current, ethact, restarted>>
    /\ UNCHANGED <<packets, linkUp, depth, recvOf, frames>>

NextSlot(i) == IF i + 1 >= RxSlots THEN 0 ELSE i + 1

(* The descriptor goes back to the engine; next_rx is taken as it is now.  *)
Give ==
    /\ at = "give"
    /\ rings' = [rings EXCEPT ![recvOf.device].owner[recvOf.slot] = "dma",
                              ![recvOf.device].next = NextSlot(@)]
    /\ at' = "look"
    /\ UNCHANGED <<packets, linkUp, current, ethact, netState, depth, recvOf, frames, handed, restarted>>

-----------------------------------------------------------------------------
(* The rest of the polling loop.                                           *)

Leave == IF depth = 0 THEN "idle" ELSE "examine"

(* ctrlc may find the key, or run NetLoop for the console and come back.   *)
Ctrlc ==
    /\ at = "ctrlc"
    /\ \/ /\ rings' = Halted(rings, current) /\ at' = Leave /\ depth' = 0
          /\ UNCHANGED <<packets, linkUp, current, ethact, netState, recvOf, frames, handed, restarted>>
       \/ depth = 0 /\ StartLoop(1)
       \/ at' = "examine" /\ UNCHANGED <<rings, packets, linkUp, current, ethact, netState, depth, recvOf, frames, handed, restarted>>

Timeout ==
    /\ at = "examine" /\ "timeout" \in RestartFrom
    /\ NetStartAgain
    /\ at' = "state"
    /\ UNCHANGED <<packets, linkUp, depth, recvOf, frames, handed, restarted>>

NoTimeout ==
    /\ at = "examine"
    /\ at' = "state"
    /\ UNCHANGED <<rings, packets, linkUp, current, ethact, netState, depth, recvOf, frames, handed, restarted>>

(* A restart goes on with the rings as they are; a failure returns without *)
(* stopping the device.                                                    *)
LookAtNetState ==
    /\ at = "state"
    /\ CASE netState \in {"continue", "restart"} ->
              at' = "poll" /\ netState' = "continue" /\ UNCHANGED <<rings, depth>>
         [] netState = "success" ->
              at' = Leave /\ rings' = Halted(rings, current) /\ depth' = 0 /\ UNCHANGED netState
         [] netState = "fail" ->
              at' = Leave /\ depth' = 0 /\ UNCHANGED <<rings, netState>>
    /\ UNCHANGED <<packets, linkUp, current, ethact, recvOf, frames, handed, restarted>>

EthInit ==
    /\ rings = [d \in Devs |-> [owner |-> [s \in Slots |-> "cpu"],
                                described |-> [s \in Slots |-> NoFrame],
                                next |-> 0, pos |-> 0, on |-> FALSE]]
    /\ packets = [s \in Slots |-> NoFrame]
    /\ linkUp = [d \in Devs |-> TRUE]
    /\ current = eth_initialize(NoDevice) /\ ethact = current /\ netState = "continue" /\ depth = 0 /\ at = "idle"
    /\ recvOf = [device |-> 0, slot |-> 0, described |-> NoFrame]
    /\ frames = 0 /\ handed = [described |-> NoFrame, found |-> NoFrame]
    /\ restarted = "never"

Program == Command \/ Poll \/ Look \/ Receive \/ Give \/ Ctrlc \/ Timeout \/ NoTimeout \/ LookAtNetState

Hardware == \E d \in Devs : Store(d) \/ Overrun(d) \/ Cable(d)

EthNext == Program \/ Hardware

(* The program runs; nothing is asked of the network.                      *)
EthProgress == Poll \/ Look \/ Receive \/ Give \/ Ctrlc \/ NoTimeout \/ LookAtNetState
EthFairness == WF_ethVars(EthProgress)

EthSpec == EthInit /\ [][EthNext]_ethVars
EthFairSpec == EthSpec /\ EthFairness

-----------------------------------------------------------------------------
EthTypeOK ==
    /\ rings \in [Devs -> [owner : [Slots -> {"dma", "cpu"}], described : [Slots -> 0 .. MaxFrames],
                           next : Slots, pos : Slots, on : BOOLEAN]]
    /\ packets \in [Slots -> 0 .. MaxFrames]
    /\ current \in Devs /\ ethact \in Devs /\ linkUp \in [Devs -> BOOLEAN]
    /\ netState \in {"continue", "restart", "success", "fail"}
    /\ at \in {"idle", "poll", "look", "receive", "give", "ctrlc", "examine", "state"}
    /\ depth \in 0 .. 1 /\ recvOf \in [device : Devs, slot : Slots, described : 0 .. MaxFrames]
    /\ frames \in 0 .. MaxFrames /\ restarted \in {"never", "now", "before"}

(* When the handler of a packet starts again (TftpHandler at an error and  *)
(* at a failed block), ag7240_recv is not done: it advances next_rx of the *)
(* ring that eth_init set up, or goes on with the ring of the device that  *)
(* was left, whose engine it lets run.  What follows holds until then.     *)

(* NetReceive gets the bytes of the frame its descriptor announces: no     *)
(* engine stores into a buffer while the program reads it (ag7240.c:107).  *)
HandedIntact == restarted = "never" => handed.found = handed.described

(* Devices share NetRxPackets, so at most one of them may store: whatever  *)
(* sequence of timeouts' restarts, failures, aborts and nested loops came  *)
(* before.                                                                 *)
OneReceiver == restarted = "never" => Cardinality({d \in Devs : rings[d].on}) <= 1

(* The program looks where the engine stored first: the frames it has not  *)
(* seen are in the slots from next_rx up to the one the engine fills next. *)
(* "For every command we re-setup the ring and start with clean h/w rx     *)
(* state" (ag7240.c:365), which ends what a handler's restart left.        *)
RingInStep ==
    LET r == rings[current] IN
    restarted # "now" /\ r.on =>
        \E k \in 0 .. RxSlots :
            /\ (r.next + k) % RxSlots = r.pos
            /\ \A i \in Slots : r.owner[(r.next + i) % RxSlots] = "cpu" <=> i < k

(* An engine that stopped, on a full ring or by the loop of the console,   *)
(* runs again while the program polls (ag7240.c:117).                      *)
ReceptionResumes == (at = "poll" /\ ~rings[current].on) ~> (rings[current].on \/ at = "idle")

(* A walk finds every device by its name, and no other; the number of the  *)
(* current one is the number its address has in the environment; "ethact"  *)
(* chooses a device, or is corrected, whatever is current (eth.c).         *)
DevicesAreFound ==
    /\ ethact = current
    /\ \A name \in Devs \cup {EthDevices} : eth_get_dev_by_name(name) = IF name \in Devs THEN name ELSE NoDevice
    /\ AddressOf(eth_get_dev_index(current)) = current /\ AddressOf(EthDevices) = NoDevice
    /\ \A name \in Devs \cup {EthDevices} : eth_initialize(name) = IF name \in Devs THEN name ELSE EthList.first
    /\ \A act \in Devs \cup {EthDevices} :
           LET r == eth_set_current(current, act) IN
           r.act = r.current /\ r.current = IF act \in Devs THEN act ELSE current

(* What the driver hands up is what arrived, from the device it should.    *)
RingsAreSafe == EthTypeOK /\ HandedIntact /\ OneReceiver /\ RingInStep /\ DevicesAreFound
=============================================================================
