-------------------------------- MODULE Tftp --------------------------------
(***************************************************************************)
(* Loading an image over the network: net/tftp.c driven by the packet and  *)
(* timer loop of net/net.c (NetLoop), with address resolution, the retry   *)
(* policy of NetStartAgain over several ethernet devices (net/eth.c), a    *)
(* conforming server and a network that loses, delays, reorders and        *)
(* duplicates packets.                                                     *)
(*                                                                         *)
(* A data block is represented by its position in the file, 1..FileBlocks; *)
(* the last one is shorter than a full block and ends the transfer.  Time  *)
(* is counted in ticks of TIMEOUT seconds divided by Ticks, and only the   *)
(* ages of the running timers are kept.                                    *)
(***************************************************************************)
EXTENDS Integers, FiniteSets, Sequences

CONSTANTS
    FileBlocks,         \* length of the file in blocks
    SeqSize,            \* TFTP_SEQUENCE_SIZE: block numbers are sent modulo this
    Ticks,              \* TIMEOUT and ARP_TIMEOUT (both 5 s) in ticks
    TIMEOUT_COUNT, ARP_TIMEOUT_COUNT,
    netretry,           \* the environment variable: "yes", "no" or "once"
    NDev,               \* ethernet devices 0..NDev-1, a circular list
    Linked,             \* devices with a link: init() succeeds
    NoMac,              \* devices whose ethernet address is not set
    ServerDevs,         \* devices from which the server is reached
    Ports,              \* values the pseudo-random TftpOurPort takes
    UseOack,            \* the server acknowledges options
    ServerErrors,       \* the server may answer a request with an error
    MaxLate,            \* bound: packets in flight across a tick
    Faults,             \* what the network does: some of "lose", "duplicate"
    MaxFaults,          \* bound: packets lost or duplicated
    MaxSessions,        \* bound: requests the server answers
    MaxStarts,          \* bound: times NetLoop (re)starts the protocol
    MaxCommands         \* bound: calls of NetLoop

Devices == 0..(NDev - 1)

ASSUME TftpAssumption ==
    /\ {FileBlocks, SeqSize, Ticks, NDev, MaxStarts, MaxCommands} \subseteq Nat \ {0}
    /\ {TIMEOUT_COUNT, ARP_TIMEOUT_COUNT, MaxLate, MaxFaults, MaxSessions} \subseteq Nat
    /\ netretry \in {"yes", "no", "once"}
    /\ ServerDevs \subseteq Linked /\ Linked \subseteq Devices /\ Linked # {}
    /\ NoMac \subseteq Devices /\ Faults \subseteq {"lose", "duplicate"}
    /\ {UseOack, ServerErrors} \subseteq BOOLEAN /\ Ports # {}

VARIABLES
    loop,     \* NetLoop: pc, NetState, handler, timeHandler and its age, ...
    eth,      \* eth_current, first_failed, NetRestartWrap, the recv in progress
    tftp,     \* the Tftp* variables
    arp,      \* NetServerEther known?, the waiting packet, NetArpWaitTry, age
    img,      \* what store_block wrote and NetBootFileXferSize (in blocks)
    net,      \* packets in flight
    server,   \* the server's transfers
    faults,   \* faults so far
    hist      \* commands, starts, devices tried, NetRestartWrap at the start

vars == <<loop, eth, tftp, arp, img, net, server, faults, hist>>

None == [type |-> "none"]
ToServer == {"arpreq", "RRQ", "ACK"}

(* An age, which stops growing once past its limit.                        *)
Older(age, limit) == IF age > limit THEN age ELSE age + 1

-----------------------------------------------------------------------------
(* Sending                                                                 *)

(* eth_send: a packet leaves through device d.                             *)
EthSend(n, d, p) == IF d \in ServerDevs THEN n \cup {p} ELSE n

ArpRequest(d) == [type |-> "arpreq", dev |-> d]

(* NetSendUDPPacket: when the address is not known, keep the packet and    *)
(* ask for the address; a is what it does to the ARP variables and n to    *)
(* the packets in flight.                                                  *)
ArpAfterSend(a, p) ==
    IF a.ether THEN a ELSE [a EXCEPT !.wait = p, !.try = 1, !.age = 0]

NetAfterSend(a, n, p) ==
    IF a.ether THEN EthSend(n, p.dev, p) ELSE EthSend(n, p.dev, ArpRequest(p.dev))

(* TftpSend: the packet for the current state, from device d.              *)
TftpPacket(t, d) ==
    IF t.state = "RRQ" THEN [type |-> "RRQ", dev |-> d, port |-> t.port]
    ELSE [type |-> "ACK", dev |-> d, port |-> t.port, sid |-> t.server, seq |-> t.block]

TftpSend(t, n) ==
    /\ arp' = ArpAfterSend(arp, TftpPacket(t, eth.cur))
    /\ net' = NetAfterSend(arp, n, TftpPacket(t, eth.cur))

-----------------------------------------------------------------------------
(* Devices and the retry policy                                            *)

(* Mutants: the wrap is looked for before moving on; first_failed is moved *)
(* by every call.                                                          *)
EthTryAnotherEarly(e, first_restart) ==
    LET first == IF first_restart THEN e.cur ELSE e.first
    IN  [e EXCEPT !.cur = (e.cur + 1) % NDev, !.first = first, !.wrap = @ \/ first = e.cur]

(* eth_try_another                                                         *)
EthTryAnother(e, first_restart) ==
    LET first == IF first_restart THEN e.cur ELSE e.first
        next  == (e.cur + 1) % NDev
    IN  [e EXCEPT !.cur = next, !.first = first, !.wrap = @ \/ first = next]

(* eth_init: on from the current device to the first one whose init()      *)
(* succeeds, noticing when first_failed is passed.                         *)
EthInit(e) ==
    LET At(k) == (e.cur + k) % NDev
        skips == CHOOSE k \in 0..(NDev - 1) :
                    At(k) \in Linked /\ \A j \in 0..(k - 1) : At(j) \notin Linked
    IN  [e EXCEPT !.cur = At(skips),
                  !.wrap = @ \/ \E j \in 1..skips : At(j) = e.first]

(* The receive ring of a device that was halted inside its own recv still  *)
(* hands out the packets that had arrived.                                 *)
EthHaltInRecv(n) ==
    IF eth.halted # -1 THEN eth
    ELSE [eth EXCEPT !.halted = eth.cur,
                     !.late = {p \in n : p.type \notin ToServer /\ p.dev = eth.cur}]

(* init() of the device whose recv is running empties its ring.            *)
EthRingReset(e) ==
    IF e.cur = e.halted THEN [e EXCEPT !.halted = -1, !.late = {}] ELSE e

EthAgain(e) == EthRingReset(EthInit(EthTryAnother(e, ~loop.restarted)))

(* NetStartAgain, given NetLoop's record as its caller leaves it and the   *)
(* devices after eth_halt.                                                 *)
NetStartAgain(l, halted) ==
    LET e == EthAgain(halted)
    IN  IF netretry = "no"
        THEN loop' = [l EXCEPT !.state = "FAIL"] /\ eth' = halted
        ELSE /\ eth' = [e EXCEPT !.wrap = FALSE]
             /\ loop' = IF ~e.wrap THEN [l EXCEPT !.state = "RESTART"]
                        ELSE IF l.devexists /\ netretry # "once"
                        THEN [l EXCEPT !.handler = "ignore", !.timer = "again", !.age = 0]
                        ELSE [l EXCEPT !.state = "FAIL"]

(* NetSetTimeout(TIMEOUT * CFG_HZ, TftpTimeout).                           *)
SetTftpTimer(l) == [l EXCEPT !.timer = "tftp", !.age = 0]

-----------------------------------------------------------------------------
(* Starting                                                                *)

(* TftpStart, from device d.                                               *)
TftpStart(l, d) ==
    \E port \in Ports :
        LET t == [tftp EXCEPT !.server = 0, !.timeouts = 0, !.state = "RRQ",
                              !.port = port, !.block = 0]
            a == [arp EXCEPT !.ether = FALSE]
        IN  /\ tftp' = t
            /\ loop' = SetTftpTimer([l EXCEPT !.handler = "tftp"])
            /\ arp' = ArpAfterSend(a, TftpPacket(t, d))
            /\ net' = NetAfterSend(a, net, TftpPacket(t, d))

(* NetLoop from label restart to the receive loop, on device eth.cur; l is *)
(* NetLoop's record on the way there.                                      *)
Restart(l0) ==
    LET l == [l0 EXCEPT !.state = "CONTINUE", !.pc = "rx"]
    IN  IF eth.cur \in NoMac
        THEN /\ NetStartAgain(l, eth)               \* net_check_prereq returns 2
             /\ UNCHANGED <<tftp, arp, img, net, server, faults, hist>>
        ELSE /\ hist.starts < MaxStarts
             /\ TftpStart([l EXCEPT !.devexists = TRUE], eth.cur)
             /\ img' = [img EXCEPT !.size = 0]
             /\ hist' = [hist EXCEPT !.starts = @ + 1, !.tried = @ \cup {eth.cur}]
             /\ UNCHANGED <<eth, server, faults>>

(* NetLoop is called: the variables it resets, eth_set_current and         *)
(* eth_init.  first_failed and NetRestartWrap keep their values.           *)
NetLoop ==
    /\ loop.pc \in {"idle", "done"}
    /\ hist.commands < MaxCommands
    /\ loop' = [loop EXCEPT !.pc = "restart", !.restarted = FALSE, !.devexists = FALSE,
                            !.state = "CONTINUE", !.result = "none"]
    /\ eth' = EthInit([eth EXCEPT !.cur = 0, !.halted = -1, !.late = {}])
    /\ arp' = [arp EXCEPT !.wait = None]
    /\ hist' = [commands |-> hist.commands + 1, starts |-> 0, tried |-> {},
                early |-> eth'.wrap]
    /\ UNCHANGED <<tftp, img, net, server, faults>>

StartProtocol == loop.pc = "restart" /\ Restart(loop)

-----------------------------------------------------------------------------
(* Receiving                                                               *)

(* The device whose recv is running: the current one, or the one that was  *)
(* halted meanwhile.                                                       *)
Polled == IF eth.halted = -1 THEN eth.cur ELSE eth.halted

(* The packet p reaches NetReceive inside recv; n is what stays in flight, *)
(* a copy of p included if the network makes one.                          *)
Delivered(p, n) ==
    /\ loop.pc = "rx" /\ p \in net /\ p.type \notin ToServer
    /\ p.dev = Polled /\ (eth.halted = -1 \/ p \in eth.late)
    /\ \/ n = net \ {p} /\ faults' = faults
       \/ /\ n = net /\ "duplicate" \in Faults /\ faults < MaxFaults
          /\ faults' = faults + 1

(* An ARP reply: the address is stored and the waiting packet sent.        *)
NetReceiveArp(p) ==
    \E n \in {net, net \ {p}} :
        /\ Delivered(p, n) /\ p.type = "arprep"
        /\ IF arp.wait = None THEN net' = n /\ UNCHANGED arp
           ELSE /\ arp' = [arp EXCEPT !.ether = TRUE, !.wait = None]
                /\ net' = EthSend(n, eth.cur, [arp.wait EXCEPT !.dev = eth.cur])
        /\ UNCHANGED <<loop, eth, tftp, img, server, hist>>

(* TftpHandler's filter on ports.                                          *)
TftpAccepts(p) ==
    /\ loop.handler = "tftp"
    /\ p.port = tftp.port
    /\ tftp.state = "RRQ" \/ p.sid = tftp.server

(* A packet that no handler takes.                                         *)
NetReceiveIgnored(p) ==
    \E n \in {net, net \ {p}} :
        /\ Delivered(p, n) /\ p.type # "arprep" /\ ~TftpAccepts(p)
        /\ net' = n
        /\ UNCHANGED <<loop, eth, tftp, arp, img, server, hist>>

(* TFTP_OACK                                                               *)
TftpOack(p) ==
    \E n \in {net, net \ {p}} :
        /\ Delivered(p, n) /\ p.type = "OACK" /\ TftpAccepts(p)
        /\ tftp' = [tftp EXCEPT !.state = "OACK", !.server = p.sid]
        /\ TftpSend(tftp', n)
        /\ UNCHANGED <<loop, eth, img, server, hist>>

(* TFTP_DATA, up to the test for a repeated block: the block number, the   *)
(* wrap of the block counter, the first block.                             *)
TftpWrapAfter(t, seq) == IF seq = 0 THEN t.wrap + 1 ELSE t.wrap

TftpFirst(t) == t.state \in {"RRQ", "OACK"}

TftpDataState(t, p) ==
    LET seq == p.blk % SeqSize
        u == [t EXCEPT !.block = seq, !.wrap = TftpWrapAfter(t, seq)]
    IN  IF TftpFirst(t)
        THEN [u EXCEPT !.state = "DATA", !.server = p.sid, !.last = 0, !.wrap = 0]
        ELSE u

(* Mutant: blocks counted from zero.                                       *)
StoreSlotFromZero(t) == t.block + t.wrap * SeqSize

(* store_block: the slot of memory a block goes to.                        *)
StoreSlot(t) == (t.block - 1) + t.wrap * SeqSize

MemSlots == 0..(2 * FileBlocks + SeqSize)   \* bound: the memory the model keeps

StoreBlock(i, t, p) ==
    [mem  |-> [s \in MemSlots |-> IF s = StoreSlot(t) THEN p.blk ELSE i.mem[s]],
     size |-> IF i.size < StoreSlot(t) + 1 THEN StoreSlot(t) + 1 ELSE i.size]

(* A first block that is not block 1.                                      *)
TftpDataRestart(p) ==
    \E n \in {net, net \ {p}} :
        LET t == TftpDataState(tftp, p) IN
        /\ Delivered(p, n) /\ p.type = "DATA" /\ TftpAccepts(p)
        /\ TftpFirst(tftp) /\ t.block # 1
        /\ tftp' = t
        /\ NetStartAgain(loop, EthHaltInRecv(n))
        /\ net' = n
        /\ UNCHANGED <<arp, img, server, hist>>

(* "Same block again; ignore it."                                          *)
TftpDataSame(p) ==
    \E n \in {net, net \ {p}} :
        LET t == TftpDataState(tftp, p) IN
        /\ Delivered(p, n) /\ p.type = "DATA" /\ TftpAccepts(p)
        /\ ~TftpFirst(tftp) /\ t.block = t.last
        /\ tftp' = t
        /\ net' = n
        /\ UNCHANGED <<loop, eth, arp, img, server, hist>>

(* A block is stored and acknowledged; a short one ends the transfer.      *)
TftpDataStored(p) ==
    \E n \in {net, net \ {p}} :
        LET t == TftpDataState(tftp, p) IN
        /\ Delivered(p, n) /\ p.type = "DATA" /\ TftpAccepts(p)
        /\ TftpFirst(tftp) => t.block = 1
        /\ t.block # t.last
        /\ tftp' = [t EXCEPT !.last = t.block]
        /\ loop' = [SetTftpTimer(loop) EXCEPT
                       !.state = IF p.blk = FileBlocks THEN "SUCCESS" ELSE @]
        /\ img' = StoreBlock(img, t, p)
        /\ TftpSend(t, n)
        /\ UNCHANGED <<eth, server, hist>>

(* TFTP_ERROR                                                              *)
TftpError(p) ==
    \E n \in {net, net \ {p}} :
        /\ Delivered(p, n) /\ p.type = "ERROR" /\ TftpAccepts(p)
        /\ NetStartAgain(loop, EthHaltInRecv(n))
        /\ net' = n
        /\ UNCHANGED <<tftp, arp, img, server, hist>>

-----------------------------------------------------------------------------
(* The rest of an iteration of the receive loop: ctrlc, ArpTimeoutCheck,   *)
(* the timeout handler, and the switch on NetState.  An iteration in which *)
(* none of them has anything to do changes nothing and is left out.        *)

ArpExpired == arp.wait # None /\ arp.age > Ticks

TimeDelta == IF loop.timer = "again" THEN 2 * Ticks ELSE Ticks

TimerExpired == loop.timer # "none" /\ loop.age > TimeDelta

Abort ==
    /\ loop.pc = "rx"
    /\ loop' = [loop EXCEPT !.pc = "done", !.result = "abort"]
    /\ UNCHANGED <<eth, tftp, arp, img, net, server, faults, hist>>

LoopArp ==
    /\ loop.pc = "rx"
    /\ ~ArpExpired
    /\ TimerExpired \/ loop.state # "CONTINUE"
    /\ loop' = [loop EXCEPT !.pc = "time"]
    /\ UNCHANGED <<eth, tftp, arp, img, net, server, faults, hist>>

(* ArpTimeoutCheck: ask again                                              *)
ArpTryAgain ==
    /\ loop.pc = "rx" /\ ArpExpired
    /\ arp.try + 1 < ARP_TIMEOUT_COUNT
    /\ loop' = [loop EXCEPT !.pc = "time"]
    /\ arp' = [arp EXCEPT !.try = @ + 1, !.age = 0]
    /\ net' = EthSend(net, eth.cur, ArpRequest(eth.cur))
    /\ UNCHANGED <<eth, tftp, img, server, faults, hist>>

(* ArpTimeoutCheck: give up                                                *)
ArpGiveUp ==
    /\ loop.pc = "rx" /\ ArpExpired
    /\ arp.try + 1 >= ARP_TIMEOUT_COUNT
    /\ arp' = [arp EXCEPT !.try = 0]
    /\ NetStartAgain([loop EXCEPT !.pc = "time"], eth)
    /\ UNCHANGED <<tftp, img, net, server, faults, hist>>

NoTimeout ==
    /\ loop.pc = "time" /\ ~TimerExpired
    /\ loop' = [loop EXCEPT !.pc = "switch"]
    /\ UNCHANGED <<eth, tftp, arp, img, net, server, faults, hist>>

(* timeHandler is cleared before it is called.                             *)
LoopCalled == [loop EXCEPT !.pc = "switch", !.timer = "none"]

(* Mutant: the timer is not set again.                                     *)
TftpTimeoutRetryOnce ==
    /\ loop.pc = "time" /\ TimerExpired /\ loop.timer = "tftp"
    /\ tftp.timeouts + 1 <= TIMEOUT_COUNT
    /\ tftp' = [tftp EXCEPT !.timeouts = @ + 1]
    /\ loop' = LoopCalled
    /\ TftpSend(tftp, net)
    /\ UNCHANGED <<eth, img, server, faults, hist>>

TftpTimeoutRetry ==
    /\ loop.pc = "time" /\ TimerExpired /\ loop.timer = "tftp"
    /\ tftp.timeouts + 1 <= TIMEOUT_COUNT
    /\ tftp' = [tftp EXCEPT !.timeouts = @ + 1]
    /\ loop' = SetTftpTimer(LoopCalled)
    /\ TftpSend(tftp, net)
    /\ UNCHANGED <<eth, img, server, faults, hist>>

TftpTimeoutGiveUp ==
    /\ loop.pc = "time" /\ TimerExpired /\ loop.timer = "tftp"
    /\ tftp.timeouts + 1 > TIMEOUT_COUNT
    /\ tftp' = [tftp EXCEPT !.timeouts = @ + 1]
    /\ NetStartAgain(LoopCalled, eth)
    /\ UNCHANGED <<arp, img, net, server, faults, hist>>

startAgainTimeout ==
    /\ loop.pc = "time" /\ TimerExpired /\ loop.timer = "again"
    /\ loop' = [LoopCalled EXCEPT !.state = "RESTART"]
    /\ UNCHANGED <<eth, tftp, arp, img, net, server, faults, hist>>

(* switch (NetState); the next eth_rx polls the current device.            *)
SwitchContinue ==
    /\ loop.pc = "switch" /\ loop.state = "CONTINUE"
    /\ loop' = [loop EXCEPT !.pc = "rx"]
    /\ eth' = [eth EXCEPT !.halted = -1, !.late = {}]
    /\ UNCHANGED <<tftp, arp, img, net, server, faults, hist>>

SwitchRestart ==
    /\ loop.pc = "switch" /\ loop.state = "RESTART"
    /\ loop' = [loop EXCEPT !.pc = "restart", !.restarted = TRUE]
    /\ eth' = [eth EXCEPT !.halted = -1, !.late = {}]
    /\ UNCHANGED <<tftp, arp, img, net, server, faults, hist>>

SwitchReturn ==
    /\ loop.pc = "switch" /\ loop.state \in {"SUCCESS", "FAIL"}
    /\ loop' = [loop EXCEPT !.pc = "done",
                            !.result = IF loop.state = "SUCCESS" THEN "ok" ELSE "fail"]
    /\ UNCHANGED <<eth, tftp, arp, img, net, server, faults, hist>>

-----------------------------------------------------------------------------
(* The server and the network (external).  They act between two eth_rx     *)
(* calls: nothing the loop does elsewhere depends on them.                 *)

Packet(s, ses) ==
    IF ses.blk = 0 THEN [type |-> "OACK", dev |-> ses.dev, port |-> ses.port, sid |-> s]
    ELSE [type |-> "DATA", dev |-> ses.dev, port |-> ses.port, sid |-> s, blk |-> ses.blk]

ServerArp(p) ==
    /\ loop.pc = "rx" /\ p.type = "arpreq"
    /\ net' = (net \ {p}) \cup {[type |-> "arprep", dev |-> p.dev]}
    /\ UNCHANGED <<loop, eth, tftp, arp, img, server, faults, hist>>

(* A request opens a transfer with a port of its own, the session number.  *)
ServerRequest(p) ==
    /\ loop.pc = "rx" /\ p.type = "RRQ"
    /\ LET ses == [dev |-> p.dev, port |-> p.port, blk |-> IF UseOack THEN 0 ELSE 1,
                   due |-> FALSE]
           sid == Len(server) + 1
       IN  \/ /\ Len(server) < MaxSessions
              /\ server' = Append(server, ses)
              /\ net' = (net \ {p}) \cup {Packet(sid, ses)}
           \/ /\ ServerErrors /\ Len(server) < MaxSessions
              /\ server' = Append(server, [ses EXCEPT !.blk = FileBlocks + 1])
              /\ net' = (net \ {p}) \cup {[type |-> "ERROR", dev |-> p.dev,
                                           port |-> p.port, sid |-> sid]}
           \/ Len(server) = MaxSessions /\ net' = net \ {p} /\ UNCHANGED server
    /\ UNCHANGED <<loop, eth, tftp, arp, img, faults, hist>>

(* An acknowledgement of the outstanding block sends the next one; any     *)
(* other is dropped.                                                       *)
ServerAck(p) ==
    /\ loop.pc = "rx" /\ p.type = "ACK"
    /\ IF p.sid \in DOMAIN server /\ p.seq = server[p.sid].blk % SeqSize
          /\ server[p.sid].blk <= FileBlocks
       THEN LET ses == [server[p.sid] EXCEPT !.blk = @ + 1, !.due = FALSE] IN
            /\ server' = [server EXCEPT ![p.sid] = ses]
            /\ net' = (net \ {p}) \cup
                        (IF ses.blk > FileBlocks THEN {} ELSE {Packet(p.sid, ses)})
       ELSE net' = net \ {p} /\ UNCHANGED server
    /\ UNCHANGED <<loop, eth, tftp, arp, img, faults, hist>>

(* The server repeats a packet that is not acknowledged, once per tick.    *)
ServerResend(s) ==
    /\ loop.pc = "rx" /\ server[s].due
    /\ server' = [server EXCEPT ![s].due = FALSE]
    /\ net' = net \cup {Packet(s, server[s])}
    /\ UNCHANGED <<loop, eth, tftp, arp, img, faults, hist>>

Lose(p) ==
    /\ loop.pc = "rx" /\ "lose" \in Faults /\ faults < MaxFaults
    /\ net' = net \ {p}
    /\ faults' = faults + 1
    /\ UNCHANGED <<loop, eth, tftp, arp, img, server, hist>>

(* A packet for a device that is not being polled goes unnoticed.          *)
Unheard(p) ==
    /\ loop.pc = "rx" /\ p.type \notin ToServer /\ p.dev # Polled
    /\ net' = net \ {p}
    /\ UNCHANGED <<loop, eth, tftp, arp, img, server, faults, hist>>

(* get_timer advances.                                                     *)
Tick ==
    /\ loop.pc = "rx" /\ loop.state = "CONTINUE"
    /\ Cardinality(net) <= MaxLate /\ \A s \in DOMAIN server : ~server[s].due
    /\ ~ArpExpired /\ ~TimerExpired
    /\ loop' = [loop EXCEPT !.age = IF loop.timer = "none" THEN 0
                                    ELSE Older(@, TimeDelta)]
    /\ arp' = [arp EXCEPT !.age = IF arp.wait = None THEN 0 ELSE Older(@, Ticks)]
    /\ server' = [s \in DOMAIN server |->
                    [server[s] EXCEPT !.due = server[s].blk <= FileBlocks]]
    /\ UNCHANGED <<eth, tftp, img, net, faults, hist>>

-----------------------------------------------------------------------------
Init ==
    /\ loop = [pc |-> "idle", state |-> "CONTINUE", handler |-> "none", timer |-> "none",
               age |-> 0, restarted |-> FALSE, devexists |-> FALSE, result |-> "none"]
    /\ eth = [cur |-> 0, first |-> -1, wrap |-> FALSE, halted |-> -1, late |-> {}]
    /\ tftp = [state |-> "RRQ", port |-> CHOOSE p \in Ports : TRUE, server |-> 0,
               block |-> 0, last |-> 0, wrap |-> 0, timeouts |-> 0]
    /\ arp = [ether |-> FALSE, wait |-> None, try |-> 0, age |-> 0]
    /\ img = [mem |-> [s \in MemSlots |-> 0], size |-> 0]
    /\ net = {} /\ server = <<>> /\ faults = 0
    /\ hist = [commands |-> 0, starts |-> 0, tried |-> {}, early |-> FALSE]

Receive(p) ==
    \/ NetReceiveArp(p) \/ NetReceiveIgnored(p)
    \/ TftpOack(p) \/ TftpDataRestart(p) \/ TftpDataSame(p) \/ TftpDataStored(p)
    \/ TftpError(p)

Timers ==
    \/ LoopArp \/ ArpTryAgain \/ ArpGiveUp
    \/ NoTimeout \/ TftpTimeoutRetry \/ TftpTimeoutGiveUp \/ startAgainTimeout
    \/ SwitchContinue \/ SwitchRestart \/ SwitchReturn

Serve(p) == ServerArp(p) \/ ServerRequest(p) \/ ServerAck(p) \/ Unheard(p)

Next ==
    \/ NetLoop \/ StartProtocol \/ Timers \/ Abort \/ Tick
    \/ \E p \in net : Receive(p) \/ Serve(p) \/ Lose(p)
    \/ \E s \in DOMAIN server : ServerResend(s)

Spec == Init /\ [][Next]_vars

(* The loop polls and its clock runs; the network delivers what it does    *)
(* not lose; the server answers and repeats.                               *)
Fairness ==
    /\ WF_vars(NetLoop \/ StartProtocol \/ Timers)
    /\ WF_vars(\E p \in net : Receive(p) \/ Serve(p))
    /\ WF_vars(\E s \in DOMAIN server : ServerResend(s))
    /\ WF_vars(Tick)

FairSpec == Spec /\ Fairness

-----------------------------------------------------------------------------
(* Properties                                                              *)

(* Every variable holds a value of its type, the saturating ages included. *)
TypeOK ==
    /\ loop \in [pc : {"idle", "restart", "rx", "time", "switch", "done"},
                 state : {"CONTINUE", "RESTART", "SUCCESS", "FAIL"},
                 handler : {"none", "tftp", "ignore"}, timer : {"none", "tftp", "again"},
                 age : 0..(2 * Ticks + 1), restarted : BOOLEAN, devexists : BOOLEAN,
                 result : {"none", "ok", "fail", "abort"}]
    /\ eth.cur \in Devices /\ eth.first \in Devices \cup {-1}
    /\ eth.halted \in Devices \cup {-1}
    /\ tftp \in [state : {"RRQ", "OACK", "DATA"}, port : Ports, server : 0..MaxSessions,
                 block : 0..(SeqSize - 1), last : 0..(SeqSize - 1), wrap : Nat,
                 timeouts : 0..(TIMEOUT_COUNT + 1)]
    /\ img.mem \in [MemSlots -> 0..FileBlocks] /\ img.size \in Nat
    /\ faults \in 0..MaxFaults

(* When NetLoop reports success after a TFTP transfer, every block of the  *)
(* file is at its place in memory and NetBootFileXferSize is the length of *)
(* the file, whatever was lost, delayed, repeated or restarted on the way. *)
ImageCorrect ==
    loop.result = "ok" =>
        /\ img.size = FileBlocks
        /\ \A k \in 1..FileBlocks : img.mem[k - 1] = k

(* The server never gets ahead of memory: when one of its transfers has    *)
(* reached a block, TftpHandler has stored all the blocks before it, also  *)
(* when they were stored in an attempt given up since.                     *)
AckedIsStored ==
    \A s \in DOMAIN server : server[s].blk <= FileBlocks =>
        \A k \in 1..(server[s].blk - 1) : img.mem[k - 1] = k

(* NetLoop never waits without a timeout to end the wait: whenever it      *)
(* polls in state CONTINUE, TftpTimeout or startAgainTimeout is armed, and *)
(* the packets are ignored only during the wait before a new start.        *)
WaitIsBounded ==
    /\ TypeOK
    /\ loop.pc = "rx" /\ loop.state = "CONTINUE" =>
           /\ loop.timer # "none"
           /\ loop.handler = "ignore" <=> loop.timer = "again"

(* netretry "once": when NetLoop fails, the transfer was tried on every    *)
(* device that has a link and an address, in whatever command it fails,    *)
(* unless NetRestartWrap was set before anything failed: first_failed is   *)
(* static, and when the eth_init that starts a command passes over the     *)
(* device where an earlier command failed first, for want of a link before *)
(* it, eth_try_another(0) sets the wrap, and the first failure of this     *)
(* command ends it.                                                        *)
OnceTriesAll ==
    loop.result = "fail" /\ ~hist.early => Linked \ NoMac \subseteq hist.tried

(* With no more losses than TIMEOUT_COUNT and no refusal by the server, a  *)
(* command that begins with NetRestartWrap clear ends with the image       *)
(* loaded unless the user interrupts it, although the first devices tried  *)
(* do not reach the server.                                                *)
TransferCompletes ==
    loop.pc = "restart" /\ ~loop.restarted /\ ~hist.early ~>
        \/ loop.result \in {"ok", "abort"} \/ faults > TIMEOUT_COUNT
        \/ \E p \in net : p.type = "ERROR"
=============================================================================
