----------------------------- MODULE NetConsole -----------------------------
(***************************************************************************)
(* The console over UDP (drivers/netconsole.c): the ring of received       *)
(* characters, and the calls of NetLoop (net/net.c) by which the shell     *)
(* waits for input and sends output, from which the console is polled      *)
(* again (ctrlc, tstc, getc).                                              *)
(*                                                                         *)
(* The shell is in at most one call: nc_getc, nc_tstc, the first nc_puts   *)
(* (which needs the address of the console host) or a network command;     *)
(* at tells whether NetLoop runs, and where in its round it is.            *)
(***************************************************************************)
EXTENDS Naturals, Sequences

CONSTANTS
    N,          \* sizeof input_buffer
    Char,       \* characters
    Etx,        \* Control-C
    NoChar,     \* no character was read
    Packets,    \* what the console host sends
    Broadcast   \* "yes" when nc_ip is a broadcast address: no ARP

ASSUME NetConsoleAssumption ==
    /\ N \in Nat \ {0} /\ Etx \in Char /\ NoChar \notin Char
    /\ Packets \subseteq Seq(Char) /\ Broadcast \in {"yes", "no"}

VARIABLES
    input_buffer, input_size, input_offset,
    caller,   \* what the shell is doing: "none" or the call it is in
    below,    \* the call whose ctrlc polls the console by a NetLoop, or "none"
    at,       \* NetLoop: "off", "rx", "ctrlc" (polled already) or "timers"
    NetState,
    handler,  \* packetHandler
    timer,    \* timeHandler: "none", or what it calls when its time is over
    net_timeout,
    arp,      \* an ARP request of nc_puts waits for its reply, or not
    eth,      \* eth_current->state
    ether,    \* nc_ether: "null" or "set"
    last      \* the last character read

ring == <<input_buffer, input_size, input_offset, last>>
net == <<at, NetState, handler, timer, arp, eth>>
vars == <<ring, net, caller, below, net_timeout, ether>>

Callers == {"none", "getc", "tstc", "puts", "command"}
ReadingGetc == {"getc"}

(* Calls during which input_recursion is set.                              *)
Reading == {"getc", "tstc"}

-----------------------------------------------------------------------------
(* The ring                                                                *)

Wrap(i) == IF i >= N THEN i - N ELSE i

(* nc_input_packet: the length stored, the place where it starts (N when   *)
(* the ring ends just there) and how much of it fits before the end.       *)
Stored(pkt) == IF Len(pkt) > N - input_size THEN N - input_size ELSE Len(pkt)

EndExclusive ==
    IF input_offset + input_size > N THEN input_offset + input_size - N - 1
    ELSE input_offset + input_size

End ==
    IF input_offset + input_size > N THEN input_offset + input_size - N
    ELSE input_offset + input_size

Chunk(len) == IF End + len > N THEN N - End ELSE len

Copied(pkt, len) ==
    [k \in 0..(N - 1) |->
        IF End <= k /\ k < End + Chunk(len) THEN pkt[k - End + 1]
        ELSE IF k < len - Chunk(len) THEN pkt[Chunk(len) + k + 1]
        ELSE input_buffer[k]]

nc_input_packet(pkt) ==
    /\ input_buffer' = Copied(pkt, Stored(pkt))
    /\ input_size' = input_size + Stored(pkt)
    /\ UNCHANGED <<input_offset, last>>

(* The end of nc_getc.                                                     *)
Take ==
    /\ last' = input_buffer[input_offset]
    /\ input_offset' = Wrap(input_offset + 1)
    /\ input_size' = input_size - 1
    /\ UNCHANGED input_buffer

-----------------------------------------------------------------------------
(* Starting and restarting NetLoop                                         *)

(* NcStart, for the call that caller' and below' tell: as long as nc_puts  *)
(* has not returned, output_packet_len is set, also in the NetLoop by      *)
(* which nc_tstc polls, and without an address an ARP request is sent,     *)
(* which sets no timeout: timeHandler stays what it was, t.                *)
Sending == "puts" \in {caller', below'} /\ ether = "null"

NcStart(t) ==
    \/ /\ caller' = "command"
       /\ handler' = "command" /\ timer' = "command" /\ arp' = "none"
    \/ /\ caller' # "command" /\ Sending
       /\ handler' = "nc_wait_arp_handler" /\ arp' = "wait" /\ timer' = t
    \/ /\ caller' # "command" /\ ~Sending
       /\ handler' = "nc_handler" /\ arp' = "none"
       /\ timer' = IF net_timeout' = 0 THEN "none" ELSE "nc_timeout"

NetLoopRuns ==
    /\ at' = "rx" /\ eth' = "ACTIVE" /\ NetState' = "CONTINUE"
    /\ NcStart(timer)
    /\ UNCHANGED ring

(* It returns at once when eth_init or net_check_prereq fails, but has     *)
(* forgotten any ARP request.                                              *)
NetLoopRefuses ==
    /\ at' = "off" /\ eth' = "PASSIVE" /\ NetState' \in {NetState, "CONTINUE"}
    /\ arp' = "none"
    /\ UNCHANGED <<ring, handler, timer>>

NetLoop == NetLoopRuns \/ NetLoopRefuses

(* After NetStartAgain (several devices, one of which eth_init may start): *)
(* NETLOOP_RESTART at once, a pause that ends in it, or NETLOOP_FAIL.      *)
Restart(t) ==
    /\ NetState' = "CONTINUE" /\ at' = "rx" /\ NcStart(t)

(* ArpTimeoutCheck, a command or a timer that a command has left behind    *)
(* gives up.                                                               *)
NetStartAgain ==
    /\ at = "timers"
    /\ "command" \in {caller, timer} \/ arp = "wait"
    /\ UNCHANGED <<ring, caller, below, net_timeout, ether>>
    /\ eth' \in {"ACTIVE", "PASSIVE"}
    /\ \/ \E t \in {timer, IF timer = "command" THEN "none" ELSE timer} : Restart(t)
       \/ /\ handler' = "startAgainHandler" /\ timer' = "startAgainTimeout"
          /\ at' = "rx" /\ UNCHANGED <<NetState, arp>>
       \/ NetState' = "FAIL" /\ at' = "off" /\ UNCHANGED <<handler, timer, arp>>

(* NcStart may have taken the handler but left the timer, in a NetLoop     *)
(* nested in the pause or one started after it was interrupted.            *)
startAgainTimeout ==
    /\ at = "timers" /\ timer = "startAgainTimeout"
    /\ UNCHANGED <<ring, caller, below, net_timeout, eth, ether>>
    /\ Restart("none")
-----------------------------------------------------------------------------
(* Calls of the shell                                                      *)

CallGetc ==
    /\ caller = "none" /\ caller' = "getc" /\ net_timeout' = 0
    /\ UNCHANGED <<ring, net, below, ether>>

GetcWaits ==
    /\ caller = "getc" /\ at = "off" /\ input_size = 0
    /\ UNCHANGED <<caller, below, net_timeout, ether>>
    /\ NetLoop

GetcReturns ==
    /\ caller = "getc" /\ at = "off" /\ input_size # 0
    /\ Take
    /\ caller' = "none"
    /\ UNCHANGED <<net, below, net_timeout, ether>>

(* nc_tstc polls through NetLoop, unless there is input or the device is   *)
(* active.                                                                 *)
CallTstc ==
    /\ caller = "none" /\ input_size = 0 /\ eth # "ACTIVE"
    /\ caller' = "tstc" /\ net_timeout' = 1
    /\ UNCHANGED <<below, ether>>
    /\ NetLoop

(* nc_send_packet without an address: NetLoop waits for the ARP reply.     *)
(* With an address it changes nothing that is kept here: the device is     *)
(* started, and stopped again, if it was not active.                       *)
CallPuts ==
    /\ caller = "none" /\ ether = "null" /\ eth # "ACTIVE"
    /\ caller' = "puts"
    /\ UNCHANGED <<below, net_timeout, ether>>
    /\ NetLoop

CallCommand ==
    /\ caller = "none"
    /\ caller' = "command"
    /\ UNCHANGED <<below, net_timeout, ether>>
    /\ NetLoop

(* nc_tstc, nc_puts and the command return after NetLoop; nc_tstc perhaps  *)
(* to the ctrlc of another NetLoop.                                        *)
Return ==
    /\ caller \in {"tstc", "puts", "command"} /\ at = "off"
    /\ caller' = below /\ below' = "none"
    /\ at' = IF below = "none" THEN "off" ELSE "ctrlc"
    /\ UNCHANGED <<ring, NetState, handler, timer, arp, eth, net_timeout, ether>>

-----------------------------------------------------------------------------
(* NetLoop                                                                 *)

HandlerNoInput(size) ==
    IF handler = "nc_wait_arp_handler" THEN "SUCCESS" ELSE NetState

(* The packet handler in force.                                            *)
Handler(size) ==
    IF (handler = "nc_handler" /\ size # 0) \/ handler = "nc_wait_arp_handler"
    THEN "SUCCESS" ELSE NetState

(* A packet of the console host, in eth_rx.                                *)
Packet(pkt) ==
    /\ at = "rx" /\ eth = "ACTIVE" /\ Len(pkt) > 0
    /\ nc_input_packet(pkt)
    /\ NetState' = Handler(input_size + Stored(pkt))
    /\ UNCHANGED <<at, handler, timer, arp, eth, caller, below, net_timeout, ether>>

(* The reply to the ARP request of nc_puts.                                *)
ArpReply ==
    /\ at = "rx" /\ eth = "ACTIVE" /\ arp = "wait"
    /\ ether' = "set" /\ NetState' = Handler(input_size)
    /\ arp' = "none"
    /\ UNCHANGED <<ring, at, handler, timer, eth, caller, below, net_timeout>>

(* ctrlc: tstc and getc on the console.  Inside nc_getc and nc_tstc they   *)
(* are kept away from the ring by input_recursion.  nc_tstc finds nothing  *)
(* in an empty ring; on a device that a restart left stopped it runs a     *)
(* NetLoop of its own to find out.                                         *)
PollNothing ==
    /\ at \in {"rx", "ctrlc"}
    /\ caller \in Reading \/ (input_size = 0 /\ (eth = "ACTIVE" \/ at = "ctrlc"))
    /\ at' = "timers"
    /\ UNCHANGED <<ring, NetState, handler, timer, arp, eth, caller, below, net_timeout,
                   ether>>

PollNested ==
    /\ at = "rx" /\ caller \notin Reading /\ input_size = 0 /\ eth # "ACTIVE"
    /\ caller' = "tstc" /\ below' = caller /\ net_timeout' = 1
    /\ UNCHANGED ether
    /\ NetLoop

(* Otherwise a character is eaten, and Control-C ends the loop.            *)
PollTakes ==
    /\ at \in {"rx", "ctrlc"} /\ caller \notin Reading /\ input_size # 0
    /\ Take
    /\ \/ /\ input_buffer[input_offset] = Etx
          /\ at' = "off" /\ eth' = "PASSIVE"
       \/ /\ input_buffer[input_offset] # Etx
          /\ at' = "timers" /\ UNCHANGED eth
    /\ UNCHANGED <<NetState, handler, timer, arp, caller, below, net_timeout, ether>>

(* The time of a wait for input is over, also of one that ended before it  *)
(* and has left its timer behind.                                          *)
nc_timeout ==
    /\ at = "timers" /\ timer = "nc_timeout"
    /\ NetState' = "SUCCESS" /\ timer' = "none" /\ at' = "off" /\ eth' = "PASSIVE"
    /\ UNCHANGED <<ring, handler, arp, caller, below, net_timeout, ether>>

(* A command, or the timer of one that was interrupted, fails or ends as   *)
(* it likes.                                                               *)
Outcomes ==
    IF "command" \in {caller, timer} THEN {NetState, "SUCCESS", "FAIL"} ELSE {NetState}

(* The end of a round: timers, then the switch on NetState.  NETLOOP_FAIL  *)
(* returns without eth_halt.                                               *)
Round ==
    /\ at = "timers"
    /\ NetState' \in Outcomes
    /\ at' = IF NetState' = "CONTINUE" THEN "rx" ELSE "off"
    /\ eth' = IF NetState' = "SUCCESS" THEN "PASSIVE" ELSE eth
    /\ timer' \in {timer, IF timer = "command" THEN "none" ELSE timer}
    /\ UNCHANGED <<ring, handler, arp, caller, below, net_timeout, ether>>

Init ==
    /\ input_buffer \in [0..(N - 1) -> {NoChar}]
    /\ input_size = 0 /\ input_offset = 0 /\ last = NoChar
    /\ caller = "none" /\ below = "none" /\ at = "off" /\ NetState = "CONTINUE"
    /\ handler = "command" /\ arp = "none" /\ eth = "PASSIVE"
    /\ timer = "none" /\ net_timeout = 0
    /\ ether = IF Broadcast = "yes" THEN "set" ELSE "null"

Next ==
    \/ CallGetc \/ GetcWaits \/ GetcReturns \/ CallTstc \/ CallPuts \/ CallCommand
    \/ Return
    \/ (\E pkt \in Packets : Packet(pkt)) \/ ArpReply
    \/ PollNothing \/ PollNested \/ PollTakes
    \/ nc_timeout \/ Round \/ NetStartAgain \/ startAgainTimeout

Spec == Init /\ [][Next]_vars

(* NetLoop goes round and comes back, its timers fire and ArpTimeoutCheck  *)
(* counts; the console host goes on sending and answers ARP; eth_init      *)
(* succeeds now and then.                                                  *)
FairSpec ==
    /\ Spec /\ WF_vars(GetcReturns \/ Return \/ PollNothing \/ PollTakes \/ Round)
    /\ SF_vars(nc_timeout) /\ SF_vars(startAgainTimeout)
    /\ SF_vars(NetStartAgain /\ eth' = "ACTIVE")
    /\ SF_vars((GetcWaits \/ PollNested) /\ at' = "rx")
    /\ SF_vars(ArpReply) /\ SF_vars(\E pkt \in Packets : Packet(pkt))

-----------------------------------------------------------------------------
(* Properties                                                              *)

TypeOK ==
    /\ input_buffer \in [0..(N - 1) -> Char \cup {NoChar}]
    /\ input_size \in 0..N /\ input_offset \in 0..(N - 1)
    /\ last \in Char \cup {NoChar}
    /\ caller \in Callers /\ below \in {"none", "puts", "command"}
    /\ at \in {"off", "rx", "ctrlc", "timers"}
    /\ NetState \in {"CONTINUE", "SUCCESS", "FAIL"}
    /\ handler \in {"command", "nc_handler", "nc_wait_arp_handler", "startAgainHandler"}
    /\ timer \in {"none", "nc_timeout", "startAgainTimeout", "command"}
    /\ arp \in {"wait", "none"} /\ net_timeout \in 0..1
    /\ eth \in {"ACTIVE", "PASSIVE"} /\ ether \in {"null", "set"}

(* The characters in the ring, oldest first.                               *)
Contents == [i \in 1..input_size |-> input_buffer[Wrap(input_offset + i - 1)]]

Queue == INSTANCE ByteQueue WITH q <- Contents

(* nc_input_packet and nc_getc over a ring that wraps, called from inside  *)
(* each other's loops, keep the characters of the console host in order:   *)
(* none is lost except where a packet does not fit, none is read twice.    *)
Refinement == Queue!Spec

(* While the shell waits in nc_getc or nc_tstc, the characters that arrive *)
(* are left for it: ctrlc inside the wait reads none (input_recursion).    *)
WaitKeepsInput ==
    [][(caller \in {"getc", "tstc"} /\ at # "off") => (input_size' >= input_size)]_vars

(* nc_getc returns, whatever was going on before, when the console host    *)
(* sends something.                                                        *)
GetcEnds == caller = "getc" ~> caller = "none"

(* The first nc_puts returns, through restarts on devices that fail and    *)
(* replies that come while NetStartAgain ignores them, when the console    *)
(* host answers ARP and sends something.                                   *)
PutsEnds == "puts" \in {caller, below} ~> caller = "none"

(* Both calls of a command come back.                                      *)
CallsEnd == GetcEnds /\ PutsEnds
=============================================================================
