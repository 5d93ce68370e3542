------------------------------ MODULE Failsafe ------------------------------
(***************************************************************************)
(* Web failsafe mode: the upgrade server of net/uip-0.9/httpd.c on the     *)
(* uIP TCP stack (net/uip-0.9/uip.c), driven by NetLoopHttpd (net/net.c)   *)
(* which writes the uploaded image to flash (net/httpd.c).  The clients    *)
(* and the network are external.                                           *)
(*                                                                         *)
(* A connection attempt is named by its port.  Requests and pages are cut  *)
(* into segments; a segment of an upload carries one chunk of the image.   *)
(* Sequence numbers count segments: rcv those accepted from the client     *)
(* (its FIN counts for one), snd those of the server that were             *)
(* acknowledged (SYN-ACK, one per piece of a page, FIN).                   *)
(*                                                                         *)
(* The periodic work of HttpdHandler (retransmission, polling, expiry) is  *)
(* absent because the program never does it: NetLoopHttpd calls it when    *)
(* eth_rx() > 0, and ag7240_recv returns 0 whatever it received.           *)
(***************************************************************************)
EXTENDS Naturals, Sequences, FiniteSets

CONSTANTS
    Ports,          \* the connection attempts, one per client port
    None,           \* no port
    UIP_CONNS,      \* connections uIP keeps
    Requests,       \* what a client may ask for, see Request
    MaxPosts,       \* bound: uploads among the requests
    MaxWire,        \* bound: answers on their way to a client that goes on sending
    RamChunks,      \* bound: chunks stored from WEBFAILSAFE_UPLOAD_RAM_ADDRESS
    UbootSize,      \* WEBFAILSAFE_UPLOAD_UBOOT_SIZE_IN_BYTES, in chunks
    MaxFirmware,    \* flash size - 192 KB, in chunks
    Faults          \* segments are lost, clients give up, flashing fails

Slots == 1..UIP_CONNS
Types == {"FIRMWARE", "UBOOT", "ART"}

(* A request: what its first segment starts with, and for an upload the    *)
(* form field's name, the chunks of the file, whether the POST segment has *)
(* the first one, whether the closing boundary comes in a segment of its   *)
(* own; pages is the length of the answer to a GET.                        *)
Request == [kind : {"GET", "POST", "BAD"}, type : Types, chunks : Nat,
            joined : BOOLEAN, tail : BOOLEAN, pages : Nat]

ASSUME FailsafeAssumption ==
    /\ None \notin Ports /\ UIP_CONNS \in Nat \ {0} /\ Requests \subseteq Request
    /\ {MaxPosts, MaxWire, RamChunks, UbootSize, MaxFirmware} \subseteq Nat
    /\ IsFiniteSet(Ports) /\ Faults \in BOOLEAN

VARIABLES
    conn,   \* uip_conns with the httpd_state of each
    web,    \* what httpd.c and net.c share between the connections
    ram,    \* the chunks stored from WEBFAILSAFE_UPLOAD_RAM_ADDRESS
    loop,   \* NetLoopHttpd: "running", "aborted" or "rebooted"
    flash,  \* the last write to flash
    req,    \* what each client asks for
    cl,     \* the clients' TCP
    wire    \* the server's segments on their way to each client

server == <<conn, web, ram>>
vars == <<conn, web, ram, loop, flash, req, cl, wire>>

-----------------------------------------------------------------------------
(* Requests                                                                *)

Segment(head, chunk) == [head |-> head, chunk |-> chunk]

Segments(r) ==
    IF r.kind # "POST" THEN <<Segment(r.kind, 0)>>
    ELSE (IF r.joined THEN <<Segment("POST", 1)>>
          ELSE <<Segment("POST", 0), Segment("none", 1)>>)
         \o [i \in 1..(r.chunks - 1) |-> Segment("none", i + 1)]
         \o (IF r.tail THEN <<Segment("none", 0)>> ELSE <<>>)

Length(p) == Len(Segments(req[p]))

(* Content-Length, which counts the part's header and the closing boundary *)
ContentLength(r) == r.chunks + (IF r.tail THEN 1 ELSE 0)

(* The size check of httpd_findandstore_firstchunk.                        *)
SizeIsRight(type, n) ==
    IF type = "FIRMWARE" THEN n <= MaxFirmware ELSE n = UbootSize

-----------------------------------------------------------------------------
(* uIP's answers                                                           *)

Closed == [port |-> None, tcp |-> "CLOSED", rcv |-> 0, snd |-> 0, len |-> 0,
           state |-> "NONE", upload |-> 0, total |-> 0]

(* uip_outstanding and the acknowledgement number compared with snd_nxt +  *)
(* len.                                                                    *)
Acked(c, a) == c.len > 0 /\ a = c.snd + 1

Seen(c, a) == [c EXCEPT !.snd = IF Acked(c, a) THEN a ELSE @]

TookNothing(c, q) == c

(* uip_add_rcv_nxt for the data of segment q (0: no data).                 *)
Took(c, q) == [c EXCEPT !.rcv = IF q = 0 THEN @ ELSE @ + 1]

(* httpd_state_reset on the connection.                                    *)
NoRequest(c) == [c EXCEPT !.state = "NONE", !.upload = 0, !.total = 0]

Reply(p, kind, ack, unit) ==
    wire' = [wire EXCEPT ![p] = Append(@, [kind |-> kind, ack |-> ack, unit |-> unit])]

Keep(s, c) == conn' = [conn EXCEPT ![s] = c] /\ UNCHANGED wire

(* tcp_send: the segment acknowledges what was received; a "data" or "fin" *)
(* segment is the next one of the server.                                  *)
Answer(s, c, kind) ==
    /\ conn' = [conn EXCEPT ![s] = c]
    /\ Reply(c.port, kind, c.rcv, IF kind = "ack" THEN 0 ELSE c.snd + 1)

(* The appsend code when the application sent nothing.                     *)
AnswerNothing(s, c, q) ==
    IF q = 0 THEN Keep(s, [c EXCEPT !.len = 0]) ELSE Answer(s, [c EXCEPT !.len = 0], "ack")

-----------------------------------------------------------------------------
(* httpd.c                                                                 *)

(* httpd_state_reset on what all connections share: boundary_value is      *)
(* freed, and keeps pointing to what was freed.                            *)
Reset(w) ==
    [w EXCEPT !.found = FALSE,
              !.freed = w.boundary # None,
              !.heap = IF w.freed THEN "corrupt" ELSE @]

(* uip_abort: the connection is reset.                                     *)
AppAbort(s) ==
    /\ web' = Reset(web) /\ UNCHANGED ram
    /\ conn' = [conn EXCEPT ![s] = Closed]
    /\ Reply(conn[s].port, "rst", 0, 0)

(* httpd_findandstore_firstchunk finds the part that starts with the       *)
(* boundary.  Freed memory may have been overwritten.                      *)
Finds(w, p, seg) ==
    /\ w.boundary = p /\ seg.chunk = 1

BoundaryIntact(w) == IF w.freed THEN BOOLEAN ELSE {TRUE}

Store(p, k, w) == ram' = [ram EXCEPT ![w.ptr + 1] = [port |-> p, chunk |-> k]]

FirstChunk(w, p) ==
    [w EXCEPT !.found = TRUE, !.ptr = @ + 1, !.type = req[p].type,
              !.failed = @ \/ ~SizeIsRight(req[p].type, req[p].chunks)]

AppGet(s, c) ==
    /\ Answer(s, [c EXCEPT !.state = "FILE_REQUEST", !.upload = req[c.port].pages,
                           !.len = 1], "data")
    /\ UNCHANGED <<web, ram>>

AppPost(s, c, seg) ==
    LET w == [web EXCEPT !.boundary = c.port, !.freed = FALSE, !.ptr = 0, !.found = FALSE]
        u == [c EXCEPT !.state = "UPLOAD_REQUEST", !.total = ContentLength(req[c.port])]
    IN \/ /\ Finds(w, c.port, seg)
          /\ web' = FirstChunk(w, c.port)
          /\ Store(c.port, 1, w)
          /\ AnswerNothing(s, [u EXCEPT !.upload = 1, !.total = req[c.port].chunks], 1)
       \/ /\ ~Finds(w, c.port, seg)
          /\ web' = w /\ UNCHANGED ram
          /\ AnswerNothing(s, u, 1)

(* New data on a connection in STATE_NONE.                                 *)
AppRequest(s, c, seg) ==
    \/ seg.head = "GET" /\ AppGet(s, c)
    \/ seg.head = "POST" /\ AppPost(s, c, seg)
    \/ seg.head \in {"BAD", "none"} /\ AppAbort(s)

(* A page was sent: if an upload is complete by then, on whichever         *)
(* connection, let NetLoopHttpd upgrade.                                   *)
PageSentWhateverSize(w) ==
    IF ~w.postDone THEN w
    ELSE [w EXCEPT !.ready = TRUE, !.postDone = FALSE, !.failed = FALSE]

PageSentNotReady(w) ==
    IF ~w.postDone THEN w ELSE [w EXCEPT !.postDone = FALSE, !.failed = FALSE]

PageSent(w) ==
    IF ~w.postDone THEN w
    ELSE [w EXCEPT !.ready = @ \/ ~w.failed, !.postDone = FALSE, !.failed = FALSE]

(* A piece of a page was acknowledged: send the next, or close.            *)
AppAcked(s, c, q) ==
    /\ UNCHANGED ram
    /\ \/ /\ c.state = "FILE_REQUEST" /\ c.upload <= 1
          /\ web' = Reset(PageSent(web))
          /\ Answer(s, [NoRequest(c) EXCEPT !.len = 1, !.tcp = "FIN_WAIT_1"], "fin")
       \/ /\ c.state = "FILE_REQUEST" /\ c.upload > 1
          /\ UNCHANGED web
          /\ Answer(s, [c EXCEPT !.upload = @ - 1, !.len = 1], "data")

(* More data of an upload.                                                 *)
AppFirstData(s, c, seg) ==
    \E intact \in BoundaryIntact(web) :
        IF intact /\ Finds(web, c.port, seg)
        THEN /\ web' = FirstChunk(web, c.port)
             /\ Store(c.port, 1, web)
             /\ AnswerNothing(s, [c EXCEPT !.upload = 1, !.total = req[c.port].chunks], 1)
        ELSE AppAbort(s)

Stored(w) == [w EXCEPT !.ptr = IF w.failed THEN @ ELSE @ + 1]

StoreMore(c, seg) ==
    IF web.failed THEN UNCHANGED ram ELSE Store(c.port, seg.chunk, web)

AppMoreData(s, c, seg) ==
    /\ StoreMore(c, seg)
    /\ \/ /\ c.upload + 1 < c.total
          /\ web' = Stored(web)
          /\ AnswerNothing(s, [c EXCEPT !.upload = @ + 1], 1)
       \/ /\ c.upload + 1 >= c.total
          /\ web' = Reset([Stored(web) EXCEPT !.postDone = TRUE, !.xfer = c.total])
          /\ Answer(s, [c EXCEPT !.state = "FILE_REQUEST", !.upload = 1, !.total = 0,
                                 !.len = 1], "data")

AppData(s, c, seg) ==
    \/ c.state = "UPLOAD_REQUEST" /\ ~web.found /\ AppFirstData(s, c, seg)
    \/ c.state = "UPLOAD_REQUEST" /\ web.found /\ AppMoreData(s, c, seg)
    \/ c.state = "FILE_REQUEST" /\ UNCHANGED <<web, ram>> /\ AnswerNothing(s, c, 1)

-----------------------------------------------------------------------------
(* uip_process: segment q of the client of slot s (0: no data), with       *)
(* acknowledgement a and perhaps a FIN.                                    *)

OutOfSequence(s, q) ==
    /\ q # 0 /\ q # conn[s].rcv + 1
    /\ Answer(s, conn[s], "ack") /\ UNCHANGED <<web, ram>>

SynRcvd(s, q, a) ==
    /\ conn[s].tcp = "SYN_RCVD" /\ UNCHANGED ram
    /\ \/ /\ Acked(conn[s], a)
          /\ web' = Reset(web)
          /\ AnswerNothing(s, [NoRequest(Took(Seen(conn[s], a), q)) EXCEPT !.tcp = "ESTABLISHED"], q)
       \/ /\ ~Acked(conn[s], a)
          /\ Keep(s, conn[s]) /\ UNCHANGED web

Established(s, q, a) ==
    LET c == Took(Seen(conn[s], a), q)
        seg == Segments(req[c.port])[q]
    IN /\ conn[s].tcp = "ESTABLISHED"
       /\ \/ q # 0 /\ c.state = "NONE" /\ AppRequest(s, c, seg)
          \/ (q = 0 \/ c.state # "NONE") /\ Acked(conn[s], a) /\ AppAcked(s, c, q)
          \/ q # 0 /\ c.state # "NONE" /\ ~Acked(conn[s], a) /\ AppData(s, c, seg)
          \/ q = 0 /\ ~Acked(conn[s], a) /\ Keep(s, c) /\ UNCHANGED <<web, ram>>

EstablishedFin(s, q, a) ==
    LET c == Seen(conn[s], a)
    IN /\ conn[s].tcp = "ESTABLISHED" /\ UNCHANGED ram
       /\ \/ c.len > 0 /\ Keep(s, c) /\ UNCHANGED web
          \/ /\ c.len = 0 /\ web' = Reset(web)
             /\ Answer(s, [NoRequest(Took(c, q)) EXCEPT !.rcv = @ + 1, !.len = 1,
                                                        !.tcp = "LAST_ACK"], "fin")

LastAck(s, a) ==
    /\ conn[s].tcp = "LAST_ACK" /\ UNCHANGED ram
    /\ \/ Acked(conn[s], a) /\ Keep(s, Closed) /\ web' = Reset(web)
       \/ ~Acked(conn[s], a) /\ Keep(s, conn[s]) /\ UNCHANGED web

FinWait1(s, q, a, fin) ==
    LET c == Took(Seen(conn[s], a), q)
        acked == Acked(conn[s], a)
    IN /\ conn[s].tcp = "FIN_WAIT_1" /\ UNCHANGED ram
       /\ \/ /\ fin /\ web' = Reset(web)
             /\ Answer(s, [c EXCEPT !.tcp = IF acked THEN "TIME_WAIT" ELSE "CLOSING",
                                    !.len = IF acked THEN 0 ELSE @, !.rcv = @ + 1], "ack")
          \/ /\ ~fin /\ acked /\ UNCHANGED web
             /\ Keep(s, [c EXCEPT !.tcp = "FIN_WAIT_2", !.len = 0])
          \/ ~fin /\ ~acked /\ q # 0 /\ Answer(s, c, "ack") /\ UNCHANGED web
          \/ ~fin /\ ~acked /\ q = 0 /\ Keep(s, c) /\ UNCHANGED web

FinWait2(s, q, fin) ==
    LET c == Took(conn[s], q)
    IN /\ conn[s].tcp = "FIN_WAIT_2" /\ UNCHANGED ram
       /\ \/ /\ fin /\ web' = Reset(web)
             /\ Answer(s, [c EXCEPT !.tcp = "TIME_WAIT", !.rcv = @ + 1], "ack")
          \/ ~fin /\ q # 0 /\ Answer(s, c, "ack") /\ UNCHANGED web
          \/ ~fin /\ q = 0 /\ Keep(s, c) /\ UNCHANGED web

TimeWait(s) ==
    conn[s].tcp = "TIME_WAIT" /\ Answer(s, conn[s], "ack") /\ UNCHANGED <<web, ram>>

Closing(s, a) ==
    /\ conn[s].tcp = "CLOSING" /\ UNCHANGED <<web, ram>>
    /\ Keep(s, [Seen(conn[s], a) EXCEPT !.tcp = IF Acked(conn[s], a) THEN "TIME_WAIT" ELSE @])

(* Which connection a segment belongs to.                                  *)
Owner(p) == {s \in Slots : conn[s].tcp # "CLOSED" /\ conn[s].port = p}

Input(p, q, a, fin) ==
    \/ Owner(p) = {} /\ Reply(p, "rst", 0, 0) /\ UNCHANGED server
    \/ \E s \in Owner(p) :
        \/ OutOfSequence(s, q)
        \/ /\ q \in {0, conn[s].rcv + 1}
           /\ \/ SynRcvd(s, q, a)
              \/ ~fin /\ Established(s, q, a)
              \/ fin /\ EstablishedFin(s, q, a)
              \/ LastAck(s, a)
              \/ FinWait1(s, q, a, fin)
              \/ FinWait2(s, q, fin)
              \/ TimeWait(s)
              \/ Closing(s, a)

FreeSlotsClosed ==
    {s \in Slots : /\ conn[s].tcp = "CLOSED"
                   /\ \A t \in Slots : conn[t].tcp = "CLOSED" => s <= t}

(* A SYN takes a closed slot, else the first in TIME_WAIT (their timers    *)
(* all stand at 0), else it is dropped.                                    *)
FreeSlots ==
    LET closed == {s \in Slots : conn[s].tcp = "CLOSED"}
        wait == {s \in Slots : conn[s].tcp = "TIME_WAIT"}
        usable == IF closed # {} THEN closed ELSE wait
    IN {s \in usable : \A t \in usable : s <= t}

InputSyn(p) ==
    /\ UNCHANGED <<web, ram>>
    /\ \/ Owner(p) = {} /\ \E s \in FreeSlots :
            Answer(s, [conn[s] EXCEPT !.port = p, !.tcp = "SYN_RCVD", !.rcv = 0,
                                      !.snd = 0, !.len = 1], "synack")
       \/ (Owner(p) # {} \/ FreeSlots = {}) /\ UNCHANGED <<conn, wire>>

InputRst(p) ==
    /\ UNCHANGED <<ram, wire>>
    /\ \/ Owner(p) = {} /\ UNCHANGED <<conn, web>>
       \/ /\ Owner(p) # {} /\ web' = Reset(web)
          /\ conn' = [s \in Slots |-> IF s \in Owner(p) THEN Closed ELSE conn[s]]

-----------------------------------------------------------------------------
(* The clients: nxt is the first request segment not acknowledged, sent    *)
(* the last one sent, got the server's segments received; pend tells that  *)
(* one of them is still to be acknowledged.                                *)

NewClient == [st |-> "idle", nxt |-> 1, sent |-> 0, got |-> 0, pend |-> FALSE]

Talking == {"open", "half", "last", "closing"}

(* A segment leaves; the network may lose it.                              *)
Sends(p, q, fin) ==
    /\ loop = "running" /\ Len(wire[p]) < MaxWire
    /\ UNCHANGED <<loop, flash, req>>
    /\ \/ Input(p, q, cl[p].got, fin)
       \/ Faults /\ UNCHANGED <<server, wire>>

Client(p, c) == cl' = [cl EXCEPT ![p] = c]

Open(p) ==
    /\ loop = "running" /\ cl[p].st \in {"idle", "syn"} /\ wire[p] = <<>>
    /\ Client(p, [cl[p] EXCEPT !.st = "syn"])
    /\ InputSyn(p)
    /\ UNCHANGED <<loop, flash, req>>

(* The handshake is completed before data is sent; two segments may be in  *)
(* flight.                                                                 *)
SendSegment(p) ==
    /\ cl[p].st = "open" /\ (cl[p].got = 1 => ~cl[p].pend)
    /\ \E q \in cl[p].nxt..(cl[p].sent + 1) :
        /\ q <= Length(p) /\ q <= cl[p].nxt + 1
        /\ ~Faults => q = cl[p].sent + 1
        /\ Client(p, [cl[p] EXCEPT !.pend = FALSE,
                                   !.sent = IF q > @ THEN q ELSE @])
        /\ Sends(p, q, FALSE)

SendAck(p) ==
    /\ cl[p].st \in Talking /\ cl[p].pend
    /\ Client(p, [cl[p] EXCEPT !.pend = FALSE, !.st = IF @ = "last" THEN "closed" ELSE @])
    /\ Sends(p, 0, FALSE)

(* The server closed the connection: close it, too.                        *)
CloseToo(p) ==
    /\ cl[p].st = "closing"
    /\ Client(p, [cl[p] EXCEPT !.st = "closed", !.pend = FALSE])
    /\ Sends(p, 0, TRUE)

(* The client closes its side, with its last segment or after it.          *)
HalfClose(p) ==
    /\ Faults /\ cl[p].st = "open" /\ cl[p].got > 0 /\ cl[p].nxt >= Length(p)
    /\ Client(p, [cl[p] EXCEPT !.st = "half", !.pend = FALSE])
    /\ Sends(p, IF cl[p].nxt = Length(p) THEN Length(p) ELSE 0, TRUE)

ResendFin(p) ==
    /\ Faults /\ cl[p].st \in {"half", "closed"} /\ wire[p] = <<>>
    /\ Client(p, [cl[p] EXCEPT !.pend = FALSE])
    /\ Sends(p, 0, TRUE)

(* The user gives up; the reset may not arrive.                            *)
Cancel(p) ==
    /\ Faults /\ loop = "running" /\ cl[p].st \in Talking
    /\ Client(p, [cl[p] EXCEPT !.st = "gone", !.pend = FALSE])
    /\ (InputRst(p) \/ UNCHANGED <<server, wire>>)
    /\ UNCHANGED <<loop, flash, req>>

(* One of the server's segments arrives.                                   *)
Heard(c, m) ==
    LET new == m.unit = c.got + 1
    IN [c EXCEPT !.nxt = IF m.ack + 1 > @ THEN m.ack + 1 ELSE @,
                 !.got = IF new THEN @ + 1 ELSE @,
                 !.pend = @ \/ m.unit # 0,
                 !.st = IF m.kind = "synack" /\ @ = "syn" THEN "open"
                        ELSE IF m.kind = "fin" /\ new
                             THEN (IF @ = "open" THEN "closing" ELSE "last")
                        ELSE @]

Receive(p) ==
    /\ wire[p] # <<>>
    /\ wire' = [wire EXCEPT ![p] = Tail(@)]
    /\ UNCHANGED <<server, loop, flash, req>>
    /\ \/ /\ cl[p].st \in Talking \cup {"syn"}
          /\ Client(p, IF Head(wire[p]).kind = "rst"
                       THEN [cl[p] EXCEPT !.st = "gone", !.pend = FALSE]
                       ELSE Heard(cl[p], Head(wire[p])))
       \/ cl[p].st \notin Talking \cup {"syn"} /\ UNCHANGED cl

LoseReply(p) ==
    /\ Faults /\ wire[p] # <<>>
    /\ wire' = [wire EXCEPT ![p] = Tail(@)]
    /\ UNCHANGED <<server, loop, flash, req, cl>>

-----------------------------------------------------------------------------
(* net.c, net/httpd.c                                                      *)

WrittenSizeFixed == UbootSize

(* do_http_upgrade: the size written and the chunks written.               *)
WrittenSize == IF web.type = "FIRMWARE" THEN web.xfer ELSE UbootSize

Written == [type |-> web.type, image |-> [i \in 1..WrittenSize |-> ram[i]]]

(* NetLoopHttpd finds an upload ready (between two calls of eth_rx, each   *)
(* of which may process several packets), upgrades and resets the board;   *)
(* if that fails it starts the server again.                               *)
Upgrade ==
    /\ loop = "running" /\ web.ready
    /\ flash' = Written
    /\ UNCHANGED <<ram, req, cl, wire>>
    /\ \/ loop' = "rebooted" /\ UNCHANGED <<conn, web>>
       \/ /\ Faults /\ UNCHANGED loop
          /\ web' = [web EXCEPT !.ready = FALSE, !.type = "FIRMWARE", !.xfer = 0]
          /\ conn' = [s \in Slots |-> [conn[s] EXCEPT !.tcp = "CLOSED"]]

(* Ctrl-C.                                                                 *)
Interrupt ==
    /\ Faults /\ loop = "running" /\ ~web.ready
    /\ loop' = "aborted"
    /\ UNCHANGED <<server, flash, req, cl, wire>>

Init ==
    /\ conn = [s \in Slots |-> Closed]
    /\ web = [found |-> FALSE, boundary |-> None, freed |-> FALSE, heap |-> "sound",
              ptr |-> 0, type |-> "FIRMWARE", failed |-> FALSE, postDone |-> FALSE,
              ready |-> FALSE, xfer |-> 0]
    /\ ram = [i \in 1..RamChunks |-> [port |-> None, chunk |-> 0]]
    /\ loop = "running"
    /\ flash = [type |-> "none", image |-> <<>>]
    /\ req \in {r \in [Ports -> Requests] :
                  Cardinality({p \in Ports : r[p].kind = "POST"}) <= MaxPosts}
    /\ cl = [p \in Ports |-> NewClient]
    /\ wire = [p \in Ports |-> <<>>]

ClientStep(p) ==
    \/ Open(p) \/ SendSegment(p) \/ SendAck(p) \/ CloseToo(p) \/ HalfClose(p)
    \/ ResendFin(p) \/ Cancel(p) \/ Receive(p) \/ LoseReply(p)

Next == (\E p \in Ports : ClientStep(p)) \/ Upgrade \/ Interrupt

Spec == Init /\ [][Next]_vars

(* Clients follow their connection through, and NetLoopHttpd goes round.   *)
FairSpec ==
    /\ Spec /\ WF_vars(Upgrade)
    /\ \A p \in Ports : /\ WF_vars(Open(p)) /\ WF_vars(SendSegment(p))
                        /\ WF_vars(SendAck(p)) /\ WF_vars(CloseToo(p))
                        /\ WF_vars(Receive(p))

-----------------------------------------------------------------------------
(* Properties                                                              *)

TypeOK ==
    /\ DOMAIN conn = Slots
    /\ \A s \in Slots :
        /\ conn[s].port \in Ports \cup {None}
        /\ conn[s].tcp \in {"CLOSED", "SYN_RCVD", "ESTABLISHED", "LAST_ACK", "FIN_WAIT_1",
                            "FIN_WAIT_2", "TIME_WAIT", "CLOSING"}
        /\ {conn[s].rcv, conn[s].snd, conn[s].upload, conn[s].total} \subseteq Nat
        /\ conn[s].len \in {0, 1}
        /\ conn[s].state \in {"NONE", "FILE_REQUEST", "UPLOAD_REQUEST"}
        /\ conn[s].tcp = "ESTABLISHED" /\ conn[s].len > 0 => conn[s].state = "FILE_REQUEST"
    /\ {web.found, web.freed, web.failed, web.postDone, web.ready} \subseteq BOOLEAN
    /\ web.boundary \in Ports \cup {None} /\ web.type \in Types
    /\ web.ptr \in 0..RamChunks /\ web.xfer \in Nat
    /\ loop \in {"running", "aborted", "rebooted"}
    /\ \A p \in Ports : Len(wire[p]) <= MaxWire + 1

IsUpload(p, type, n) ==
    /\ req[p].kind = "POST" /\ req[p].type = type /\ req[p].chunks = n
    /\ SizeIsRight(type, n)

(* Memory holds, from its start, the complete file of one upload, of the   *)
(* type and size about to be written.                                      *)
ImageComplete ==
    \E p \in Ports :
        /\ IsUpload(p, web.type, web.xfer)
        /\ \A i \in 1..web.xfer : ram[i] = [port |-> p, chunk |-> i]

(* "until upload is not completed, get back to the start of the loop"      *)
(* (NetLoopHttpd): the step that makes the upload ready for the upgrade    *)
(* leaves a complete image in memory, whichever connection takes it.       *)
ReadyWhenComplete ==
    [][~web.ready /\ web'.ready => ImageComplete']_vars

(* do_http_upgrade writes a whole file in the sectors of its kind: what is *)
(* in flash afterwards is the file of one upload and nothing beside it.    *)
FlashIsComplete ==
    flash.type # "none" => \E p \in Ports :
        /\ IsUpload(p, flash.type, Len(flash.image))
        /\ \A i \in 1..Len(flash.image) : flash.image[i] = [port |-> p, chunk |-> i]

(* Retransmitted, repeated and early segments: while an upload goes on     *)
(* (httpd_appcall in STATE_UPLOAD_REQUEST), the chunks stored are its own, *)
(* in order and without a gap, and hs->upload counts them. uip_process     *)
(* never keeps two connections for one client port.                        *)
StoredInOrder ==
    /\ TypeOK
    /\ \A s \in Slots :
           conn[s].state = "UPLOAD_REQUEST" /\ web.found /\ ~web.failed =>
               /\ web.ptr = conn[s].upload
               /\ \A i \in 1..web.ptr : ram[i] = [port |-> conn[s].port, chunk |-> i]
    /\ \A s, t \in Slots : conn[s].tcp # "CLOSED" /\ conn[t].tcp # "CLOSED" /\ s # t =>
           conn[s].port # conn[t].port

(* On a network that loses nothing, every client is served or reset, also  *)
(* one whose SYN was dropped because all connections were in use.          *)
EveryoneServed ==
    \A p \in Ports : <>(cl[p].st \in {"closed", "gone"} \/ loop = "rebooted")

(* ... and a valid upload is written to flash unless its connection is     *)
(* reset.                                                                  *)
UploadIsFlashed ==
    \A p \in Ports : IsUpload(p, req[p].type, req[p].chunks) =>
        <>(cl[p].st = "gone" \/ loop = "rebooted")

=============================================================================
