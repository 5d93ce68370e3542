------------------------------ MODULE GdbSend ------------------------------
(***************************************************************************)
(* tools/gdb: gdbsend writes an image into the memory of a board through   *)
(* the stub of gdb's serial protocol and starts it (gdbsend.c, remote.c).  *)
(* A token of the line is an acknowledgement, a refusal, noise or a whole  *)
(* packet; packets and acknowledgements may be lost or damaged.            *)
(***************************************************************************)
EXTENDS Integers, Sequences

CONSTANTS
    Image,              \* sequence of bytes, sent to the addresses 1, 2, ...
    Escaped,            \* the bytes that go as two characters
    Radix,              \* of the numbers in a packet (16)
    PBUFSIZ,
    PutTries,           \* timeouts putpkt bears (3)
    MAX_TRIES,          \* of getpkt
    Blank,              \* what memory holds before
    MaxFaults           \* bound on the damages and losses

ImageBytes == {Image[a] : a \in DOMAIN Image}

(* The line is at fault less often than either side tries again.           *)
ASSUME GdbAssumption ==
    /\ Image \in Seq(ImageBytes) \ {<<>>} /\ Radix > 1
    /\ {PBUFSIZ, PutTries, MAX_TRIES} \subseteq Nat \ {0}
    /\ MaxFaults \in Nat /\ MaxFaults < MAX_TRIES /\ MaxFaults <= PutTries

VARIABLES
    host,               \* the loader: what it waits for, and for which packet
    toStub, toHost,     \* tokens on the line
    stub,               \* its last reply, what it knows, whether it lives or runs the program
    memory,             \* of the board
    faults,
    chatter             \* a character nobody asked for is on its way to the loader

protocolVars == <<host, toStub, toHost, stub, memory, faults>>
gdbVars == <<protocolVars, chatter>>

Addresses == 1 .. Len(Image)
Smaller(a, b) == IF a < b THEN a ELSE b

hexnumlen(n) == CHOOSE k \in 1 .. n + 1 : n < Radix ^ k /\ (k = 1 \/ n >= Radix ^ (k - 1))

Token(kind) == [kind |-> kind, op |-> "", from |-> 0, bytes |-> <<>>, good |-> TRUE]
Packet(op, from, bytes) == [kind |-> "$", op |-> op, from |-> from, bytes |-> bytes, good |-> TRUE]

-----------------------------------------------------------------------------
(* remote_write_bytes                                                      *)

(* The payload left of a packet by its header; $M<addr>,<len>:#nn.         *)
MaxBuf == PBUFSIZ - (2 + hexnumlen(Len(Image)) + 1 + hexnumlen(Len(Image)) + 4)

ASSUME HeaderLeavesRoom == MaxBuf \in Nat

(* What is meant to go, and what goes of it, once done bytes are sent.     *)
Planned(done, binary) == Smaller(Len(Image) - done, IF binary THEN MaxBuf ELSE MaxBuf \div 2)

EscapesBefore(done, i) ==
    Len(SelectSeq(SubSeq(Image, done + 1, done + i - 1), LAMBDA b : b \in Escaped))

(* Mutant: an escape is counted with the byte it stands for.               *)
FitsCountingTwice(done, i) == i - 1 + 2 * EscapesBefore(done, i) < MaxBuf - 2

(* In binary, escapes may fill the packet before all that was planned.     *)
Fits(done, i) == i - 1 + EscapesBefore(done, i) < MaxBuf - 2
Taken(done, binary) ==
    IF ~binary THEN Planned(done, binary)
    ELSE CHOOSE i \in 0 .. Planned(done, binary) :
            /\ \A j \in 1 .. i : Fits(done, j)
            /\ i = Planned(done, binary) \/ ~Fits(done, i + 1)

(* The length is written over the one planned: with fewer digits, what is  *)
(* left of the old field is read as data (the FIXME of remote.c:563).      *)
LostDigits(done, binary) == hexnumlen(Planned(done, binary)) - hexnumlen(Taken(done, binary))
Chunk(done, binary) ==
    LET data == SubSeq(Image, done + 1, done + Taken(done, binary)) IN
    Packet(IF binary THEN "X" ELSE "M", done + 1,
           SubSeq([i \in 1 .. LostDigits(done, binary) |-> ":"] \o data, 1, Taken(done, binary)))

(* check_binary_download: a write of nothing.                              *)
PacketOf(h) ==
    CASE h.doing = "probe" -> Packet("X", 1, <<>>)
      [] h.doing = "write" -> Chunk(h.done, h.binary)
      [] h.doing = "continue" -> Packet("c", 1, <<>>)

Send(t) == toStub' = Append(toStub, t)

(* putpkt_binary: the packet is sent, and its acknowledgement waited for.  *)
PutPacket(h, before) ==
    /\ host' = [h EXCEPT !.at = "ack", !.timeouts = 0, !.tries = 1]
    /\ toStub' = toStub \o before \o <<PacketOf(h)>>

-----------------------------------------------------------------------------
(* main: the image is read and the serial device opened; anything that     *)
(* fails ends the loader before the board is told anything.                *)
OpenFails ==
    /\ host.at = "start"
    /\ host' = [host EXCEPT !.at = "failed"]
    /\ UNCHANGED <<toStub, toHost, stub, memory, faults>>

(* remote_reset, then the probe for binary downloads.                      *)
Begin ==
    /\ host.at = "start"
    /\ PutPacket(host, <<Token("+")>>)
    /\ UNCHANGED <<toHost, stub, memory, faults>>

(* After the writes the program is started, with the option "-c".          *)
Conclude(h, before) ==
    IF h.docont THEN PutPacket([h EXCEPT !.doing = "continue"], before)
    ELSE host' = [h EXCEPT !.at = "done"] /\ toStub' = toStub \o before

GoOn(h, before) ==
    IF h.done < Len(Image) THEN PutPacket([h EXCEPT !.doing = "write"], before) ELSE Conclude(h, before)

Advanced(h) == [h EXCEPT !.done = @ + Taken(h.done, h.binary)]

(* What follows a reply.  No answer at all is no error; an error ends the  *)
(* writing, and main, which ignores it, goes on.                           *)
AfterReply(h, reply, before) ==
    CASE h.doing = "probe" -> GoOn([h EXCEPT !.binary = reply # "empty"], before)
      [] h.doing = "write" /\ reply = "E" -> Conclude([h EXCEPT !.refused = TRUE], before)
      [] OTHER -> GoOn(Advanced(h), before)

(* putpkt returned, with an acknowledgement or without one.                *)
AfterPut(h) ==
    /\ host' = [h EXCEPT !.at = IF h.doing = "continue" THEN "done" ELSE "reply", !.tries = 1]
    /\ UNCHANGED toStub

Read == toHost # <<>> /\ toHost' = Tail(toHost)

(* The wait of putpkt: refusals and noise are passed over; at a packet,    *)
(* taken for an old reply, getpkt is called, which passes over what is     *)
(* left of it and waits for another.                                       *)
ReadAck ==
    /\ host.at = "ack" /\ Read
    /\ LET t == Head(toHost) IN
       CASE t.kind = "+" -> AfterPut(host)
         [] t.kind = "$" -> host' = [host EXCEPT !.at = "junk", !.tries = 1] /\ UNCHANGED toStub
         [] OTHER -> UNCHANGED <<host, toStub>>
    /\ UNCHANGED <<stub, memory, faults>>

(* The line is silent for remote_timeout: nothing is under way.            *)
Silent == toHost = <<>> /\ toStub = <<>> /\ ~chatter

PutGivesUp(h) == h.timeouts + 1 > PutTries

(* Mutant: the timeouts are counted anew after each transmission.          *)
SentAgainForEver(h) == [h EXCEPT !.timeouts = 0]

SentAgain(h) == [h EXCEPT !.timeouts = @ + 1]

AckTimeout ==
    /\ host.at = "ack" /\ Silent
    /\ IF PutGivesUp(host) THEN AfterPut(host)
       ELSE Send(PacketOf(host)) /\ host' = SentAgain(host)
    /\ UNCHANGED <<toHost, stub, memory, faults>>

TriesLeft == host.tries < MAX_TRIES

(* getpkt: everything up to a packet is passed over; a bad one and a       *)
(* silence are refused, MAX_TRIES times, and then taken as they are.       *)
GetFails ==
    IF TriesLeft THEN Send(Token("-")) /\ host' = [host EXCEPT !.tries = @ + 1]
    ELSE IF host.at = "junk"
    THEN toStub' = toStub \o <<Token("-"), Token("+")>> /\ host' = [host EXCEPT !.at = "ack"]
    ELSE AfterReply(host, "timeout", <<Token("-"), Token("+")>>)

ReadReply ==
    /\ host.at \in {"reply", "junk"} /\ Read
    /\ LET t == Head(toHost) IN
       CASE t.kind = "$" /\ t.good /\ host.at = "reply" -> AfterReply(host, t.op, <<Token("+")>>)
         [] t.kind = "$" /\ t.good /\ host.at = "junk" -> Send(Token("+")) /\ host' = [host EXCEPT !.at = "ack"]
         [] t.kind = "$" /\ ~t.good -> GetFails
         [] OTHER -> UNCHANGED <<host, toStub>>
    /\ UNCHANGED <<stub, memory, faults>>

ReplyTimeout ==
    /\ host.at \in {"reply", "junk"} /\ Silent
    /\ GetFails
    /\ UNCHANGED <<toHost, stub, memory, faults>>

Loader == Begin \/ OpenFails \/ ReadAck \/ ReadReply \/ AckTimeout \/ ReplyTimeout

-----------------------------------------------------------------------------
(* The stub, after the protocol that remote.c describes, and the line.     *)
Written(m, p) == [a \in Addresses |-> IF a >= p.from /\ a < p.from + Len(p.bytes) THEN p.bytes[a - p.from + 1] ELSE m[a]]

Obey(p) ==
    CASE p.op = "c" ->
            /\ stub' = [stub EXCEPT !.runs = TRUE] /\ toHost' = Append(toHost, Token("+")) /\ UNCHANGED memory
      [] p.op = "X" /\ ~stub.binary ->
            /\ stub' = [stub EXCEPT !.last = "empty"] /\ toHost' = toHost \o <<Token("+"), Packet("empty", 1, <<>>)>>
            /\ UNCHANGED memory
      [] p.op # "c" /\ ~(p.op = "X" /\ ~stub.binary) /\ stub.fails /\ p.bytes # <<>> ->
            /\ stub' = [stub EXCEPT !.last = "E"] /\ toHost' = toHost \o <<Token("+"), Packet("E", 1, <<>>)>>
            /\ UNCHANGED memory
      [] OTHER ->
            /\ stub' = [stub EXCEPT !.last = "OK"] /\ toHost' = toHost \o <<Token("+"), Packet("OK", 1, <<>>)>>
            /\ memory' = Written(memory, p)

Stub ==
    /\ toStub # <<>> /\ toStub' = Tail(toStub)
    /\ LET t == Head(toStub) IN
       CASE stub.runs \/ stub.dead -> UNCHANGED <<stub, toHost, memory>>
         [] ~stub.runs /\ ~stub.dead /\ t.kind = "$" /\ t.good -> Obey(t)
         [] ~stub.runs /\ ~stub.dead /\ t.kind = "$" /\ ~t.good ->
                toHost' = Append(toHost, Token("-")) /\ UNCHANGED <<stub, memory>>
         [] ~stub.runs /\ ~stub.dead /\ t.kind = "-" /\ stub.last # "none" ->
                toHost' = Append(toHost, Packet(stub.last, 1, <<>>)) /\ UNCHANGED <<stub, memory>>
         [] OTHER -> UNCHANGED <<stub, toHost, memory>>
    /\ UNCHANGED <<host, faults>>

StubDies == ~stub.dead /\ stub' = [stub EXCEPT !.dead = TRUE] /\ UNCHANGED <<host, toStub, toHost, memory, faults>>

(* What runs on the board sends characters nobody asked for, as often as   *)
(* it likes, one of them under way at a time; both waits pass them over,   *)
(* and their timeout begins anew.                                          *)
Talk == ~stub.dead /\ ~chatter /\ chatter' = TRUE /\ UNCHANGED protocolVars
PassOver == host.at \in {"ack", "junk", "reply"} /\ chatter /\ chatter' = FALSE /\ UNCHANGED protocolVars

Damaged(t) == IF t.kind = "$" THEN [t EXCEPT !.good = FALSE] ELSE Token("noise")

Fault ==
    /\ faults < MaxFaults /\ faults' = faults + 1
    /\ \/ /\ toStub # <<>> /\ toStub' \in {Tail(toStub), <<Damaged(Head(toStub))>> \o Tail(toStub)}
          /\ UNCHANGED toHost
       \/ /\ toHost # <<>> /\ toHost' \in {Tail(toHost), <<Damaged(Head(toHost))>> \o Tail(toHost)}
          /\ UNCHANGED toStub
    /\ UNCHANGED <<host, stub, memory>>

GdbInit ==
    /\ \E docont \in BOOLEAN :
           host = [at |-> "start", doing |-> "probe", done |-> 0, binary |-> TRUE, refused |-> FALSE,
                   timeouts |-> 0, tries |-> 1, docont |-> docont]
    /\ toStub = <<>> /\ toHost = <<>>
    /\ stub \in [last : {"none"}, binary : BOOLEAN, fails : BOOLEAN, runs : {FALSE}, dead : {FALSE}]
    /\ memory = [a \in Addresses |-> Blank] /\ faults = 0 /\ chatter = FALSE

GdbNext ==
    \/ (Loader \/ Stub \/ StubDies \/ Fault) /\ UNCHANGED chatter
    \/ Talk
    \/ PassOver

(* The loader goes on, and the line delivers.                              *)
GdbProgress ==
    \/ (Loader \/ Stub) /\ UNCHANGED chatter
    \/ PassOver
GdbSpec == GdbInit /\ [][GdbNext]_gdbVars
GdbFairSpec == GdbSpec /\ WF_gdbVars(GdbProgress)

-----------------------------------------------------------------------------
GdbTypeOK ==
    /\ host.at \in {"start", "ack", "junk", "reply", "done", "failed"} /\ host.doing \in {"probe", "write", "continue"}
    /\ host.done \in 0 .. Len(Image) /\ host.timeouts \in 0 .. PutTries /\ host.tries \in 1 .. MAX_TRIES
    /\ faults \in 0 .. MaxFaults

(* No byte of the image ends up where another belongs, with escapes that   *)
(* cut packets short and with packets obeyed twice (remote.c:620).         *)
InPlace == \A a \in Addresses : memory[a] \in {Blank, Image[a]}

(* The program is started only over the whole image, whichever tokens were *)
(* lost or damaged as long as they are fewer than the tries of getpkt;     *)
(* main goes on after a write the stub refused.                            *)
RunsTheImage == stub.runs => host.docont /\ (~host.refused => memory = Image)

(* The stub runs what was sent.                                            *)
StubGetsImage == GdbTypeOK /\ InPlace /\ RunsTheImage

(* The loader ends, with a stub that never answers too, unless the board   *)
(* never stops sending characters: "This can loop forever if the remote    *)
(* side sends us characters continuously" (getpkt), and putpkt as well.    *)
SendEnds ==
    \/ (host.at # "start") ~> (host.at \in {"done", "failed"})
    \/ []<><<Talk>>_gdbVars
=============================================================================
