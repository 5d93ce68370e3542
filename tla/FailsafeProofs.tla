--------------------------- MODULE FailsafeProofs ---------------------------
(***************************************************************************)
(* The upgrade server with one client that uploads, for every number of    *)
(* clients, connections and requests, every size of file, and whatever is  *)
(* lost, repeated or given up on the way.                                  *)
(***************************************************************************)
EXTENDS Failsafe, FiniteSetTheorems, SequenceTheorems, TLAPS

(* One client at most uploads, and memory takes what the size check lets   *)
(* pass and the closing boundary behind it.                                *)
OneUpload == MaxPosts <= 1 /\ MaxFirmware < RamChunks /\ UbootSize < RamChunks /\ RamChunks >= 2

-----------------------------------------------------------------------------
(* The values of the variables.                                            *)
Connections ==
    [port : Ports \cup {None},
     tcp : {"CLOSED", "SYN_RCVD", "ESTABLISHED", "LAST_ACK", "FIN_WAIT_1", "FIN_WAIT_2", "TIME_WAIT", "CLOSING"},
     rcv : Nat, snd : Nat, len : {0, 1},
     state : {"NONE", "FILE_REQUEST", "UPLOAD_REQUEST"}, upload : Nat, total : Nat]

Shared ==
    [found : BOOLEAN, boundary : Ports \cup {None}, freed : BOOLEAN, heap : {"sound", "corrupt"},
     ptr : 0..RamChunks, type : Types, failed : BOOLEAN, postDone : BOOLEAN, ready : BOOLEAN, xfer : Nat]

Cells == [port : Ports \cup {None}, chunk : Nat]

Clients ==
    [st : {"idle", "syn", "gone", "closed"} \cup Talking,
     nxt : Nat \ {0}, sent : Nat, got : Nat, pend : BOOLEAN]

Answers == [kind : {"synack", "ack", "data", "fin", "rst"}, ack : Nat, unit : Nat]

ServerTypes ==
    /\ conn \in [Slots -> Connections] /\ web \in Shared /\ ram \in [1..RamChunks -> Cells]
    /\ req \in [Ports -> Requests]

ClientTypes ==
    /\ cl \in [Ports -> Clients]
    /\ wire \in [Ports -> Seq(Answers)] /\ \A p \in Ports : Len(wire[p]) <= MaxWire + 1
    /\ loop \in {"running", "aborted", "rebooted"}

-----------------------------------------------------------------------------
(* No two connections of one port, and only a page waits for its           *)
(* acknowledgement.                                                        *)
ConnectionsOK ==
    /\ \A s \in Slots : /\ conn[s].tcp # "CLOSED" => conn[s].port \in Ports
                        /\ conn[s].tcp = "ESTABLISHED" /\ conn[s].len > 0 => conn[s].state = "FILE_REQUEST"
    /\ \A s, t \in Slots : conn[s].tcp # "CLOSED" /\ conn[t].tcp # "CLOSED" /\ s # t =>
           conn[s].port # conn[t].port

OnePost == \A p, r \in Ports : req[p].kind = "POST" /\ req[r].kind = "POST" => p = r

(* An upload that goes on: the chunks it has stored are those of the       *)
(* segments accepted, the first one behind the request's header.           *)
Header(r) == IF r.joined THEN 0 ELSE 1

UploadOK(c, w, m) ==
    LET r == req[c.port] IN
    /\ c.port \in Ports /\ r.kind = "POST" /\ w.boundary = c.port
    /\ c.tcp = "ESTABLISHED" /\ c.rcv >= 1
    /\ ~w.postDone /\ ~w.ready
    /\ c.rcv = Header(r) => w.ptr = 0 /\ ~w.found /\ ~w.failed
    /\ w.found => /\ c.upload >= 1 /\ c.rcv = c.upload + Header(r) /\ c.total = r.chunks
                  /\ c.upload = 1 \/ c.upload < r.chunks
                  /\ w.type = r.type /\ (w.failed \/ SizeIsRight(r.type, r.chunks))
    /\ w.found /\ ~w.failed => /\ w.ptr = c.upload
                               /\ \A i \in 1..w.ptr : m[i] = [port |-> c.port, chunk |-> i]

Uploads == \A s \in Slots : conn[s].state = "UPLOAD_REQUEST" => UploadOK(conn[s], web, ram)

(* The request of the uploading client is seen once: when it was, no       *)
(* connection of it waits for one, nor will it open another.               *)
BeforePost(c) == c.tcp = "SYN_RCVD" \/ (c.tcp = "ESTABLISHED" /\ c.state = "NONE" /\ c.rcv = 0)

PostOnce ==
    /\ web.boundary # None =>
           /\ web.boundary \in Ports /\ req[web.boundary].kind = "POST"
           /\ cl[web.boundary].st \notin {"idle", "syn"}
           /\ \A s \in Slots : conn[s].port = web.boundary => ~BeforePost(conn[s])
    /\ web.boundary = None => ~web.postDone /\ ~web.ready /\ ~web.failed

(* When the upload is complete nothing changes it any more.                *)
Complete ==
    /\ web.postDone \/ web.ready => \A s \in Slots : conn[s].state # "UPLOAD_REQUEST"
    /\ web.postDone => ~web.ready
    /\ (web.postDone /\ ~web.failed) \/ web.ready => ImageComplete

ServerInv ==
    ServerTypes /\ ConnectionsOK /\ OnePost /\ Uploads /\ PostOnce /\ Complete /\ FlashIsComplete

FailsafeInv == ServerInv /\ ClientTypes

-----------------------------------------------------------------------------
(* What the segments of an upload carry.                                   *)
LEMMA SegmentIs ==
    ASSUME NEW r \in Request, NEW q \in 1..Len(Segments(r))
    PROVE  /\ Segments(r)[q].chunk \in Nat
           /\ Segments(r)[q].head = "POST" => r.kind = "POST" /\ q = 1
           /\ r.kind = "POST" /\ q = 1 => Segments(r)[q].chunk = 1 - Header(r)
           /\ r.kind = "POST" /\ q > 1 =>
                  LET u == q - Header(r)
                  IN  Segments(r)[q].chunk = IF u = 1 \/ u <= r.chunks THEN u ELSE 0
<1> DEFINE S == [head : {"GET", "POST", "BAD", "none"}, chunk : Nat]
           one == IF r.joined THEN <<Segment("POST", 1)>> ELSE <<Segment("POST", 0), Segment("none", 1)>>
           two == [i \in 1..(r.chunks - 1) |-> Segment("none", i + 1)]
           three == IF r.tail THEN <<Segment("none", 0)>> ELSE <<>>
           first == one \o two
           all == first \o three
<1>1. CASE r.kind # "POST"
    <2>1. Segments(r) = <<Segment(r.kind, 0)>>
        BY <1>1 DEF Segments
    <2>2. q = 1
        BY <2>1
    <2> QED
        BY <1>1, <2>1, <2>2 DEF Segment
<1>2. CASE r.kind = "POST"
    <2>1. Segments(r) = all
        BY <1>2 DEF Segments
    <2>2. r.chunks \in Nat /\ r.joined \in BOOLEAN /\ r.tail \in BOOLEAN
        BY DEF Request
    <2>3. /\ one \in Seq(S) /\ Len(one) = 1 + Header(r) /\ Header(r) \in {0, 1}
          /\ one[1] = Segment("POST", 1 - Header(r)) /\ (Header(r) = 1 => one[2] = Segment("none", 1))
        <3>1. Segment("POST", 0) \in S /\ Segment("POST", 1) \in S /\ Segment("none", 1) \in S
            BY DEF Segment
        <3> HIDE DEF S
        <3>2. CASE r.joined
            <4>1. one = <<Segment("POST", 1)>> /\ Header(r) = 0
                BY <3>2 DEF Header
            <4> HIDE DEF one
            <4> QED
                BY <3>1, <4>1
        <3>3. CASE ~r.joined
            <4>1. one = <<Segment("POST", 0), Segment("none", 1)>> /\ Header(r) = 1
                BY <3>3 DEF Header
            <4> HIDE DEF one
            <4> QED
                BY <3>1, <4>1
        <3> QED
            BY <3>2, <3>3
    <2>4. two \in Seq(S) /\ Len(two) = IF r.chunks = 0 THEN 0 ELSE r.chunks - 1
        <3>1. CASE r.chunks = 0
            <4>1. 1..(r.chunks - 1) = {}
                BY <3>1
            <4>2. two = <<>>
                BY <4>1
            <4> QED
                BY <3>1, <4>2
        <3>2. CASE r.chunks # 0
            <4>1. r.chunks - 1 \in Nat
                BY <2>2, <3>2
            <4>2. \A i \in 1..(r.chunks - 1) : Segment("none", i + 1) \in S
                BY <2>2, <4>1 DEF Segment
            <4> HIDE DEF S
            <4>3. two \in [1..(r.chunks - 1) -> S]
                BY <4>2
            <4> HIDE DEF two
            <4>4. two \in Seq(S) /\ Len(two) = r.chunks - 1
                BY <4>1, <4>3
            <4> QED
                BY <3>2, <4>4
        <3> QED
            BY <3>1, <3>2
    <2>5. \A i \in 1..Len(two) : two[i] = Segment("none", i + 1)
        <3>1. 1..Len(two) \subseteq 1..(r.chunks - 1)
            <4> HIDE DEF two
            <4> QED
                BY <2>2, <2>4
        <3> QED
            BY <3>1
    <2>6. three \in Seq(S) /\ Len(three) \in {0, 1} /\ (Len(three) = 1 => three[1] = Segment("none", 0))
        <3>1. Segment("none", 0) \in S
            BY DEF Segment
        <3> HIDE DEF S
        <3>2. CASE r.tail
            BY <3>1, <3>2
        <3>3. CASE ~r.tail
            BY <3>3
        <3> QED
            BY <3>2, <3>3
    <2> HIDE DEF one, two, three, S
    <2>7. /\ first \in Seq(S) /\ Len(first) = Len(one) + Len(two)
          /\ \A i \in 1..Len(first) : first[i] = IF i <= Len(one) THEN one[i] ELSE two[i - Len(one)]
        <3>1. one \in Seq(S) /\ two \in Seq(S)
            BY <2>3, <2>4
        <3>2. /\ one \o two \in Seq(S) /\ Len(one \o two) = Len(one) + Len(two)
              /\ \A i \in 1 .. Len(one) + Len(two) :
                     (one \o two)[i] = IF i <= Len(one) THEN one[i] ELSE two[i - Len(one)]
            BY <3>1, ConcatProperties
        <3> QED
            BY <3>2
    <2> HIDE DEF first
    <2>8. /\ Len(all) = Len(first) + Len(three)
          /\ \A i \in 1..Len(all) : all[i] = IF i <= Len(first) THEN first[i] ELSE three[i - Len(first)]
        <3>1. first \in Seq(S) /\ three \in Seq(S)
            BY <2>6, <2>7
        <3>2. /\ Len(first \o three) = Len(first) + Len(three)
              /\ \A i \in 1 .. Len(first) + Len(three) :
                     (first \o three)[i] = IF i <= Len(first) THEN first[i] ELSE three[i - Len(first)]
            BY <3>1, ConcatProperties
        <3> QED
            BY <3>2
    <2>9. q \in 1..Len(all) /\ Segments(r)[q] = all[q]
        BY <2>1
    <2> HIDE DEF all
    <2>10. CASE q = 1
        <3>1. all[q] = one[1]
            BY <2>3, <2>4, <2>7, <2>8, <2>9, <2>10
        <3> QED
            BY <1>2, <2>3, <2>9, <2>10, <3>1 DEF Segment
    <2>11. CASE q > 1
        <3> DEFINE u == q - Header(r)
        <3>1. all[q] = Segment("none", IF u = 1 \/ u <= r.chunks THEN u ELSE 0)
            <4>1. CASE q = 2 /\ Header(r) = 1
                <5>1. all[q] = one[2] /\ u = 1
                    BY <2>3, <2>4, <2>7, <2>8, <2>9, <4>1
                <5> QED
                    BY <2>3, <4>1, <5>1
            <4>2. CASE q > 1 + Header(r) /\ u <= r.chunks
                <5>1. u - 1 \in 1..Len(two) /\ q <= Len(first) /\ q > Len(one) /\ q - Len(one) = u - 1
                    BY <2>2, <2>3, <2>4, <2>7, <2>9, <4>2
                <5>2. q \in 1..Len(first)
                    BY <2>9, <5>1
                <5>3. all[q] = first[q]
                    BY <2>8, <2>9, <5>1
                <5>5. first[q] = two[q - Len(one)]
                    <6>1. ~(q <= Len(one))
                        BY <2>3, <2>9, <5>1
                    <6> QED
                        BY <2>7, <5>2, <6>1
                <5>4. two[u - 1] = Segment("none", (u - 1) + 1) /\ (u - 1) + 1 = u
                    BY <2>3, <2>5, <2>9, <5>1
                <5> QED
                    BY <4>2, <5>1, <5>3, <5>4, <5>5
            <4>3. CASE q > 1 + Header(r) /\ u > r.chunks
                <5>1. q > Len(first) /\ Len(first) \in Nat /\ u > 1
                    BY <2>2, <2>3, <2>4, <2>7, <2>9, <4>3
                <5>2. Len(three) = 1 /\ q - Len(first) = 1
                    BY <2>6, <2>8, <2>9, <5>1
                <5>3. all[q] = three[1]
                    BY <2>8, <2>9, <5>1, <5>2
                <5>4. ~(u = 1 \/ u <= r.chunks)
                    BY <2>2, <2>3, <2>9, <4>3, <5>1
                <5> QED
                    BY <2>6, <5>2, <5>3, <5>4
            <4> QED
                BY <2>2, <2>3, <2>9, <2>11, <4>1, <4>2, <4>3
        <3>2. u \in Nat
            BY <2>3, <2>9, <2>11
        <3> HIDE DEF u
        <3>3. all[q].head = "none" /\ all[q].chunk = IF u = 1 \/ u <= r.chunks THEN u ELSE 0
            BY <3>1 DEF Segment
        <3> QED
            BY <2>9, <2>11, <3>2, <3>3 DEF u
    <2> QED
        BY <2>9, <2>10, <2>11
<1> QED
    BY <1>1, <1>2

-----------------------------------------------------------------------------
(* What httpd.c does to the state the connections share.                   *)
LEMMA ResetIs ==
    ASSUME NEW w \in Shared
    PROVE  /\ Reset(w) \in Shared /\ Reset(w).found = FALSE /\ Reset(w).boundary = w.boundary
           /\ Reset(w).ptr = w.ptr /\ Reset(w).type = w.type /\ Reset(w).failed = w.failed
           /\ Reset(w).postDone = w.postDone /\ Reset(w).ready = w.ready /\ Reset(w).xfer = w.xfer
<1> DEFINE freed == w.boundary # None
           heap == IF w.freed THEN "corrupt" ELSE w.heap
<1>1. freed \in BOOLEAN /\ heap \in {"sound", "corrupt"}
    BY DEF Shared
<1>2. Reset(w) = [w EXCEPT !.found = FALSE, !.freed = freed, !.heap = heap]
    BY DEF Reset
<1> HIDE DEF freed, heap
<1> QED
    BY <1>1, <1>2 DEF Shared

LEMMA PageSentIs ==
    ASSUME NEW w \in Shared
    PROVE  /\ PageSent(w) \in Shared
           /\ ~w.postDone => PageSent(w) = w
           /\ w.postDone => /\ PageSent(w).postDone = FALSE /\ PageSent(w).failed = FALSE
                            /\ PageSent(w).ready = (w.ready \/ ~w.failed)
           /\ PageSent(w).boundary = w.boundary /\ PageSent(w).ptr = w.ptr
           /\ PageSent(w).type = w.type /\ PageSent(w).xfer = w.xfer
<1>1. CASE ~w.postDone
    BY <1>1 DEF PageSent
<1>2. CASE w.postDone
    <2> DEFINE ready == w.ready \/ ~w.failed
    <2>1. PageSent(w) = [w EXCEPT !.ready = ready, !.postDone = FALSE, !.failed = FALSE]
        BY <1>2 DEF PageSent
    <2>2. ready \in BOOLEAN
        OBVIOUS
    <2> HIDE DEF ready
    <2>3. /\ PageSent(w) \in Shared /\ PageSent(w).postDone = FALSE /\ PageSent(w).failed = FALSE
          /\ PageSent(w).ready = ready /\ PageSent(w).boundary = w.boundary /\ PageSent(w).ptr = w.ptr
          /\ PageSent(w).type = w.type /\ PageSent(w).xfer = w.xfer
        BY <2>1, <2>2 DEF Shared
    <2> QED
        BY <1>2, <2>3 DEF ready
<1> QED
    BY <1>1, <1>2

(* A client that has begun to talk does not begin again.                   *)
StartedStays == \A p \in Ports : cl'[p].st \in {"idle", "syn"} => cl[p].st \in {"idle", "syn"}

(* A step of one connection that stores nothing.                           *)
QuietWeb == web' \in {web, Reset(web), Reset(PageSent(web))}

LEMMA QuietWebIs ==
    ASSUME ServerInv, QuietWeb
    PROVE  /\ web' \in Shared /\ web'.boundary = web.boundary /\ web'.ptr = web.ptr
           /\ web'.type = web.type /\ web'.xfer = web.xfer
           /\ web'.found => web.found
           /\ ~web.postDone => web'.failed = web.failed /\ web'.postDone = web.postDone /\ web'.ready = web.ready
           /\ web'.postDone => web.postDone /\ web'.failed = web.failed /\ web'.ready = web.ready
           /\ web'.ready => web.ready \/ (web.postDone /\ ~web.failed)
<1>1. web \in Shared /\ PageSent(web) \in Shared
    BY PageSentIs DEF ServerInv, ServerTypes
<1>2. CASE web' = web
    BY <1>1, <1>2
<1>3. CASE web' = Reset(web)
    BY <1>1, <1>3, ResetIs
<1>4. CASE web' = Reset(PageSent(web))
    <2> DEFINE x == PageSent(web)
    <2>1. /\ x \in Shared /\ x.boundary = web.boundary /\ x.ptr = web.ptr /\ x.type = web.type /\ x.xfer = web.xfer
          /\ ~web.postDone => x = web
          /\ web.postDone => x.postDone = FALSE /\ x.failed = FALSE /\ x.ready = (web.ready \/ ~web.failed)
        BY <1>1, PageSentIs
    <2> HIDE DEF x
    <2>2. /\ web' \in Shared /\ web'.found = FALSE /\ web'.boundary = x.boundary
          /\ web'.ptr = x.ptr /\ web'.type = x.type /\ web'.failed = x.failed
          /\ web'.postDone = x.postDone /\ web'.ready = x.ready /\ web'.xfer = x.xfer
        BY <1>4, <2>1, ResetIs DEF x
    <2>3. web.postDone \in BOOLEAN /\ web.failed \in BOOLEAN /\ web.ready \in BOOLEAN
        BY <1>1 DEF Shared
    <2>4. CASE web.postDone
        BY <2>1, <2>2, <2>3, <2>4
    <2>5. CASE ~web.postDone
        BY <2>1, <2>2, <2>3, <2>5
    <2> QED
        BY <2>3, <2>4, <2>5
<1> QED
    BY <1>2, <1>3, <1>4 DEF QuietWeb

QuietSlot(c, old) ==
    /\ c.tcp = "CLOSED" \/ (old.tcp # "CLOSED" /\ c.port = old.port)
    /\ c.tcp = "ESTABLISHED" /\ c.len > 0 => c.state = "FILE_REQUEST"
    /\ c.state = "UPLOAD_REQUEST" => /\ old.state = "UPLOAD_REQUEST" /\ c.port = old.port /\ c.tcp = old.tcp
                                     /\ c.rcv = old.rcv /\ c.upload = old.upload /\ c.total = old.total
    /\ BeforePost(c) => BeforePost(old)

(* The upload that is ready stays complete.                                *)
LEMMA CompleteStays ==
    ASSUME ImageComplete, UNCHANGED <<req, ram>>, web'.type = web.type, web'.xfer = web.xfer
    PROVE  ImageComplete'
BY DEF ImageComplete, IsUpload

LEMMA UploadStays ==
    ASSUME ServerInv, QuietWeb, UNCHANGED <<req, ram>>, NEW c, NEW old, UploadOK(old, web, ram),
           c.port = old.port, c.tcp = old.tcp, c.rcv = old.rcv, c.upload = old.upload, c.total = old.total
    PROVE  UploadOK(c, web, ram)'
<1>1. ~web.postDone /\ ~web.ready
    BY DEF UploadOK
<1>2. /\ web'.boundary = web.boundary /\ web'.ptr = web.ptr /\ web'.type = web.type
      /\ web'.found => web.found
      /\ web'.failed = web.failed /\ web'.postDone = web.postDone /\ web'.ready = web.ready
    BY <1>1, QuietWebIs
<1> QED
    BY <1>1, <1>2 DEF UploadOK

LEMMA SlotStep ==
    ASSUME ServerInv, QuietWeb, UNCHANGED <<req, flash, ram>>, StartedStays,
           NEW s \in Slots, NEW c \in Connections, conn' = [conn EXCEPT ![s] = c], QuietSlot(c, conn[s])
    PROVE  ServerInv'
<1>1. conn \in [Slots -> Connections]
    BY DEF ServerInv, ServerTypes
<1>2. conn' \in [Slots -> Connections] /\ \A t \in Slots : conn'[t] = IF t = s THEN c ELSE conn[t]
    BY <1>1
<1>3. ServerTypes'
    BY <1>2, QuietWebIs DEF ServerInv, ServerTypes
<1>4. ConnectionsOK'
    BY <1>2 DEF ServerInv, ConnectionsOK, QuietSlot
<1>5. OnePost' /\ FlashIsComplete'
    BY DEF ServerInv, OnePost, FlashIsComplete, IsUpload
<1>6. Uploads'
    <2>1. ASSUME NEW t \in Slots, conn'[t].state = "UPLOAD_REQUEST"
          PROVE  UploadOK(conn[t], web, ram)'
        <3>1. /\ conn[t].state = "UPLOAD_REQUEST" /\ conn'[t].port = conn[t].port /\ conn'[t].tcp = conn[t].tcp
              /\ conn'[t].rcv = conn[t].rcv /\ conn'[t].upload = conn[t].upload /\ conn'[t].total = conn[t].total
            BY <1>2, <2>1 DEF QuietSlot
        <3>2. UploadOK(conn[t], web, ram)
            BY <3>1 DEF ServerInv, Uploads
        <3> QED
            BY <3>1, <3>2, UploadStays
    <2> QED
        BY <2>1 DEF Uploads
<1>7. PostOnce'
    <2>1. web.boundary # None => \A t \in Slots : conn'[t].port = web.boundary => ~BeforePost(conn'[t])
        BY <1>2 DEF ServerInv, PostOnce, QuietSlot, BeforePost
    <2> QED
        BY <2>1, QuietWebIs DEF ServerInv, PostOnce, StartedStays, BeforePost
<1>8. Complete'
    <2>1. (web'.postDone \/ web'.ready) => \A t \in Slots : conn'[t].state # "UPLOAD_REQUEST"
        BY <1>2, QuietWebIs DEF ServerInv, Complete, QuietSlot
    <2>2. web'.postDone => ~web'.ready
        BY QuietWebIs DEF ServerInv, Complete
    <2>3. (web'.postDone /\ ~web'.failed) \/ web'.ready => ImageComplete'
        BY QuietWebIs, CompleteStays DEF ServerInv, Complete
    <2> QED
        BY <2>1, <2>2, <2>3 DEF Complete
<1> QED
    BY <1>3, <1>4, <1>5, <1>6, <1>7, <1>8 DEF ServerInv

(* A step of the connection that uploads.                                  *)
LEMMA UploadStep ==
    ASSUME ServerInv, web' \in Shared, ram' \in [1..RamChunks -> Cells], UNCHANGED <<req, flash>>, StartedStays,
           NEW s \in Slots, NEW c \in Connections, conn' = [conn EXCEPT ![s] = c],
           conn[s].tcp = "ESTABLISHED", c.tcp = "ESTABLISHED", c.port = conn[s].port, c.state # "NONE",
           c.len > 0 => c.state = "FILE_REQUEST", req[c.port].kind = "POST", cl'[c.port].st \notin {"idle", "syn"},
           web'.boundary = c.port, ~web'.ready,
           c.state = "UPLOAD_REQUEST" => UploadOK(c, web, ram)' /\ ~web'.postDone,
           web'.postDone /\ ~web'.failed => ImageComplete'
    PROVE  ServerInv'
<1>1. conn \in [Slots -> Connections] /\ c.port \in Ports
    BY DEF ServerInv, ServerTypes, ConnectionsOK
<1>2. conn' \in [Slots -> Connections] /\ \A t \in Slots : conn'[t] = IF t = s THEN c ELSE conn[t]
    BY <1>1
<1>3. ServerTypes'
    BY <1>2 DEF ServerInv, ServerTypes
<1>4. ConnectionsOK'
    BY <1>2 DEF ServerInv, ConnectionsOK
<1>5. OnePost' /\ FlashIsComplete'
    BY DEF ServerInv, OnePost, FlashIsComplete, IsUpload
<1>6. \A t \in Slots : t # s /\ conn[t].port = c.port => conn[t].tcp = "CLOSED"
    BY DEF ServerInv, ConnectionsOK
<1>7. \A t \in Slots : t # s => conn[t].state # "UPLOAD_REQUEST"
    <2>1. ASSUME NEW t \in Slots, t # s, conn[t].state = "UPLOAD_REQUEST"
          PROVE  FALSE
        <3>1. conn[t].port \in Ports /\ req[conn[t].port].kind = "POST" /\ conn[t].tcp = "ESTABLISHED"
            BY <2>1 DEF ServerInv, Uploads, UploadOK
        <3>2. conn[t].port = c.port
            BY <1>1, <3>1 DEF ServerInv, OnePost
        <3> QED
            BY <1>6, <2>1, <3>1, <3>2
    <2> QED
        BY <2>1
<1>8. Uploads'
    BY <1>2, <1>7 DEF Uploads
<1>9. PostOnce'
    <2>1. web'.boundary = c.port /\ c.port # None
        BY <1>1, FailsafeAssumption
    <2>2. \A t \in Slots : conn'[t].port = c.port => ~BeforePost(conn'[t])
        BY <1>2, <1>6 DEF BeforePost
    <2>3. \A t \in Slots : conn'[t].port = c.port => ~BeforePost(conn[t])'
        BY <2>2 DEF BeforePost
    <2> QED
        BY <1>1, <2>1, <2>3 DEF PostOnce
<1>10. Complete'
    BY <1>2, <1>7 DEF Complete
<1> QED
    BY <1>3, <1>4, <1>5, <1>8, <1>9, <1>10 DEF ServerInv

-----------------------------------------------------------------------------
(* What uIP does to a connection, and what it sends.                       *)
WireStep(p) == wire' = wire \/ \E m \in Answers : wire' = [wire EXCEPT ![p] = Append(@, m)]

LEMMA AnswerDoes ==
    ASSUME NEW s, NEW c \in Connections, NEW kind \in {"synack", "ack", "data", "fin"}, Answer(s, c, kind)
    PROVE  conn' = [conn EXCEPT ![s] = c] /\ WireStep(c.port)
<1> DEFINE m == [kind |-> kind, ack |-> c.rcv, unit |-> IF kind = "ack" THEN 0 ELSE c.snd + 1]
<1>1. m \in Answers
    <2>1. c.rcv \in Nat /\ (IF kind = "ack" THEN 0 ELSE c.snd + 1) \in Nat
        BY DEF Connections
    <2> QED
        BY <2>1 DEF Answers
<1>2. conn' = [conn EXCEPT ![s] = c] /\ wire' = [wire EXCEPT ![c.port] = Append(@, m)]
    BY DEF Answer, Reply
<1> QED
    BY <1>1, <1>2 DEF WireStep

LEMMA NothingDoes ==
    ASSUME NEW s, NEW c \in Connections, NEW q, AnswerNothing(s, c, q)
    PROVE  conn' = [conn EXCEPT ![s] = [c EXCEPT !.len = 0]] /\ WireStep(c.port)
<1> DEFINE d == [c EXCEPT !.len = 0]
<1>1. d \in Connections /\ d.port = c.port
    BY DEF Connections
<1>2. \/ conn' = [conn EXCEPT ![s] = d] /\ wire' = wire
      \/ Answer(s, d, "ack")
    BY DEF AnswerNothing, Keep
<1> HIDE DEF d
<1>3. conn' = [conn EXCEPT ![s] = d] /\ WireStep(d.port)
    BY <1>1, <1>2, AnswerDoes DEF WireStep
<1> QED
    BY <1>1, <1>3 DEF d

LEMMA KeepDoes ==
    ASSUME NEW s, NEW c, NEW p, Keep(s, c)
    PROVE  conn' = [conn EXCEPT ![s] = c] /\ WireStep(p)
BY DEF Keep, WireStep

LEMMA RstDoes ==
    ASSUME NEW p, Reply(p, "rst", 0, 0)
    PROVE  WireStep(p)
<1>1. [kind |-> "rst", ack |-> 0, unit |-> 0] \in Answers
    BY DEF Answers
<1> QED
    BY <1>1 DEF Reply, WireStep

LEMMA ClosedIs == Closed \in Connections /\ Closed.tcp = "CLOSED" /\ Closed.state = "NONE"
BY DEF Closed, Connections

LEMMA TookSeen ==
    ASSUME NEW x \in Connections, NEW a \in Nat, NEW q \in Nat
    PROVE  LET c == Took(Seen(x, a), q)
           IN  /\ c \in Connections /\ c.port = x.port /\ c.tcp = x.tcp /\ c.len = x.len /\ c.state = x.state
               /\ c.upload = x.upload /\ c.total = x.total
               /\ c.rcv = IF q = 0 THEN x.rcv ELSE x.rcv + 1
<1> DEFINE y == Seen(x, a)
           c == Took(y, q)
<1>1. /\ y \in Connections /\ y.port = x.port /\ y.tcp = x.tcp /\ y.len = x.len /\ y.state = x.state
      /\ y.upload = x.upload /\ y.total = x.total /\ y.rcv = x.rcv
    BY DEF Seen, Acked, Connections
<1> HIDE DEF y
<1>2. x.rcv \in Nat /\ (IF q = 0 THEN y.rcv ELSE y.rcv + 1) \in Nat
    BY <1>1 DEF Connections
<1>3. /\ c \in Connections /\ c.port = y.port /\ c.tcp = y.tcp /\ c.len = y.len /\ c.state = y.state
      /\ c.upload = y.upload /\ c.total = y.total /\ c.rcv = IF q = 0 THEN y.rcv ELSE y.rcv + 1
    BY <1>1, <1>2 DEF Took, Connections
<1> HIDE DEF c
<1> QED
    BY <1>1, <1>3 DEF c, y

LEMMA NoRequestIs ==
    ASSUME NEW c \in Connections
    PROVE  /\ NoRequest(c) \in Connections /\ NoRequest(c).port = c.port /\ NoRequest(c).tcp = c.tcp
           /\ NoRequest(c).state = "NONE" /\ NoRequest(c).rcv = c.rcv
BY DEF NoRequest, Connections

LEMMA AbortStep ==
    ASSUME ServerInv, UNCHANGED <<req, flash>>, StartedStays, NEW s \in Slots, AppAbort(s)
    PROVE  ServerInv' /\ WireStep(conn[s].port)
<1>1. /\ web' = Reset(web) /\ ram' = ram /\ conn' = [conn EXCEPT ![s] = Closed]
      /\ WireStep(conn[s].port)
    BY RstDoes DEF AppAbort
<1>2. QuietWeb /\ QuietSlot(Closed, conn[s])
    BY <1>1, ClosedIs DEF QuietWeb, QuietSlot, BeforePost
<1> QED
    BY <1>1, <1>2, ClosedIs, SlotStep

(* Outside ESTABLISHED there is no request.                                *)
LEMMA OtherSlot ==
    ASSUME ServerInv, NEW s \in Slots, conn[s].tcp \notin {"CLOSED", "ESTABLISHED"}, NEW c \in Connections,
           c.port = conn[s].port, c.tcp \notin {"SYN_RCVD", "ESTABLISHED"}, c.state \in {conn[s].state, "NONE"}
    PROVE  QuietSlot(c, conn[s])
<1>1. conn[s].state # "UPLOAD_REQUEST"
    BY DEF ServerInv, Uploads, UploadOK
<1> QED
    BY <1>1 DEF QuietSlot, BeforePost

-----------------------------------------------------------------------------
(* The steps of an upload.                                                 *)
LEMMA FirstChunkIs ==
    ASSUME NEW w \in Shared, NEW p \in Ports, req[p] \in Request, w.ptr + 1 <= RamChunks
    PROVE  LET f == FirstChunk(w, p)
           IN  /\ f \in Shared /\ f.found = TRUE /\ f.ptr = w.ptr + 1 /\ f.type = req[p].type
               /\ f.failed = (w.failed \/ ~SizeIsRight(req[p].type, req[p].chunks))
               /\ f.boundary = w.boundary /\ f.postDone = w.postDone /\ f.ready = w.ready
<1> DEFINE failed == w.failed \/ ~SizeIsRight(req[p].type, req[p].chunks)
           ptr == w.ptr + 1
           type == req[p].type
           f == FirstChunk(w, p)
<1>1. f = [w EXCEPT !.found = TRUE, !.ptr = ptr, !.type = type, !.failed = failed]
    BY DEF FirstChunk
<1>2. w.ptr \in 0..RamChunks /\ RamChunks \in Nat
    BY FailsafeAssumption DEF Shared
<1>3. ptr \in 0..RamChunks
    BY <1>2
<1>4. type \in Types
    BY DEF Request
<1>5. failed \in BOOLEAN
    OBVIOUS
<1> HIDE DEF failed, ptr, type, f
<1>6. /\ f \in Shared /\ f.found = TRUE /\ f.ptr = ptr /\ f.type = type /\ f.failed = failed
      /\ f.boundary = w.boundary /\ f.postDone = w.postDone /\ f.ready = w.ready
    BY <1>1, <1>3, <1>4, <1>5 DEF Shared
<1> QED
    BY <1>6 DEF failed, ptr, type, f

LEMMA StoreIs ==
    ASSUME ram \in [1..RamChunks -> Cells], NEW p \in Ports, NEW k \in Nat, NEW w \in Shared, Store(p, k, w)
    PROVE  /\ ram' \in [1..RamChunks -> Cells]
           /\ \A i \in 1..RamChunks :
                  ram'[i] = IF i = w.ptr + 1 THEN [port |-> p, chunk |-> k] ELSE ram[i]
<1> DEFINE cell == [port |-> p, chunk |-> k]
           n == w.ptr + 1
<1>1. cell \in Cells
    BY DEF Cells
<1>2. ram' = [ram EXCEPT ![n] = cell]
    BY DEF Store
<1> HIDE DEF cell, n
<1>3. ram' \in [1..RamChunks -> Cells] /\ \A i \in 1..RamChunks : ram'[i] = IF i = n THEN cell ELSE ram[i]
    BY <1>1, <1>2
<1> QED
    BY <1>3 DEF cell, n

(* The request of an upload, with the first chunk or without it.           *)
LEMMA PostStep ==
    ASSUME ServerInv, OneUpload, UNCHANGED <<req, flash>>, StartedStays, NEW s \in Slots, NEW c \in Connections,
           conn[s].tcp = "ESTABLISHED", conn[s].state = "NONE", c.port = conn[s].port, c.tcp = "ESTABLISHED",
           c.rcv = conn[s].rcv + 1, cl'[c.port].st \notin {"idle", "syn"},
           NEW q, q = conn[s].rcv + 1, q \in 1..Length(c.port),
           NEW seg, seg = Segments(req[c.port])[q], seg.head = "POST", AppPost(s, c, seg)
    PROVE  ServerInv' /\ WireStep(c.port)
<1> DEFINE p == c.port
           r == req[p]
           w == [web EXCEPT !.boundary = p, !.freed = FALSE, !.ptr = 0, !.found = FALSE]
           u == [c EXCEPT !.state = "UPLOAD_REQUEST", !.total = ContentLength(r)]
<1>1. p \in Ports /\ r \in Request /\ conn[s].rcv \in Nat /\ web \in Shared /\ ram \in [1..RamChunks -> Cells]
    BY FailsafeAssumption DEF ServerInv, ServerTypes, ConnectionsOK, Connections
<1>2. r.kind = "POST" /\ q = 1 /\ seg.chunk = 1 - Header(r)
    BY <1>1, SegmentIs DEF Length
<1>3. c.rcv = 1 /\ BeforePost(conn[s])
    BY <1>1, <1>2 DEF BeforePost
<1>4. web.boundary = None /\ ~web.postDone /\ ~web.ready /\ ~web.failed
    BY <1>1, <1>2, <1>3 DEF ServerInv, PostOnce, OnePost
<1>5. /\ w \in Shared /\ w.boundary = p /\ w.ptr = 0 /\ w.found = FALSE
      /\ w.postDone = web.postDone /\ w.ready = web.ready /\ w.failed = web.failed
    <2>1. p \in Ports \cup {None} /\ 0 \in 0..RamChunks
        BY <1>1, FailsafeAssumption
    <2> HIDE DEF p
    <2> QED
        BY <1>1, <2>1 DEF Shared
<1>6. ContentLength(r) \in Nat /\ r.chunks \in Nat /\ Header(r) \in {0, 1}
    BY <1>1 DEF ContentLength, Request, Header
<1>7. u \in Connections /\ u.port = p /\ u.tcp = "ESTABLISHED" /\ u.rcv = 1 /\ u.state = "UPLOAD_REQUEST"
    <2>1. ContentLength(r) \in Nat
        BY <1>6
    <2> HIDE DEF r
    <2> QED
        BY <1>3, <2>1 DEF Connections
<1>8. AppPost(s, c, seg) <=> \/ /\ Finds(w, p, seg)
                              /\ web' = FirstChunk(w, p)
                              /\ Store(p, 1, w)
                              /\ AnswerNothing(s, [u EXCEPT !.upload = 1, !.total = r.chunks], 1)
                           \/ /\ ~Finds(w, p, seg)
                              /\ web' = w /\ UNCHANGED ram
                              /\ AnswerNothing(s, u, 1)
    BY DEF AppPost
<1> HIDE DEF w, u, r
<1>9. CASE Finds(w, p, seg)
    <2> DEFINE d == [u EXCEPT !.upload = 1, !.total = r.chunks]
        <2>1. web' = FirstChunk(w, p) /\ Store(p, 1, w) /\ AnswerNothing(s, d, 1)
        BY <1>8, <1>9
    <2>2. Header(r) = 0
        BY <1>2, <1>6, <1>9 DEF Finds
    <2>3. /\ d \in Connections /\ d.port = p /\ d.tcp = "ESTABLISHED" /\ d.rcv = 1
          /\ d.state = "UPLOAD_REQUEST" /\ d.upload = 1 /\ d.total = r.chunks
        BY <1>6, <1>7 DEF Connections
    <2> HIDE DEF d
    <2>4. PICK e \in Connections :
              /\ e.port = p /\ e.tcp = "ESTABLISHED" /\ e.rcv = 1
              /\ e.state = "UPLOAD_REQUEST" /\ e.upload = 1 /\ e.total = r.chunks /\ e.len = 0
              /\ conn' = [conn EXCEPT ![s] = e] /\ WireStep(p)
        <3> DEFINE x == [d EXCEPT !.len = 0]
        <3>1. /\ x \in Connections /\ x.port = p /\ x.tcp = "ESTABLISHED" /\ x.rcv = 1
              /\ x.state = "UPLOAD_REQUEST" /\ x.upload = 1 /\ x.total = r.chunks /\ x.len = 0
            BY <2>3 DEF Connections
        <3>2. conn' = [conn EXCEPT ![s] = x] /\ WireStep(d.port)
            BY <2>1, <2>3, NothingDoes
        <3> HIDE DEF x
        <3> QED
            BY <2>3, <3>1, <3>2
    <2>6. w.ptr + 1 = 1 /\ 1 <= RamChunks /\ RamChunks \in Nat
        BY <1>5, FailsafeAssumption DEF OneUpload
    <2>7. /\ web' \in Shared /\ web'.found = TRUE /\ web'.ptr = 1 /\ web'.type = r.type
          /\ web'.failed = (w.failed \/ ~SizeIsRight(r.type, r.chunks))
          /\ web'.boundary = p /\ web'.postDone = web.postDone /\ web'.ready = web.ready
        BY <1>1, <1>5, <2>1, <2>6, FirstChunkIs DEF r
    <2>8. ram' \in [1..RamChunks -> Cells] /\ ram'[1] = [port |-> p, chunk |-> 1]
        BY <1>1, <1>5, <2>1, <2>6, StoreIs
    <2>9. UploadOK(e, web, ram)'
        <3>1. \A i \in 1..web'.ptr : ram'[i] = [port |-> p, chunk |-> i]
            BY <2>7, <2>8
        <3>2. req' = req
            OBVIOUS
        <3>3. web'.failed \/ SizeIsRight(r.type, r.chunks)
            BY <2>7
        <3> QED
            BY <1>1, <1>2, <1>4, <2>2, <2>4, <2>7, <3>1, <3>2, <3>3 DEF UploadOK, r
    <2>10. /\ e.state # "NONE" /\ ~(e.len > 0) /\ req[e.port].kind = "POST" /\ cl'[e.port].st \notin {"idle", "syn"}
           /\ e.port = conn[s].port /\ web'.boundary = e.port /\ ~web'.ready /\ ~web'.postDone
        BY <1>2, <1>4, <2>4, <2>7 DEF r
    <2> QED
        BY <2>4, <2>7, <2>8, <2>9, <2>10, UploadStep
<1>10. CASE ~Finds(w, p, seg)
    <2>1. web' = w /\ ram' = ram /\ AnswerNothing(s, u, 1)
        BY <1>8, <1>10
    <2>2. Header(r) = 1
        BY <1>2, <1>5, <1>6, <1>10 DEF Finds
    <2>3. PICK e \in Connections :
              /\ e.port = p /\ e.tcp = "ESTABLISHED" /\ e.rcv = 1 /\ e.state = "UPLOAD_REQUEST" /\ e.len = 0
              /\ conn' = [conn EXCEPT ![s] = e] /\ WireStep(p)
        <3> DEFINE x == [u EXCEPT !.len = 0]
        <3>1. /\ x \in Connections /\ x.port = p /\ x.tcp = "ESTABLISHED" /\ x.rcv = 1
              /\ x.state = "UPLOAD_REQUEST" /\ x.len = 0
            BY <1>7 DEF Connections
        <3>2. conn' = [conn EXCEPT ![s] = x] /\ WireStep(u.port)
            BY <1>7, <2>1, NothingDoes
        <3> HIDE DEF x
        <3> QED
            BY <1>7, <3>1, <3>2
    <2>5. UploadOK(e, web, ram)'
        BY <1>1, <1>2, <1>4, <1>5, <2>1, <2>2, <2>3 DEF UploadOK, r
    <2>6. /\ e.state # "NONE" /\ ~(e.len > 0) /\ req[e.port].kind = "POST" /\ cl'[e.port].st \notin {"idle", "syn"}
          /\ e.port = conn[s].port /\ web'.boundary = e.port /\ ~web'.ready /\ ~web'.postDone
        BY <1>2, <1>4, <1>5, <2>1, <2>3 DEF r
    <2> QED
        BY <1>1, <1>5, <2>1, <2>3, <2>5, <2>6, UploadStep
<1> QED
    BY <1>8, <1>9, <1>10

(* The first chunk in a segment of its own.                                *)
LEMMA FirstDataStep ==
    ASSUME ServerInv, OneUpload, UNCHANGED <<req, flash>>, StartedStays, NEW s \in Slots, NEW c \in Connections,
           conn[s].tcp = "ESTABLISHED", conn[s].state = "UPLOAD_REQUEST", ~web.found,
           c.port = conn[s].port, c.tcp = "ESTABLISHED", c.state = conn[s].state,
           c.rcv = conn[s].rcv + 1, cl'[c.port].st \notin {"idle", "syn"},
           NEW q, q = conn[s].rcv + 1, q \in 1..Length(c.port),
           NEW seg, seg = Segments(req[c.port])[q], AppFirstData(s, c, seg)
    PROVE  ServerInv' /\ WireStep(c.port)
<1> DEFINE p == c.port
           r == req[p]
<1>1. /\ p \in Ports /\ r \in Request /\ conn[s].rcv \in Nat /\ web \in Shared
      /\ ram \in [1..RamChunks -> Cells]
    BY FailsafeAssumption DEF ServerInv, ServerTypes, ConnectionsOK, Connections
<1>2. UploadOK(conn[s], web, ram)
    BY DEF ServerInv, Uploads
<1>3. /\ r.kind = "POST" /\ web.boundary = p /\ conn[s].rcv >= 1 /\ ~web.postDone /\ ~web.ready
      /\ conn[s].rcv = Header(r) => web.ptr = 0 /\ ~web.failed
    BY <1>2 DEF UploadOK
<1>4. r.chunks \in Nat /\ Header(r) \in {0, 1} /\ r.type \in Types
    BY <1>1 DEF Request, Header
<1>5. seg.chunk = IF q - Header(r) = 1 \/ q - Header(r) <= r.chunks THEN q - Header(r) ELSE 0
    BY <1>1, <1>3, SegmentIs DEF Length
<1>6. \/ AppAbort(s)
      \/ /\ Finds(web, p, seg) /\ web' = FirstChunk(web, p) /\ Store(p, 1, web)
         /\ AnswerNothing(s, [c EXCEPT !.upload = 1, !.total = r.chunks], 1)
    BY DEF AppFirstData
<1> HIDE DEF r
<1>7. CASE AppAbort(s)
    BY <1>7, AbortStep
<1>8. CASE /\ Finds(web, p, seg) /\ web' = FirstChunk(web, p) /\ Store(p, 1, web)
           /\ AnswerNothing(s, [c EXCEPT !.upload = 1, !.total = r.chunks], 1)
    <2> DEFINE d == [c EXCEPT !.upload = 1, !.total = r.chunks]
    <2>1. web' = FirstChunk(web, p) /\ Store(p, 1, web) /\ AnswerNothing(s, d, 1)
        BY <1>8
    <2>2. conn[s].rcv = Header(r)
        <3>1. seg.chunk = 1
            BY <1>8 DEF Finds
        <3> QED
            BY <1>1, <1>4, <1>5, <3>1
    <2>3. web.ptr = 0 /\ ~web.failed
        BY <1>3, <2>2
    <2>4. /\ d \in Connections /\ d.port = p /\ d.tcp = "ESTABLISHED" /\ d.rcv = conn[s].rcv + 1
          /\ d.state = "UPLOAD_REQUEST" /\ d.upload = 1 /\ d.total = r.chunks
        BY <1>4 DEF Connections
    <2> HIDE DEF d
    <2>5. PICK e \in Connections :
              /\ e.port = p /\ e.tcp = "ESTABLISHED" /\ e.rcv = conn[s].rcv + 1
              /\ e.state = "UPLOAD_REQUEST" /\ e.upload = 1 /\ e.total = r.chunks /\ e.len = 0
              /\ conn' = [conn EXCEPT ![s] = e] /\ WireStep(p)
        <3> DEFINE x == [d EXCEPT !.len = 0]
        <3>1. /\ x \in Connections /\ x.port = p /\ x.tcp = "ESTABLISHED" /\ x.rcv = conn[s].rcv + 1
              /\ x.state = "UPLOAD_REQUEST" /\ x.upload = 1 /\ x.total = r.chunks /\ x.len = 0
            BY <2>4 DEF Connections
        <3>2. conn' = [conn EXCEPT ![s] = x] /\ WireStep(d.port)
            BY <2>1, <2>4, NothingDoes
        <3> HIDE DEF x
        <3> QED
            BY <2>4, <3>1, <3>2
    <2>6. web.ptr + 1 = 1 /\ 1 <= RamChunks /\ RamChunks \in Nat
        BY <2>3, FailsafeAssumption DEF OneUpload
    <2>7. /\ web' \in Shared /\ web'.found = TRUE /\ web'.ptr = 1 /\ web'.type = r.type
          /\ web'.failed = (web.failed \/ ~SizeIsRight(r.type, r.chunks))
          /\ web'.boundary = p /\ web'.postDone = web.postDone /\ web'.ready = web.ready
        BY <1>1, <1>3, <2>1, <2>6, FirstChunkIs DEF r
    <2>8. ram' \in [1..RamChunks -> Cells] /\ ram'[1] = [port |-> p, chunk |-> 1]
        BY <1>1, <2>1, <2>6, StoreIs
    <2>9. UploadOK(e, web, ram)'
        <3>1. \A i \in 1..web'.ptr : ram'[i] = [port |-> p, chunk |-> i]
            BY <2>7, <2>8
        <3>2. web'.failed \/ SizeIsRight(r.type, r.chunks)
            BY <2>7
        <3>3. e.rcv = 1 + Header(r) /\ e.rcv >= 1 /\ e.rcv # Header(r)
            BY <1>1, <1>4, <2>2, <2>5
        <3> QED
            BY <1>1, <1>3, <2>5, <2>7, <3>1, <3>2, <3>3 DEF UploadOK, r
    <2>10. /\ e.state # "NONE" /\ ~(e.len > 0) /\ req[e.port].kind = "POST" /\ cl'[e.port].st \notin {"idle", "syn"}
           /\ e.port = conn[s].port /\ web'.boundary = e.port /\ ~web'.ready /\ ~web'.postDone
        BY <1>3, <2>5, <2>7 DEF r
    <2> QED
        BY <2>5, <2>7, <2>8, <2>9, <2>10, UploadStep
<1> QED
    BY <1>6, <1>7, <1>8

(* The chunks that follow; with the last of them the upload is complete.   *)
LEMMA StoredIs ==
    ASSUME NEW w \in Shared, ~w.failed => w.ptr + 1 <= RamChunks
    PROVE  /\ Stored(w) \in Shared /\ Stored(w).found = w.found /\ Stored(w).boundary = w.boundary
           /\ Stored(w).ptr = (IF w.failed THEN w.ptr ELSE w.ptr + 1) /\ Stored(w).type = w.type
           /\ Stored(w).failed = w.failed /\ Stored(w).postDone = w.postDone
           /\ Stored(w).ready = w.ready /\ Stored(w).xfer = w.xfer
<1> DEFINE n == IF w.failed THEN w.ptr ELSE w.ptr + 1
<1>1. w.ptr \in 0..RamChunks /\ RamChunks \in Nat
    BY FailsafeAssumption DEF Shared
<1>2. n \in 0..RamChunks
    BY <1>1
<1>3. Stored(w) = [w EXCEPT !.ptr = n]
    BY DEF Stored
<1> HIDE DEF n
<1>4. /\ Stored(w) \in Shared /\ Stored(w).found = w.found /\ Stored(w).boundary = w.boundary
      /\ Stored(w).ptr = n /\ Stored(w).type = w.type
      /\ Stored(w).failed = w.failed /\ Stored(w).postDone = w.postDone
      /\ Stored(w).ready = w.ready /\ Stored(w).xfer = w.xfer
    BY <1>2, <1>3 DEF Shared
<1> QED
    BY <1>4 DEF n

LEMMA MoreDataStep ==
    ASSUME ServerInv, OneUpload, UNCHANGED <<req, flash>>, StartedStays, NEW s \in Slots, NEW c \in Connections,
           conn[s].tcp = "ESTABLISHED", conn[s].state = "UPLOAD_REQUEST", web.found,
           c.port = conn[s].port, c.tcp = "ESTABLISHED", c.state = conn[s].state,
           c.upload = conn[s].upload, c.total = conn[s].total,
           c.rcv = conn[s].rcv + 1, cl'[c.port].st \notin {"idle", "syn"},
           NEW q, q = conn[s].rcv + 1, q \in 1..Length(c.port),
           NEW seg, seg = Segments(req[c.port])[q], AppMoreData(s, c, seg)
    PROVE  ServerInv' /\ WireStep(c.port)
<1> DEFINE p == c.port
           r == req[p]
           n == c.upload + 1
<1>1. /\ p \in Ports /\ r \in Request /\ conn[s].rcv \in Nat /\ web \in Shared
      /\ ram \in [1..RamChunks -> Cells]
    BY FailsafeAssumption DEF ServerInv, ServerTypes, ConnectionsOK, Connections
<1>2. UploadOK(conn[s], web, ram)
    BY DEF ServerInv, Uploads
<1>3. /\ r.kind = "POST" /\ web.boundary = p /\ ~web.postDone /\ ~web.ready
      /\ c.upload >= 1 /\ conn[s].rcv = c.upload + Header(r) /\ c.total = r.chunks
      /\ c.upload = 1 \/ c.upload < r.chunks
      /\ web.type = r.type /\ (web.failed \/ SizeIsRight(r.type, r.chunks))
      /\ ~web.failed => /\ web.ptr = c.upload
                        /\ \A i \in 1..web.ptr : ram[i] = [port |-> p, chunk |-> i]
    BY <1>2 DEF UploadOK
<1>4. r.chunks \in Nat /\ Header(r) \in {0, 1} /\ r.type \in Types /\ c.upload \in Nat /\ n \in Nat
    BY <1>1 DEF Request, Header, Connections
<1>5. seg.chunk \in Nat /\ (n <= r.chunks => seg.chunk = n)
    <2>1. q > 1 /\ q - Header(r) = n
        BY <1>1, <1>3, <1>4
    <2>2. seg.chunk \in Nat
        BY <1>1, SegmentIs DEF Length
    <2>3. seg.chunk = IF q - Header(r) = 1 \/ q - Header(r) <= r.chunks THEN q - Header(r) ELSE 0
        BY <1>1, <1>3, <2>1, SegmentIs DEF Length
    <2> QED
        BY <2>1, <2>2, <2>3
<1>6. ~web.failed => n <= RamChunks
    <2>1. SizeIsRight(r.type, r.chunks) => r.chunks < RamChunks
        BY <1>4, FailsafeAssumption DEF SizeIsRight, OneUpload
    <2>2. RamChunks \in Nat /\ RamChunks >= 2
        BY FailsafeAssumption DEF OneUpload
    <2> QED
        BY <1>3, <1>4, <2>1, <2>2
<1>7. AppMoreData(s, c, seg) <=>
          /\ StoreMore(c, seg)
          /\ \/ /\ n < c.total /\ web' = Stored(web)
                /\ AnswerNothing(s, [c EXCEPT !.upload = n], 1)
             \/ /\ n >= c.total
                /\ web' = Reset([Stored(web) EXCEPT !.postDone = TRUE, !.xfer = c.total])
                /\ Answer(s, [c EXCEPT !.state = "FILE_REQUEST", !.upload = 1, !.total = 0, !.len = 1], "data")
    BY DEF AppMoreData
<1> HIDE DEF r, n
<1>8. /\ ram' \in [1..RamChunks -> Cells]
      /\ ~web.failed => \A i \in 1..n : i <= r.chunks => ram'[i] = [port |-> p, chunk |-> i]
    <2>1. CASE web.failed
        BY <1>1, <1>7, <2>1 DEF StoreMore
    <2>2. CASE ~web.failed
        <3>1. Store(p, seg.chunk, web)
            BY <1>7, <2>2 DEF StoreMore
        <3>2. web.ptr + 1 = n
            BY <1>3, <2>2 DEF n
        <3>3. /\ ram' \in [1..RamChunks -> Cells]
              /\ \A i \in 1..RamChunks :
                     ram'[i] = IF i = n THEN [port |-> p, chunk |-> seg.chunk] ELSE ram[i]
            BY <1>1, <1>5, <3>1, <3>2, StoreIs
        <3>4. ASSUME NEW i \in 1..n, i <= r.chunks
              PROVE  ram'[i] = [port |-> p, chunk |-> i]
            <4>1. i \in 1..RamChunks
                BY <1>4, <1>6, <2>2, FailsafeAssumption
            <4>2. CASE i = n
                BY <1>5, <3>3, <3>4, <4>1, <4>2
            <4>3. CASE i # n
                <5>1. i \in 1..web.ptr
                    BY <1>3, <1>4, <2>2, <3>2, <4>3
                <5> QED
                    BY <1>3, <2>2, <3>3, <4>1, <4>3, <5>1
            <4> QED
                BY <4>2, <4>3
        <3> QED
            BY <3>3, <3>4
    <2> QED
        BY <2>1, <2>2
<1>9. /\ Stored(web) \in Shared /\ Stored(web).found /\ Stored(web).boundary = p
      /\ Stored(web).type = r.type /\ Stored(web).failed = web.failed
      /\ Stored(web).postDone = web.postDone /\ Stored(web).ready = web.ready
      /\ ~web.failed => Stored(web).ptr = n
    <2>1. ~web.failed => web.ptr + 1 = n /\ web.ptr + 1 <= RamChunks
        BY <1>3, <1>6 DEF n
    <2> QED
        BY <1>1, <1>3, <2>1, StoredIs
<1>10. CASE /\ n < c.total /\ web' = Stored(web)
            /\ AnswerNothing(s, [c EXCEPT !.upload = n], 1)
    <2> DEFINE d == [c EXCEPT !.upload = n]
    <2>1. /\ d \in Connections /\ d.port = p /\ d.tcp = "ESTABLISHED" /\ d.rcv = conn[s].rcv + 1
          /\ d.state = "UPLOAD_REQUEST" /\ d.upload = n /\ d.total = r.chunks
        BY <1>3, <1>4 DEF Connections
    <2>2. AnswerNothing(s, d, 1)
        BY <1>10
    <2> HIDE DEF d
    <2>3. PICK e \in Connections :
              /\ e.port = p /\ e.tcp = "ESTABLISHED" /\ e.rcv = conn[s].rcv + 1
              /\ e.state = "UPLOAD_REQUEST" /\ e.upload = n /\ e.total = r.chunks /\ e.len = 0
              /\ conn' = [conn EXCEPT ![s] = e] /\ WireStep(p)
        <3> DEFINE x == [d EXCEPT !.len = 0]
        <3>1. /\ x \in Connections /\ x.port = p /\ x.tcp = "ESTABLISHED" /\ x.rcv = conn[s].rcv + 1
              /\ x.state = "UPLOAD_REQUEST" /\ x.upload = n /\ x.total = r.chunks /\ x.len = 0
            BY <2>1 DEF Connections
        <3>2. conn' = [conn EXCEPT ![s] = x] /\ WireStep(d.port)
            BY <2>1, <2>2, NothingDoes
        <3> HIDE DEF x
        <3> QED
            BY <2>1, <3>1, <3>2
    <2>4. /\ web' \in Shared /\ web'.found /\ web'.boundary = p /\ web'.type = r.type
          /\ web'.failed = web.failed /\ ~web'.postDone /\ ~web'.ready
          /\ ~web'.failed => web'.ptr = n
        BY <1>3, <1>9, <1>10
    <2>5. UploadOK(e, web, ram)'
        <3>1. /\ e.rcv = e.upload + Header(r) /\ e.rcv >= 1 /\ e.rcv # Header(r) /\ e.upload >= 1
              /\ e.upload < r.chunks
            BY <1>1, <1>3, <1>4, <1>10, <2>3 DEF n
        <3>2. ~web'.failed => \A i \in 1..web'.ptr : ram'[i] = [port |-> p, chunk |-> i]
            BY <1>3, <1>4, <1>8, <1>10, <2>4
        <3>3. web'.failed \/ SizeIsRight(r.type, r.chunks)
            BY <1>3, <2>4
        <3> QED
            BY <1>1, <1>3, <2>3, <2>4, <3>1, <3>2, <3>3 DEF UploadOK, r
    <2>6. /\ e.state # "NONE" /\ ~(e.len > 0) /\ req[e.port].kind = "POST" /\ cl'[e.port].st \notin {"idle", "syn"}
          /\ e.port = conn[s].port /\ web'.boundary = e.port
        BY <1>3, <2>3, <2>4 DEF r
    <2> QED
        BY <1>8, <2>3, <2>4, <2>5, <2>6, UploadStep
<1>11. CASE /\ n >= c.total
            /\ web' = Reset([Stored(web) EXCEPT !.postDone = TRUE, !.xfer = c.total])
            /\ Answer(s, [c EXCEPT !.state = "FILE_REQUEST", !.upload = 1, !.total = 0, !.len = 1], "data")
    <2> DEFINE d == [c EXCEPT !.state = "FILE_REQUEST", !.upload = 1, !.total = 0, !.len = 1]
               w == Stored(web)
               v == [w EXCEPT !.postDone = TRUE, !.xfer = c.total]
    <2>1. d \in Connections /\ d.port = p /\ d.tcp = "ESTABLISHED" /\ d.state = "FILE_REQUEST"
        BY DEF Connections
    <2>2. Answer(s, d, "data") /\ web' = Reset(v)
        BY <1>11
    <2> HIDE DEF d, w
    <2>3. conn' = [conn EXCEPT ![s] = d] /\ WireStep(d.port)
        BY <2>1, <2>2, AnswerDoes
    <2>4. /\ v \in Shared /\ v.boundary = p /\ v.type = r.type /\ v.failed = web.failed
          /\ v.postDone = TRUE /\ v.ready = web.ready /\ v.xfer = c.total
        BY <1>9 DEF w, Shared, Connections
    <2> HIDE DEF v
    <2>5. /\ web' \in Shared /\ web'.boundary = p /\ web'.type = r.type /\ web'.failed = web.failed
          /\ web'.postDone = TRUE /\ web'.ready = web.ready /\ web'.xfer = r.chunks
        BY <1>3, <2>2, <2>4, ResetIs
    <2>6. ASSUME ~web'.failed
          PROVE  ImageComplete'
        <3>1. SizeIsRight(r.type, r.chunks)
            BY <1>3, <2>5, <2>6
        <3>2. \A i \in 1..r.chunks : ram'[i] = [port |-> p, chunk |-> i]
            BY <1>3, <1>4, <1>8, <1>11, <2>5, <2>6
        <3>3. req'[p] = r
            BY DEF r
        <3> QED
            BY <1>1, <1>3, <2>5, <3>1, <3>2, <3>3 DEF ImageComplete, IsUpload
    <2>7. /\ d.state # "NONE" /\ req[d.port].kind = "POST" /\ cl'[d.port].st \notin {"idle", "syn"}
          /\ d.port = conn[s].port /\ web'.boundary = d.port /\ ~web'.ready
        BY <1>3, <2>1, <2>5 DEF r
    <2>8. ServerInv'
        BY <1>8, <2>1, <2>3, <2>5, <2>6, <2>7, UploadStep
    <2> QED
        BY <2>1, <2>3, <2>8
<1> QED
    BY <1>7, <1>10, <1>11

-----------------------------------------------------------------------------
(* uip_process, state by state.                                            *)
LEMMA EstablishedStep ==
    ASSUME ServerInv, OneUpload, UNCHANGED <<req, flash>>, StartedStays, NEW s \in Slots,
           NEW p \in Ports, p = conn[s].port, NEW q \in 0..Length(p), NEW a \in Nat, q \in {0, conn[s].rcv + 1},
           cl'[p].st \notin {"idle", "syn"}, Established(s, q, a)
    PROVE  ServerInv' /\ WireStep(p)
<1>1. /\ conn[s] \in Connections /\ req[p] \in Request /\ conn[s].rcv \in Nat
      /\ conn[s].tcp = "ESTABLISHED" /\ (conn[s].len > 0 => conn[s].state = "FILE_REQUEST")
    BY FailsafeAssumption DEF ServerInv, ServerTypes, ConnectionsOK, Connections, Established
<1>2. q \in Nat
    BY <1>1
<1>3. PICK c \in Connections :
          /\ c = Took(Seen(conn[s], a), q)
          /\ c.port = p /\ c.tcp = "ESTABLISHED" /\ c.len = conn[s].len /\ c.state = conn[s].state
          /\ c.upload = conn[s].upload /\ c.total = conn[s].total
          /\ c.rcv = IF q = 0 THEN conn[s].rcv ELSE conn[s].rcv + 1
    <2> DEFINE c == Took(Seen(conn[s], a), q)
    <2>1. /\ c \in Connections /\ c.port = conn[s].port /\ c.tcp = conn[s].tcp /\ c.len = conn[s].len
          /\ c.state = conn[s].state /\ c.upload = conn[s].upload /\ c.total = conn[s].total
          /\ c.rcv = IF q = 0 THEN conn[s].rcv ELSE conn[s].rcv + 1
        <3> DEFINE x == conn[s]
        <3>1. x \in Connections
            BY <1>1
        <3> HIDE DEF x
        <3>2. LET d == Took(Seen(x, a), q)
              IN  /\ d \in Connections /\ d.port = x.port /\ d.tcp = x.tcp /\ d.len = x.len /\ d.state = x.state
                  /\ d.upload = x.upload /\ d.total = x.total
                  /\ d.rcv = IF q = 0 THEN x.rcv ELSE x.rcv + 1
            BY <1>2, <3>1, TookSeen
        <3> QED
            BY <3>2 DEF x
    <2> HIDE DEF c
    <2>2. c = Took(Seen(conn[s], a), q)
        BY DEF c
    <2> QED
        BY <1>1, <2>1, <2>2
<1> DEFINE seg == Segments(req[p])[q]
<1>4. \/ q # 0 /\ c.state = "NONE" /\ AppRequest(s, c, seg)
      \/ AppAcked(s, c, q)
      \/ q # 0 /\ c.state # "NONE" /\ AppData(s, c, seg)
      \/ q = 0 /\ Keep(s, c) /\ UNCHANGED <<web, ram>>
    BY <1>3 DEF Established
<1>5. CASE q # 0 /\ c.state = "NONE" /\ AppRequest(s, c, seg)
    <2>1. q = conn[s].rcv + 1 /\ q \in 1..Length(p) /\ c.rcv = conn[s].rcv + 1
        BY <1>2, <1>3, <1>5
    <2>2. CASE AppGet(s, c)
        <3> DEFINE d == [c EXCEPT !.state = "FILE_REQUEST", !.upload = req[c.port].pages, !.len = 1]
        <3>1. req[c.port].pages \in Nat
            BY <1>1, <1>3 DEF Request
        <3>2. /\ d \in Connections /\ d.port = p /\ d.tcp = "ESTABLISHED" /\ d.state = "FILE_REQUEST"
            BY <1>3, <3>1 DEF Connections
        <3>3. Answer(s, d, "data") /\ UNCHANGED <<web, ram>>
            BY <2>2 DEF AppGet
        <3> HIDE DEF d
        <3>4. conn' = [conn EXCEPT ![s] = d] /\ WireStep(d.port)
            BY <3>2, <3>3, AnswerDoes
        <3>5. QuietWeb /\ QuietSlot(d, conn[s])
            BY <1>1, <3>2, <3>3 DEF QuietWeb, QuietSlot, BeforePost
        <3>6. ServerInv'
            BY <3>2, <3>3, <3>4, <3>5, SlotStep
        <3> QED
            BY <3>2, <3>4, <3>6
    <2>3. CASE seg.head = "POST" /\ AppPost(s, c, seg)
        BY <1>1, <1>3, <1>5, <2>1, <2>3, PostStep
    <2>4. CASE AppAbort(s)
        BY <2>4, AbortStep
    <2> QED
        BY <1>5, <2>2, <2>3, <2>4 DEF AppRequest
<1>6. CASE AppAcked(s, c, q)
    <2>1. CASE /\ UNCHANGED ram /\ web' = Reset(PageSent(web))
               /\ Answer(s, [NoRequest(c) EXCEPT !.len = 1, !.tcp = "FIN_WAIT_1"], "fin")
        <3> DEFINE x == NoRequest(c)
                   d == [x EXCEPT !.len = 1, !.tcp = "FIN_WAIT_1"]
        <3>1. Answer(s, d, "fin")
            BY <2>1
        <3>2. x \in Connections /\ x.port = p /\ x.state = "NONE"
            BY <1>3, NoRequestIs
        <3> HIDE DEF x
        <3>3. d \in Connections /\ d.port = p /\ d.state = "NONE" /\ d.tcp = "FIN_WAIT_1"
            BY <3>2 DEF Connections
        <3> HIDE DEF d
        <3>4. conn' = [conn EXCEPT ![s] = d] /\ WireStep(d.port)
            BY <3>1, <3>3, AnswerDoes
        <3>5. QuietWeb /\ QuietSlot(d, conn[s])
            BY <1>1, <2>1, <3>3 DEF QuietWeb, QuietSlot, BeforePost
        <3>6. ServerInv'
            BY <2>1, <3>3, <3>4, <3>5, SlotStep
        <3> QED
            BY <3>3, <3>4, <3>6
    <2>2. CASE /\ UNCHANGED <<web, ram>> /\ c.state = "FILE_REQUEST" /\ c.upload > 1
               /\ Answer(s, [c EXCEPT !.upload = @ - 1, !.len = 1], "data")
        <3> DEFINE d == [c EXCEPT !.upload = @ - 1, !.len = 1]
        <3>1. Answer(s, d, "data")
            BY <2>2
        <3>2. c.upload - 1 \in Nat
            BY <2>2 DEF Connections
        <3>3. d \in Connections /\ d.port = p /\ d.state = "FILE_REQUEST" /\ d.tcp = "ESTABLISHED"
            BY <1>3, <2>2, <3>2 DEF Connections
        <3> HIDE DEF d
        <3>4. conn' = [conn EXCEPT ![s] = d] /\ WireStep(d.port)
            BY <3>1, <3>3, AnswerDoes
        <3>5. QuietWeb /\ QuietSlot(d, conn[s])
            BY <1>1, <2>2, <3>3 DEF QuietWeb, QuietSlot, BeforePost
        <3>6. ServerInv'
            BY <2>2, <3>3, <3>4, <3>5, SlotStep
        <3> QED
            BY <3>3, <3>4, <3>6
    <2> QED
        BY <1>6, <2>1, <2>2 DEF AppAcked
<1>7. CASE q # 0 /\ c.state # "NONE" /\ AppData(s, c, seg)
    <2>1. q = conn[s].rcv + 1 /\ q \in 1..Length(p) /\ c.rcv = conn[s].rcv + 1
        BY <1>2, <1>3, <1>7
    <2>2. CASE c.state = "UPLOAD_REQUEST" /\ ~web.found /\ AppFirstData(s, c, seg)
        BY <1>1, <1>3, <2>1, <2>2, FirstDataStep
    <2>3. CASE c.state = "UPLOAD_REQUEST" /\ web.found /\ AppMoreData(s, c, seg)
        BY <1>1, <1>3, <2>1, <2>3, MoreDataStep
    <2>4. CASE c.state = "FILE_REQUEST" /\ UNCHANGED <<web, ram>> /\ AnswerNothing(s, c, 1)
        <3> DEFINE d == [c EXCEPT !.len = 0]
        <3>1. conn' = [conn EXCEPT ![s] = d] /\ WireStep(p)
            BY <1>3, <2>4, NothingDoes
        <3>2. d \in Connections /\ d.port = p /\ d.state = "FILE_REQUEST" /\ d.tcp = "ESTABLISHED"
            BY <1>3, <2>4 DEF Connections
        <3> HIDE DEF d
        <3>3. QuietWeb /\ QuietSlot(d, conn[s])
            BY <1>1, <2>4, <3>2 DEF QuietWeb, QuietSlot, BeforePost
        <3> QED
            BY <2>4, <3>1, <3>2, <3>3, SlotStep
    <2> QED
        BY <1>7, <2>2, <2>3, <2>4 DEF AppData
<1>8. CASE q = 0 /\ Keep(s, c) /\ UNCHANGED <<web, ram>>
    <2>1. conn' = [conn EXCEPT ![s] = c] /\ WireStep(p)
        BY <1>8, KeepDoes
    <2>2. QuietWeb /\ QuietSlot(c, conn[s])
        BY <1>1, <1>3, <1>8 DEF QuietWeb, QuietSlot, BeforePost
    <2> QED
        BY <1>3, <1>8, <2>1, <2>2, SlotStep
<1> QED
    BY <1>4, <1>5, <1>6, <1>7, <1>8

LEMMA SynRcvdStep ==
    ASSUME ServerInv, UNCHANGED <<req, flash>>, StartedStays, NEW s \in Slots,
           NEW p \in Ports, p = conn[s].port, NEW q \in Nat, NEW a \in Nat, SynRcvd(s, q, a)
    PROVE  ServerInv' /\ WireStep(p)
<1>1. conn[s] \in Connections /\ conn[s].tcp = "SYN_RCVD"
    BY DEF ServerInv, ServerTypes, SynRcvd
<1>2. conn[s].state # "UPLOAD_REQUEST"
    BY <1>1 DEF ServerInv, Uploads, UploadOK
<1>3. CASE /\ UNCHANGED ram /\ web' = Reset(web)
           /\ AnswerNothing(s, [NoRequest(Took(Seen(conn[s], a), q)) EXCEPT !.tcp = "ESTABLISHED"], q)
    <2> DEFINE y == Took(Seen(conn[s], a), q)
               x == NoRequest(y)
               c == [x EXCEPT !.tcp = "ESTABLISHED"]
               d == [c EXCEPT !.len = 0]
    <2>1. AnswerNothing(s, c, q)
        BY <1>3
    <2>2. y \in Connections /\ y.port = p
        BY <1>1, TookSeen
    <2> HIDE DEF y
    <2>3. x \in Connections /\ x.port = p /\ x.state = "NONE"
        BY <2>2, NoRequestIs
    <2> HIDE DEF x
    <2>4. c \in Connections /\ c.port = p /\ c.state = "NONE"
        BY <2>3 DEF Connections
    <2> HIDE DEF c
    <2>5. conn' = [conn EXCEPT ![s] = d] /\ WireStep(c.port)
        BY <2>1, <2>4, NothingDoes
    <2>6. d \in Connections /\ d.port = p /\ d.state = "NONE" /\ d.len = 0
        BY <2>4 DEF Connections
    <2> HIDE DEF d
    <2>7. QuietWeb /\ QuietSlot(d, conn[s])
        BY <1>1, <1>3, <2>6 DEF QuietWeb, QuietSlot, BeforePost
    <2>8. ServerInv'
        BY <1>3, <2>5, <2>6, <2>7, SlotStep
    <2> QED
        BY <2>4, <2>5, <2>8
<1>4. CASE UNCHANGED ram /\ Keep(s, conn[s]) /\ UNCHANGED web
    <2>1. conn' = [conn EXCEPT ![s] = conn[s]] /\ WireStep(p)
        BY <1>4, KeepDoes
    <2>2. QuietWeb /\ QuietSlot(conn[s], conn[s])
        BY <1>1, <1>2, <1>4 DEF QuietWeb, QuietSlot, BeforePost
    <2> QED
        BY <1>1, <1>4, <2>1, <2>2, SlotStep
<1> QED
    BY <1>3, <1>4 DEF SynRcvd

LEMMA EstablishedFinStep ==
    ASSUME ServerInv, UNCHANGED <<req, flash>>, StartedStays, NEW s \in Slots,
           NEW p \in Ports, p = conn[s].port, NEW q \in Nat, NEW a \in Nat, EstablishedFin(s, q, a)
    PROVE  ServerInv' /\ WireStep(p)
<1> DEFINE c == Seen(conn[s], a)
<1>1. /\ conn[s] \in Connections /\ conn[s].tcp = "ESTABLISHED" /\ UNCHANGED ram
      /\ (conn[s].len > 0 => conn[s].state = "FILE_REQUEST")
    BY DEF ServerInv, ServerTypes, ConnectionsOK, EstablishedFin
<1>2. /\ c \in Connections /\ c.port = p /\ c.tcp = conn[s].tcp /\ c.len = conn[s].len /\ c.state = conn[s].state
      /\ c.upload = conn[s].upload /\ c.total = conn[s].total /\ c.rcv = conn[s].rcv
    BY <1>1 DEF Seen, Acked, Connections
<1>3. \/ Keep(s, c) /\ UNCHANGED web
      \/ /\ web' = Reset(web)
         /\ Answer(s, [NoRequest(Took(c, q)) EXCEPT !.rcv = @ + 1, !.len = 1, !.tcp = "LAST_ACK"], "fin")
    BY DEF EstablishedFin
<1> HIDE DEF c
<1>4. CASE Keep(s, c) /\ UNCHANGED web
    <2>1. conn' = [conn EXCEPT ![s] = c] /\ WireStep(p)
        BY <1>4, KeepDoes
    <2>2. QuietWeb /\ QuietSlot(c, conn[s])
        BY <1>1, <1>2, <1>4 DEF QuietWeb, QuietSlot, BeforePost
    <2> QED
        BY <1>1, <1>2, <1>4, <2>1, <2>2, SlotStep
<1>5. CASE /\ web' = Reset(web)
           /\ Answer(s, [NoRequest(Took(c, q)) EXCEPT !.rcv = @ + 1, !.len = 1, !.tcp = "LAST_ACK"], "fin")
    <2> DEFINE y == Took(c, q)
               x == NoRequest(y)
               d == [x EXCEPT !.rcv = @ + 1, !.len = 1, !.tcp = "LAST_ACK"]
    <2>1. Answer(s, d, "fin")
        BY <1>5
    <2>2. y \in Connections /\ y.port = p
        BY <1>2 DEF Took, Connections
    <2> HIDE DEF y
    <2>3. x \in Connections /\ x.port = p /\ x.state = "NONE"
        BY <2>2, NoRequestIs
    <2> HIDE DEF x
    <2>4. d \in Connections /\ d.port = p /\ d.state = "NONE" /\ d.tcp = "LAST_ACK"
        <3>1. x.rcv + 1 \in Nat
            BY <2>3 DEF Connections
        <3> QED
            BY <2>3, <3>1 DEF Connections
    <2> HIDE DEF d
    <2>5. conn' = [conn EXCEPT ![s] = d] /\ WireStep(d.port)
        BY <2>1, <2>4, AnswerDoes
    <2>6. QuietWeb /\ QuietSlot(d, conn[s])
        BY <1>1, <1>5, <2>4 DEF QuietWeb, QuietSlot, BeforePost
    <2>7. ServerInv'
        BY <1>1, <2>4, <2>5, <2>6, SlotStep
    <2> QED
        BY <2>4, <2>5, <2>7
<1> QED
    BY <1>3, <1>4, <1>5

(* A quiet answer, or none.                                                *)
LEMMA QuietAnswer ==
    ASSUME ServerInv, QuietWeb, UNCHANGED <<req, flash, ram>>, StartedStays, NEW s \in Slots, NEW c \in Connections,
           QuietSlot(c, conn[s]), c.port = conn[s].port, Keep(s, c) \/ Answer(s, c, "ack")
    PROVE  ServerInv' /\ WireStep(conn[s].port)
<1>1. conn' = [conn EXCEPT ![s] = c] /\ WireStep(c.port)
    BY KeepDoes, AnswerDoes
<1>2. ServerInv'
    BY <1>1, SlotStep
<1> QED
    BY <1>1, <1>2

LEMMA ClosingStep ==
    ASSUME ServerInv, UNCHANGED <<req, flash>>, StartedStays, NEW s \in Slots, NEW q \in Nat, NEW a \in Nat,
           NEW fin \in BOOLEAN,
           LastAck(s, a) \/ FinWait1(s, q, a, fin) \/ FinWait2(s, q, fin) \/ TimeWait(s) \/ Closing(s, a)
    PROVE  ServerInv' /\ WireStep(conn[s].port)
<1>1. conn[s] \in Connections
    BY DEF ServerInv, ServerTypes
<1>2. conn[s].tcp \notin {"CLOSED", "ESTABLISHED", "SYN_RCVD"} /\ UNCHANGED ram
    BY DEF LastAck, FinWait1, FinWait2, TimeWait, Closing
<1>3. \A c \in Connections :
          c.port = conn[s].port /\ c.tcp \notin {"SYN_RCVD", "ESTABLISHED"} /\ c.state = conn[s].state
              => QuietSlot(c, conn[s])
    BY <1>2, OtherSlot
<1>4. CASE LastAck(s, a)
    <2>1. CASE Keep(s, Closed) /\ web' = Reset(web)
        <3>1. conn' = [conn EXCEPT ![s] = Closed] /\ WireStep(conn[s].port)
            BY <2>1, KeepDoes
        <3>2. QuietWeb /\ QuietSlot(Closed, conn[s])
            BY <2>1, ClosedIs DEF QuietWeb, QuietSlot, BeforePost
        <3> QED
            BY <1>2, <3>1, <3>2, ClosedIs, SlotStep
    <2>2. CASE Keep(s, conn[s]) /\ UNCHANGED web
        BY <1>1, <1>2, <1>3, <2>2, QuietAnswer DEF QuietWeb
    <2> QED
        BY <1>4, <2>1, <2>2 DEF LastAck
<1>5. CASE FinWait1(s, q, a, fin)
    <2> DEFINE c == Took(Seen(conn[s], a), q)
               acked == Acked(conn[s], a)
               tcp == IF acked THEN "TIME_WAIT" ELSE "CLOSING"
               len == IF acked THEN 0 ELSE c.len
               d == [c EXCEPT !.tcp = tcp, !.len = len, !.rcv = @ + 1]
               e == [c EXCEPT !.tcp = "FIN_WAIT_2", !.len = 0]
    <2>1. /\ c \in Connections /\ c.port = conn[s].port /\ c.tcp = conn[s].tcp /\ c.len = conn[s].len
          /\ c.state = conn[s].state
        BY <1>1, TookSeen
    <2>2. /\ QuietWeb
          /\ \/ Answer(s, d, "ack") \/ Keep(s, e) \/ Answer(s, c, "ack") \/ Keep(s, c)
        BY <1>5 DEF FinWait1, QuietWeb
    <2>3. conn[s].tcp = "FIN_WAIT_1"
        BY <1>5 DEF FinWait1
    <2> HIDE DEF c, acked
    <2>4. c.rcv + 1 \in Nat /\ len \in {0, 1} /\ tcp \in {"TIME_WAIT", "CLOSING"}
        BY <2>1 DEF Connections
    <2> HIDE DEF tcp, len
    <2>5. d \in Connections /\ d.port = c.port /\ d.state = c.state /\ d.tcp = tcp
        BY <2>1, <2>4 DEF Connections
    <2>6. e \in Connections /\ e.port = c.port /\ e.state = c.state /\ e.tcp = "FIN_WAIT_2"
        BY <2>1 DEF Connections
    <2> HIDE DEF d, e
    <2>7. QuietSlot(d, conn[s]) /\ QuietSlot(e, conn[s]) /\ QuietSlot(c, conn[s])
        BY <1>3, <2>1, <2>3, <2>4, <2>5, <2>6
    <2> QED
        BY <1>2, <2>1, <2>2, <2>5, <2>6, <2>7, QuietAnswer
<1>6. CASE FinWait2(s, q, fin)
    <2> DEFINE c == Took(conn[s], q)
               d == [c EXCEPT !.tcp = "TIME_WAIT", !.rcv = @ + 1]
    <2>1. /\ c \in Connections /\ c.port = conn[s].port /\ c.tcp = conn[s].tcp /\ c.state = conn[s].state
        <3>1. conn[s].rcv + 1 \in Nat
            BY <1>1 DEF Connections
        <3> QED
            BY <1>1, <3>1 DEF Took, Connections
    <2>2. /\ QuietWeb /\ conn[s].tcp = "FIN_WAIT_2"
          /\ \/ Answer(s, d, "ack") \/ Answer(s, c, "ack") \/ Keep(s, c)
        BY <1>6 DEF FinWait2, QuietWeb
    <2> HIDE DEF c
    <2>3. d \in Connections /\ d.port = c.port /\ d.state = c.state /\ d.tcp = "TIME_WAIT"
        <3>1. c.rcv + 1 \in Nat
            BY <2>1 DEF Connections
        <3> QED
            BY <2>1, <3>1 DEF Connections
    <2> HIDE DEF d
    <2>4. QuietSlot(d, conn[s]) /\ QuietSlot(c, conn[s])
        BY <1>3, <2>1, <2>2, <2>3
    <2> QED
        BY <1>2, <2>1, <2>2, <2>3, <2>4, QuietAnswer
<1>7. CASE TimeWait(s)
    BY <1>1, <1>2, <1>3, <1>7, QuietAnswer DEF TimeWait, QuietWeb
<1>8. CASE Closing(s, a)
    <2> DEFINE x == Seen(conn[s], a)
               tcp == IF Acked(conn[s], a) THEN "TIME_WAIT" ELSE x.tcp
               c == [x EXCEPT !.tcp = tcp]
    <2>1. x \in Connections /\ x.port = conn[s].port /\ x.tcp = "CLOSING" /\ x.state = conn[s].state
        BY <1>1, <1>8 DEF Seen, Acked, Connections, Closing
    <2>2. Keep(s, c) /\ QuietWeb
        BY <1>8 DEF Closing, QuietWeb
    <2> HIDE DEF x
    <2>3. tcp \in {"TIME_WAIT", "CLOSING"}
        BY <2>1
    <2> HIDE DEF tcp
    <2>4. c \in Connections /\ c.port = x.port /\ c.state = x.state /\ c.tcp = tcp
        BY <2>1, <2>3 DEF Connections
    <2> HIDE DEF c
    <2>5. QuietSlot(c, conn[s])
        BY <1>3, <2>1, <2>3, <2>4
    <2> QED
        BY <1>2, <2>1, <2>2, <2>4, <2>5, QuietAnswer
<1> QED
    BY <1>4, <1>5, <1>6, <1>7, <1>8

(* The server does nothing.                                                *)
LEMMA FlashSame ==
    ASSUME ServerInv, UNCHANGED <<flash, req>>
    PROVE  FlashIsComplete'
BY DEF ServerInv, FlashIsComplete, IsUpload

LEMMA ServerSame ==
    ASSUME ServerInv, StartedStays, UNCHANGED <<server, req>>, FlashIsComplete'
    PROVE  ServerInv'
<1>1. conn' = conn /\ web' = web /\ ram' = ram /\ req' = req
    BY DEF server
<1>2. ServerTypes' /\ ConnectionsOK' /\ OnePost'
    BY <1>1 DEF ServerInv, ServerTypes, ConnectionsOK, OnePost
<1>3. Uploads' /\ Complete'
    BY <1>1 DEF ServerInv, Uploads, UploadOK, Complete, ImageComplete, IsUpload
<1>4. PostOnce'
    BY <1>1 DEF ServerInv, PostOnce, BeforePost, StartedStays
<1> QED
    BY <1>2, <1>3, <1>4 DEF ServerInv

(* A segment that comes when its sender has begun to talk.                 *)
LEMMA InputStep ==
    ASSUME FailsafeInv, OneUpload, UNCHANGED <<req, flash>>, StartedStays, NEW p \in Ports,
           cl'[p].st \notin {"idle", "syn"}, NEW q \in 0..Length(p), NEW a \in Nat, NEW fin \in BOOLEAN,
           Input(p, q, a, fin)
    PROVE  ServerInv' /\ WireStep(p)
<1>1. ServerInv
    BY DEF FailsafeInv
<1>2. q \in Nat
    OBVIOUS
<1>3. CASE Reply(p, "rst", 0, 0) /\ UNCHANGED server
    BY <1>1, <1>3, FlashSame, ServerSame, RstDoes
<1>4. ASSUME NEW s \in Owner(p), OutOfSequence(s, q)
      PROVE  ServerInv' /\ WireStep(p)
    <2>1. s \in Slots /\ conn[s].port = p /\ conn[s].tcp # "CLOSED"
        BY DEF Owner
    <2>2. QuietSlot(conn[s], conn[s]) /\ QuietWeb /\ conn[s] \in Connections
        BY <1>1, <1>4, <2>1 DEF ServerInv, ServerTypes, ConnectionsOK, QuietSlot, QuietWeb, OutOfSequence
    <2> QED
        BY <1>1, <1>4, <2>1, <2>2, QuietAnswer DEF OutOfSequence
<1>5. ASSUME NEW s \in Owner(p), q \in {0, conn[s].rcv + 1},
             \/ SynRcvd(s, q, a)
             \/ Established(s, q, a)
             \/ EstablishedFin(s, q, a)
             \/ LastAck(s, a) \/ FinWait1(s, q, a, fin) \/ FinWait2(s, q, fin) \/ TimeWait(s) \/ Closing(s, a)
      PROVE  ServerInv' /\ WireStep(p)
    <2>1. s \in Slots /\ p = conn[s].port
        BY DEF Owner
    <2>2. CASE SynRcvd(s, q, a)
        BY <1>1, <1>2, <2>1, <2>2, SynRcvdStep
    <2>3. CASE Established(s, q, a)
        BY <1>1, <1>5, <2>1, <2>3, EstablishedStep
    <2>4. CASE EstablishedFin(s, q, a)
        BY <1>1, <1>2, <2>1, <2>4, EstablishedFinStep
    <2>5. CASE LastAck(s, a) \/ FinWait1(s, q, a, fin) \/ FinWait2(s, q, fin) \/ TimeWait(s) \/ Closing(s, a)
        BY <1>1, <1>2, <2>1, <2>5, ClosingStep
    <2> QED
        BY <1>5, <2>2, <2>3, <2>4, <2>5
<1> QED
    BY <1>3, <1>4, <1>5 DEF Input

(* A SYN, which takes a slot that no request is in.                        *)
LEMMA SynStep ==
    ASSUME FailsafeInv, UNCHANGED <<req, flash>>, StartedStays, NEW p \in Ports, cl[p].st \in {"idle", "syn"},
           InputSyn(p)
    PROVE  ServerInv' /\ WireStep(p)
<1>1. ServerInv /\ UNCHANGED <<web, ram>>
    BY DEF FailsafeInv, InputSyn
<1>2. CASE UNCHANGED <<conn, wire>>
    <2>1. FlashIsComplete' /\ UNCHANGED <<server, req>>
        BY <1>1, <1>2, FlashSame DEF server
    <2> QED
        BY <1>1, <1>2, <2>1, ServerSame DEF WireStep
<1>3. ASSUME Owner(p) = {}, NEW s \in FreeSlots,
             Answer(s, [conn[s] EXCEPT !.port = p, !.tcp = "SYN_RCVD", !.rcv = 0, !.snd = 0, !.len = 1], "synack")
      PROVE  ServerInv' /\ WireStep(p)
    <2> DEFINE d == [conn[s] EXCEPT !.port = p, !.tcp = "SYN_RCVD", !.rcv = 0, !.snd = 0, !.len = 1]
    <2>1. s \in Slots /\ conn[s].tcp \in {"CLOSED", "TIME_WAIT"}
        BY DEF FreeSlots
    <2>2. conn \in [Slots -> Connections] /\ conn[s] \in Connections
        BY <1>1, <2>1 DEF ServerInv, ServerTypes
    <2>3. conn[s].state # "UPLOAD_REQUEST"
        BY <1>1, <2>1 DEF ServerInv, Uploads, UploadOK
    <2>4. d \in Connections /\ d.port = p /\ d.tcp = "SYN_RCVD" /\ d.state # "UPLOAD_REQUEST"
        BY <2>2, <2>3 DEF Connections
    <2>5. Answer(s, d, "synack")
        BY <1>3
    <2> HIDE DEF d
    <2>6. conn' = [conn EXCEPT ![s] = d] /\ WireStep(p)
        BY <2>4, <2>5, AnswerDoes
    <2>7. conn' \in [Slots -> Connections] /\ \A t \in Slots : conn'[t] = IF t = s THEN d ELSE conn[t]
        BY <2>2, <2>4, <2>6
    <2>8. \A t \in Slots : conn[t].tcp # "CLOSED" => conn[t].port # p
        BY <1>3 DEF Owner
    <2>9. ServerTypes' /\ OnePost' /\ FlashIsComplete'
        BY <1>1, <2>7, FlashSame DEF ServerInv, ServerTypes, OnePost
    <2>10. ConnectionsOK'
        BY <1>1, <2>4, <2>7, <2>8 DEF ServerInv, ConnectionsOK
    <2>11. Uploads'
        BY <1>1, <2>4, <2>7 DEF ServerInv, Uploads, UploadOK
    <2>12. PostOnce'
        <3>1. web.boundary # None => web.boundary # p
            BY <1>1 DEF ServerInv, PostOnce
        <3>2. web.boundary # None => \A t \in Slots : conn'[t].port = web.boundary => ~BeforePost(conn'[t])
            BY <1>1, <2>4, <2>7, <3>1 DEF ServerInv, PostOnce
        <3>3. web.boundary # None => \A t \in Slots : conn'[t].port = web.boundary => ~BeforePost(conn[t])'
            BY <3>2 DEF BeforePost
        <3> QED
            BY <1>1, <3>3 DEF ServerInv, PostOnce, StartedStays
    <2>13. Complete'
        BY <1>1, <2>4, <2>7, CompleteStays DEF ServerInv, Complete
    <2> QED
        BY <2>6, <2>9, <2>10, <2>11, <2>12, <2>13 DEF ServerInv
<1> QED
    BY <1>2, <1>3 DEF InputSyn

(* A reset closes the connection of its port, of which there is one.       *)
LEMMA RstStep ==
    ASSUME ServerInv, UNCHANGED <<req, flash>>, StartedStays, NEW p \in Ports, InputRst(p)
    PROVE  ServerInv' /\ wire' = wire
<1>1. UNCHANGED <<ram, wire>>
    BY DEF InputRst
<1>2. CASE UNCHANGED <<conn, web>>
    BY <1>1, <1>2, FlashSame, ServerSame DEF server
<1>3. CASE /\ Owner(p) # {} /\ web' = Reset(web)
           /\ conn' = [s \in Slots |-> IF s \in Owner(p) THEN Closed ELSE conn[s]]
    <2>1. PICK s \in Slots : s \in Owner(p)
        BY <1>3 DEF Owner
    <2>2. Owner(p) = {s}
        BY <2>1 DEF ServerInv, ConnectionsOK, Owner
    <2>3. conn \in [Slots -> Connections]
        BY DEF ServerInv, ServerTypes
    <2>4. conn' = [conn EXCEPT ![s] = Closed]
        BY <1>3, <2>2, <2>3
    <2>5. QuietWeb /\ QuietSlot(Closed, conn[s])
        BY <1>3, ClosedIs DEF QuietWeb, QuietSlot, BeforePost
    <2> QED
        BY <1>1, <2>4, <2>5, ClosedIs, SlotStep
<1> QED
    BY <1>2, <1>3 DEF InputRst

-----------------------------------------------------------------------------
(* The clients.                                                            *)
LEMMA LengthIs ==
    ASSUME ServerTypes, NEW p \in Ports
    PROVE  Length(p) \in Nat
<1> DEFINE r == req[p]
           S == [head : {"GET", "POST", "BAD", "none"}, chunk : Nat]
           two == [i \in 1..(r.chunks - 1) |-> Segment("none", i + 1)]
<1>1. r \in Request /\ r.chunks \in Nat /\ r.kind \in {"GET", "POST", "BAD"}
    BY FailsafeAssumption DEF ServerTypes, Request
<1>2. \A k \in Nat, h \in {"GET", "POST", "BAD", "none"} : Segment(h, k) \in S
    BY DEF Segment
<1> HIDE DEF r, S
<1>3. two \in Seq(S)
    <2>1. CASE r.chunks = 0
        <3>1. 1..(r.chunks - 1) = {}
            BY <2>1
        <3>2. two = <<>>
            BY <3>1
        <3> HIDE DEF two
        <3> QED
            BY <3>2
    <2>2. CASE r.chunks # 0
        <3>1. r.chunks - 1 \in Nat /\ two \in [1..(r.chunks - 1) -> S]
            BY <1>1, <1>2, <2>2
        <3> HIDE DEF two
        <3> QED
            BY <3>1
    <2> QED
        BY <2>1, <2>2
<1> HIDE DEF two
<1>4. /\ Segment("POST", 1) \in S /\ Segment("POST", 0) \in S /\ Segment("none", 1) \in S
      /\ Segment("none", 0) \in S /\ Segment(r.kind, 0) \in S
    BY <1>1, <1>2
<1>5. Segments(r) = IF r.kind # "POST" THEN <<Segment(r.kind, 0)>>
                    ELSE (IF r.joined THEN <<Segment("POST", 1)>>
                          ELSE <<Segment("POST", 0), Segment("none", 1)>>)
                         \o two \o (IF r.tail THEN <<Segment("none", 0)>> ELSE <<>>)
    BY DEF Segments, two
<1>6. Segments(r) \in Seq(S)
    <2>1. (IF r.joined THEN <<Segment("POST", 1)>> ELSE <<Segment("POST", 0), Segment("none", 1)>>) \in Seq(S)
        BY <1>4
    <2>2. (IF r.tail THEN <<Segment("none", 0)>> ELSE <<>>) \in Seq(S)
        BY <1>4
    <2>3. \A x, y, z \in Seq(S) : x \o y \o z \in Seq(S)
        OBVIOUS
    <2>4. <<Segment(r.kind, 0)>> \in Seq(S)
        BY <1>4
    <2> QED
        BY <1>3, <1>5, <2>1, <2>2, <2>3, <2>4
<1> QED
    BY <1>6 DEF Length, r

LEMMA WireIs ==
    ASSUME ClientTypes, NEW p \in Ports, Len(wire[p]) <= MaxWire, WireStep(p)
    PROVE  wire' \in [Ports -> Seq(Answers)] /\ \A t \in Ports : Len(wire'[t]) <= MaxWire + 1
<1>1. wire \in [Ports -> Seq(Answers)] /\ \A t \in Ports : Len(wire[t]) <= MaxWire + 1
    BY DEF ClientTypes
<1>2. ASSUME NEW m \in Answers, wire' = [wire EXCEPT ![p] = Append(@, m)]
      PROVE  wire' \in [Ports -> Seq(Answers)] /\ \A t \in Ports : Len(wire'[t]) <= MaxWire + 1
    <2>1. Append(wire[p], m) \in Seq(Answers) /\ Len(Append(wire[p], m)) = Len(wire[p]) + 1 /\ Len(wire[p]) \in Nat
        BY <1>1
    <2>2. Len(Append(wire[p], m)) <= MaxWire + 1
        BY <2>1, FailsafeAssumption
    <2> QED
        BY <1>1, <1>2, <2>1, <2>2
<1> QED
    BY <1>1, <1>2 DEF WireStep

LEMMA TailIs ==
    ASSUME ClientTypes, NEW p \in Ports, wire[p] # <<>>, wire' = [wire EXCEPT ![p] = Tail(@)]
    PROVE  wire' \in [Ports -> Seq(Answers)] /\ \A t \in Ports : Len(wire'[t]) <= MaxWire + 1
<1>1. wire \in [Ports -> Seq(Answers)] /\ \A t \in Ports : Len(wire[t]) <= MaxWire + 1
    BY DEF ClientTypes
<1>2. Tail(wire[p]) \in Seq(Answers) /\ Len(Tail(wire[p])) = Len(wire[p]) - 1 /\ Len(wire[p]) \in Nat
    BY <1>1
<1>3. Len(Tail(wire[p])) <= MaxWire + 1
    BY <1>1, <1>2, FailsafeAssumption
<1> QED
    BY <1>1, <1>2, <1>3

LEMMA ClientIs ==
    ASSUME ClientTypes, NEW p \in Ports, NEW c \in Clients, Client(p, c),
           c.st \in {"idle", "syn"} => cl[p].st \in {"idle", "syn"}
    PROVE  cl' \in [Ports -> Clients] /\ StartedStays /\ cl'[p] = c
<1>1. cl \in [Ports -> Clients] /\ cl' = [cl EXCEPT ![p] = c]
    BY DEF ClientTypes, Client
<1> QED
    BY <1>1 DEF StartedStays

LEMMA SendsStep ==
    ASSUME FailsafeInv, OneUpload, NEW p \in Ports, NEW c \in Clients, Client(p, c), c.st \notin {"idle", "syn"},
           NEW q \in 0..Length(p), NEW fin \in BOOLEAN, Sends(p, q, fin)
    PROVE  FailsafeInv'
<1>1. ServerInv /\ ClientTypes
    BY DEF FailsafeInv
<1>2. cl' \in [Ports -> Clients] /\ StartedStays /\ cl'[p] = c
    BY <1>1, ClientIs
<1>3. cl[p].got \in Nat /\ Len(wire[p]) \in Nat
    BY <1>1 DEF ClientTypes, Clients
<1>4. UNCHANGED <<req, flash, loop>> /\ Len(wire[p]) <= MaxWire
    BY <1>3, FailsafeAssumption DEF Sends
<1>5. ServerInv' /\ WireStep(p)
    <2>1. CASE Input(p, q, cl[p].got, fin)
        BY <1>2, <1>3, <1>4, <2>1, InputStep
    <2>2. CASE UNCHANGED <<server, wire>>
        BY <1>1, <1>2, <1>4, <2>2, FlashSame, ServerSame DEF WireStep
    <2> QED
        BY <2>1, <2>2 DEF Sends
<1>6. wire' \in [Ports -> Seq(Answers)] /\ \A t \in Ports : Len(wire'[t]) <= MaxWire + 1
    BY <1>1, <1>4, <1>5, WireIs
<1> QED
    BY <1>1, <1>2, <1>4, <1>5, <1>6 DEF FailsafeInv, ClientTypes

LEMMA OpenStep ==
    ASSUME FailsafeInv, NEW p \in Ports, Open(p)
    PROVE  FailsafeInv'
<1> DEFINE c == [cl[p] EXCEPT !.st = "syn"]
<1>1. /\ ServerInv /\ ClientTypes /\ cl[p] \in Clients /\ cl[p].st \in {"idle", "syn"}
      /\ wire[p] = <<>> /\ InputSyn(p) /\ UNCHANGED <<loop, flash, req>> /\ Client(p, c)
    BY DEF FailsafeInv, ClientTypes, Open
<1>2. c \in Clients
    BY <1>1 DEF Clients
<1> HIDE DEF c
<1>3. cl' \in [Ports -> Clients] /\ StartedStays
    BY <1>1, <1>2, ClientIs
<1>4. ServerInv' /\ WireStep(p)
    BY <1>1, <1>3, SynStep
<1>5. Len(wire[p]) <= MaxWire
    BY <1>1, FailsafeAssumption
<1>6. wire' \in [Ports -> Seq(Answers)] /\ \A t \in Ports : Len(wire'[t]) <= MaxWire + 1
    BY <1>1, <1>4, <1>5, WireIs
<1> QED
    BY <1>1, <1>3, <1>4, <1>6 DEF FailsafeInv, ClientTypes

LEMMA TalkStep ==
    ASSUME FailsafeInv, OneUpload, NEW p \in Ports,
           SendSegment(p) \/ SendAck(p) \/ CloseToo(p) \/ HalfClose(p) \/ ResendFin(p)
    PROVE  FailsafeInv'
<1>1. cl[p] \in Clients /\ Length(p) \in Nat
    BY LengthIs DEF FailsafeInv, ServerInv, ClientTypes
<1> 0 \in 0..Length(p)
    BY <1>1
<1>2. CASE SendSegment(p)
    <2>1. PICK q \in cl[p].nxt..(cl[p].sent + 1) :
              /\ q <= Length(p)
              /\ Client(p, [cl[p] EXCEPT !.pend = FALSE, !.sent = IF q > @ THEN q ELSE @])
              /\ Sends(p, q, FALSE)
        BY <1>2 DEF SendSegment
    <2>2. cl[p].nxt \in Nat /\ cl[p].sent \in Nat /\ cl[p].st = "open"
        BY <1>1, <1>2 DEF Clients, SendSegment
    <2>3. q \in 0..Length(p) /\ (IF q > cl[p].sent THEN q ELSE cl[p].sent) \in Nat
        BY <1>1, <2>1, <2>2
    <2> DEFINE n == IF q > cl[p].sent THEN q ELSE cl[p].sent
               c == [cl[p] EXCEPT !.pend = FALSE, !.sent = n]
    <2>4. n \in Nat /\ Client(p, c)
        BY <2>1, <2>3
    <2> HIDE DEF n
    <2>5. c \in Clients /\ c.st = "open"
        BY <1>1, <2>2, <2>4 DEF Clients
    <2> HIDE DEF c
    <2> QED
        BY <2>1, <2>3, <2>4, <2>5, SendsStep
<1>3. CASE SendAck(p)
    <2> DEFINE st == IF cl[p].st = "last" THEN "closed" ELSE cl[p].st
               c == [cl[p] EXCEPT !.pend = FALSE, !.st = st]
    <2>1. cl[p].st \in Talking /\ Client(p, c) /\ Sends(p, 0, FALSE)
        BY <1>3 DEF SendAck
    <2>2. st \in {"gone", "closed"} \cup Talking
        BY <2>1
    <2> HIDE DEF st
    <2>3. c \in Clients /\ c.st \notin {"idle", "syn"}
        BY <1>1, <2>2 DEF Clients, Talking
    <2> HIDE DEF c
    <2> QED
        BY <1>1, <2>1, <2>3, SendsStep
<1>4. CASE CloseToo(p)
    <2> DEFINE c == [cl[p] EXCEPT !.st = "closed", !.pend = FALSE]
    <2>1. Client(p, c) /\ Sends(p, 0, TRUE)
        BY <1>4 DEF CloseToo
    <2>2. c \in Clients /\ c.st \notin {"idle", "syn"}
        BY <1>1 DEF Clients
    <2> HIDE DEF c
    <2> QED
        BY <1>1, <2>1, <2>2, SendsStep
<1>5. CASE HalfClose(p)
    <2> DEFINE c == [cl[p] EXCEPT !.st = "half", !.pend = FALSE]
               q == IF cl[p].nxt = Length(p) THEN Length(p) ELSE 0
    <2>1. Client(p, c) /\ Sends(p, q, TRUE)
        BY <1>5 DEF HalfClose
    <2>2. c \in Clients /\ c.st \notin {"idle", "syn"}
        BY <1>1 DEF Clients, Talking
    <2>3. q \in 0..Length(p)
        BY <1>1
    <2> HIDE DEF c, q
    <2> QED
        BY <1>1, <2>1, <2>2, <2>3, SendsStep
<1>6. CASE ResendFin(p)
    <2> DEFINE c == [cl[p] EXCEPT !.pend = FALSE]
    <2>1. Client(p, c) /\ Sends(p, 0, TRUE) /\ cl[p].st \in {"half", "closed"}
        BY <1>6 DEF ResendFin
    <2>2. c \in Clients /\ c.st \notin {"idle", "syn"}
        BY <1>1, <2>1 DEF Clients
    <2> HIDE DEF c
    <2> QED
        BY <1>1, <2>1, <2>2, SendsStep
<1> QED
    BY <1>2, <1>3, <1>4, <1>5, <1>6

LEMMA CancelStep ==
    ASSUME FailsafeInv, NEW p \in Ports, Cancel(p)
    PROVE  FailsafeInv'
<1> DEFINE c == [cl[p] EXCEPT !.st = "gone", !.pend = FALSE]
<1>1. /\ ServerInv /\ ClientTypes /\ cl[p] \in Clients /\ Client(p, c)
      /\ UNCHANGED <<loop, flash, req>> /\ (InputRst(p) \/ UNCHANGED <<server, wire>>)
    BY DEF FailsafeInv, ClientTypes, Cancel
<1>2. c \in Clients /\ c.st = "gone"
    BY <1>1 DEF Clients
<1> HIDE DEF c
<1>3. cl' \in [Ports -> Clients] /\ StartedStays
    BY <1>1, <1>2, ClientIs
<1>4. ServerInv' /\ wire' = wire
    BY <1>1, <1>3, RstStep, FlashSame, ServerSame
<1> QED
    BY <1>1, <1>3, <1>4 DEF FailsafeInv, ClientTypes

LEMMA HeardIs ==
    ASSUME NEW c \in Clients, NEW m \in Answers
    PROVE  Heard(c, m) \in Clients /\ (Heard(c, m).st \in {"idle", "syn"} => c.st \in {"idle", "syn"})
<1> DEFINE new == m.unit = c.got + 1
           nxt == IF m.ack + 1 > c.nxt THEN m.ack + 1 ELSE c.nxt
           got == IF new THEN c.got + 1 ELSE c.got
           pend == c.pend \/ m.unit # 0
           st == IF m.kind = "synack" /\ c.st = "syn" THEN "open"
                 ELSE IF m.kind = "fin" /\ new THEN (IF c.st = "open" THEN "closing" ELSE "last")
                 ELSE c.st
<1>1. Heard(c, m) = [c EXCEPT !.nxt = nxt, !.got = got, !.pend = pend, !.st = st]
    BY DEF Heard
<1>2. nxt \in Nat \ {0} /\ got \in Nat
    BY DEF Clients, Answers
<1>3. pend \in BOOLEAN
    BY DEF Clients
<1>4. st \in {"idle", "syn", "gone", "closed"} \cup Talking /\ (st \in {"idle", "syn"} => c.st \in {"idle", "syn"})
    <2>1. c.st \in {"idle", "syn", "gone", "closed"} \cup Talking
        BY DEF Clients
    <2> HIDE DEF new
    <2> QED
        BY <2>1 DEF Talking
<1> HIDE DEF nxt, got, pend, st
<1> QED
    BY <1>1, <1>2, <1>3, <1>4 DEF Clients

LEMMA HearStep ==
    ASSUME FailsafeInv, NEW p \in Ports, Receive(p) \/ LoseReply(p)
    PROVE  FailsafeInv'
<1>1. /\ ServerInv /\ ClientTypes /\ cl[p] \in Clients /\ wire[p] # <<>> /\ wire[p] \in Seq(Answers)
      /\ wire' = [wire EXCEPT ![p] = Tail(@)] /\ UNCHANGED <<server, loop, flash, req>>
    BY DEF FailsafeInv, ClientTypes, Receive, LoseReply
<1>2. Head(wire[p]) \in Answers
    BY <1>1
<1>3. cl' \in [Ports -> Clients] /\ StartedStays
    <2>1. CASE UNCHANGED cl
        BY <1>1, <2>1 DEF ClientTypes, StartedStays
    <2>2. CASE Client(p, [cl[p] EXCEPT !.st = "gone", !.pend = FALSE])
        <3> DEFINE c == [cl[p] EXCEPT !.st = "gone", !.pend = FALSE]
        <3>1. c \in Clients /\ c.st = "gone"
            BY <1>1 DEF Clients
        <3>2. Client(p, c)
            BY <2>2
        <3> HIDE DEF c
        <3> QED
            BY <1>1, <3>1, <3>2, ClientIs
    <2>3. CASE Client(p, Heard(cl[p], Head(wire[p])))
        BY <1>1, <1>2, <2>3, HeardIs, ClientIs
    <2> QED
        BY <2>1, <2>2, <2>3 DEF Receive, LoseReply
<1>4. ServerInv'
    BY <1>1, <1>3, FlashSame, ServerSame
<1> QED
    BY <1>1, <1>3, <1>4, TailIs DEF FailsafeInv, ClientTypes

-----------------------------------------------------------------------------
(* NetLoopHttpd.                                                           *)
LEMMA WrittenIs ==
    ASSUME ServerInv, web.ready, flash' = Written, req' = req
    PROVE  FlashIsComplete'
<1>1. web.xfer \in Nat /\ web.type \in Types
    BY DEF ServerInv, ServerTypes, Shared
<1>2. PICK p \in Ports : /\ IsUpload(p, web.type, web.xfer)
                         /\ \A i \in 1..web.xfer : ram[i] = [port |-> p, chunk |-> i]
    BY DEF ServerInv, Complete, ImageComplete
<1>3. WrittenSize = web.xfer
    BY <1>2 DEF WrittenSize, IsUpload, SizeIsRight
<1> DEFINE image == [i \in 1..web.xfer |-> ram[i]]
<1>4. flash'.type = web.type /\ flash'.image = image
    BY <1>3 DEF Written
<1>5. Len(image) = web.xfer /\ \A i \in 1..web.xfer : image[i] = ram[i]
    BY <1>1
<1> HIDE DEF image
<1>6. IsUpload(p, web.type, web.xfer) <=> IsUpload(p, flash.type, Len(flash.image))'
    BY <1>4, <1>5 DEF IsUpload
<1> QED
    BY <1>2, <1>4, <1>5, <1>6 DEF FlashIsComplete

LEMMA UpgradeStep ==
    ASSUME FailsafeInv, Upgrade
    PROVE  FailsafeInv'
<1>1. /\ ServerInv /\ ClientTypes /\ web.ready /\ UNCHANGED <<ram, req, cl, wire>>
      /\ conn \in [Slots -> Connections] /\ web \in Shared
    BY DEF FailsafeInv, ServerInv, ServerTypes, Upgrade
<1>2. FlashIsComplete'
    BY <1>1, WrittenIs DEF Upgrade
<1>3. StartedStays
    BY <1>1 DEF StartedStays
<1>4. CASE loop' = "rebooted" /\ UNCHANGED <<conn, web>>
    <2>1. ServerInv'
        BY <1>1, <1>2, <1>3, <1>4, ServerSame DEF server
    <2> QED
        BY <1>1, <1>4, <2>1 DEF FailsafeInv, ClientTypes
<1>5. CASE /\ UNCHANGED loop
           /\ web' = [web EXCEPT !.ready = FALSE, !.type = "FIRMWARE", !.xfer = 0]
           /\ conn' = [s \in Slots |-> [conn[s] EXCEPT !.tcp = "CLOSED"]]
    <2>1. /\ web' \in Shared /\ ~web'.ready /\ web'.postDone = web.postDone /\ web'.boundary = web.boundary
          /\ web'.failed = web.failed
        BY <1>1, <1>5 DEF Shared, Types
    <2>2. \A s \in Slots : /\ conn'[s] \in Connections /\ conn'[s].tcp = "CLOSED"
                            /\ conn'[s].state = conn[s].state /\ conn'[s].port = conn[s].port
        BY <1>1, <1>5 DEF Connections
    <2>3. conn' \in [Slots -> Connections]
        BY <1>5, <2>2
    <2>4. ~web.postDone /\ \A s \in Slots : conn[s].state # "UPLOAD_REQUEST"
        BY <1>1 DEF ServerInv, Complete
    <2>5. ServerTypes' /\ ConnectionsOK' /\ OnePost'
        BY <1>1, <2>1, <2>2, <2>3 DEF ServerInv, ServerTypes, ConnectionsOK, OnePost
    <2>6. Uploads' /\ Complete'
        BY <2>1, <2>2, <2>4 DEF Uploads, Complete
    <2>7. PostOnce'
        <3>1. web.boundary # None
            BY <1>1 DEF ServerInv, PostOnce
        <3> QED
            BY <1>1, <2>1, <2>2, <3>1 DEF ServerInv, PostOnce, BeforePost
    <2> QED
        BY <1>1, <1>2, <1>5, <2>5, <2>6, <2>7 DEF FailsafeInv, ServerInv, ClientTypes
<1> QED
    BY <1>4, <1>5 DEF Upgrade

LEMMA NextStep ==
    ASSUME FailsafeInv, OneUpload, [Next]_vars
    PROVE  FailsafeInv'
<1>1. ASSUME NEW p \in Ports, ClientStep(p)
      PROVE  FailsafeInv'
    BY <1>1, OpenStep, TalkStep, CancelStep, HearStep DEF ClientStep
<1>2. CASE UNCHANGED <<server, flash, req, cl, wire>> /\ loop' \in {loop, "aborted"}
    <2>1. ServerInv /\ StartedStays /\ FlashIsComplete'
        BY <1>2, FlashSame DEF FailsafeInv, StartedStays
    <2>2. ServerInv'
        BY <1>2, <2>1, ServerSame
    <2> QED
        BY <1>2, <2>2 DEF FailsafeInv, ClientTypes
<1>3. Interrupt \/ UNCHANGED vars => UNCHANGED <<server, flash, req, cl, wire>> /\ loop' \in {loop, "aborted"}
    BY DEF Interrupt, vars, server
<1> QED
    BY <1>1, <1>2, <1>3, UpgradeStep DEF Next

LEMMA InitIs ==
    ASSUME Init, OneUpload
    PROVE  FailsafeInv
<1>1. 0 \in 0..RamChunks /\ 0 \in Nat /\ MaxWire + 1 >= 0
    BY FailsafeAssumption
<1>2. ServerTypes
    <2>1. web \in Shared
        BY <1>1 DEF Init, Shared, Types
    <2>2. conn \in [Slots -> Connections]
        BY ClosedIs DEF Init
    <2>3. ram \in [1..RamChunks -> Cells]
        BY DEF Init, Cells
    <2> QED
        BY <2>1, <2>2, <2>3 DEF ServerTypes, Init
<1>3. ClientTypes
    <2>1. NewClient \in Clients
        BY DEF NewClient, Clients, Talking
    <2>2. cl \in [Ports -> Clients] /\ wire \in [Ports -> Seq(Answers)] /\ loop = "running"
        BY <2>1 DEF Init
    <2>3. \A p \in Ports : Len(wire[p]) <= MaxWire + 1
        BY <1>1 DEF Init
    <2> QED
        BY <2>2, <2>3 DEF ClientTypes
<1>4. OnePost
    <2> DEFINE A == {p \in Ports : req[p].kind = "POST"}
    <2>1. IsFiniteSet(A)
        <3>1. A \subseteq Ports
            OBVIOUS
        <3> HIDE DEF A
        <3> QED
            BY <3>1, FailsafeAssumption, FS_Subset
    <2>2. Cardinality(A) <= 1
        <3>1. Cardinality(A) <= MaxPosts
            BY DEF Init
        <3>2. Cardinality(A) \in Nat
            BY <2>1, FS_CardinalityType
        <3> HIDE DEF A
        <3> QED
            BY <3>1, <3>2, FailsafeAssumption DEF OneUpload
    <2>3. ASSUME NEW p \in A, NEW r \in A, p # r
          PROVE  FALSE
        <3> HIDE DEF A
        <3>1. IsFiniteSet({r}) /\ Cardinality({r}) = 1
            BY FS_Singleton
        <3>2. IsFiniteSet({r} \cup {p}) /\ Cardinality({r} \cup {p}) = 2
            BY <2>3, <3>1, FS_AddElement
        <3>3. Cardinality({r} \cup {p}) <= Cardinality(A)
            BY <2>1, FS_Subset
        <3>4. Cardinality(A) \in Nat
            BY <2>1, FS_CardinalityType
        <3> QED
            BY <2>2, <3>2, <3>3, <3>4
    <2> QED
        BY <2>3 DEF OnePost
<1>5. ConnectionsOK /\ Uploads /\ PostOnce /\ Complete /\ FlashIsComplete
    BY ClosedIs DEF Init, ConnectionsOK, Uploads, PostOnce, Complete, FlashIsComplete, Closed
<1> QED
    BY <1>2, <1>3, <1>4, <1>5 DEF FailsafeInv, ServerInv

-----------------------------------------------------------------------------
LEMMA AlwaysFailsafeInv ==
    ASSUME OneUpload
    PROVE  Spec => []FailsafeInv
<1>1. Init => FailsafeInv
    BY InitIs
<1>2. FailsafeInv /\ [Next]_vars => FailsafeInv'
    BY NextStep
<1> QED
    BY <1>1, <1>2, PTL DEF Spec

(* While an upload goes on, what httpd_appcall has stored is the file from *)
(* its beginning, in order and without a gap, whatever segments are lost,  *)
(* repeated or overtaken; no two connections serve one client port, and    *)
(* every variable has its type.                                            *)
THEOREM StoredAlways ==
    ASSUME OneUpload
    PROVE  Spec => []StoredInOrder
<1>1. FailsafeInv => StoredInOrder
    <2>1. ASSUME FailsafeInv
          PROVE  TypeOK
        BY <2>1 DEF FailsafeInv, ServerInv, ServerTypes, ClientTypes, ConnectionsOK, Connections, Shared, TypeOK
    <2> QED
        BY <2>1 DEF FailsafeInv, ServerInv, Uploads, UploadOK, ConnectionsOK, StoredInOrder
<1> QED
    BY <1>1, AlwaysFailsafeInv, PTL

(* What do_http_upgrade has written is the complete file of the upload, of *)
(* the kind it is written as.                                              *)
THEOREM FlashAlways ==
    ASSUME OneUpload
    PROVE  Spec => []FlashIsComplete
<1>1. FailsafeInv => FlashIsComplete
    BY DEF FailsafeInv, ServerInv
<1> QED
    BY <1>1, AlwaysFailsafeInv, PTL

(* The upgrade is announced to NetLoopHttpd only when memory holds the     *)
(* complete file, whichever connection's page announces it.                *)
THEOREM ReadyAlways ==
    ASSUME OneUpload
    PROVE  Spec => ReadyWhenComplete
<1>1. FailsafeInv' => [~web.ready /\ web'.ready => ImageComplete']_vars
    BY DEF FailsafeInv, ServerInv, Complete
<1> QED
    BY <1>1, AlwaysFailsafeInv, PTL DEF ReadyWhenComplete
=============================================================================
