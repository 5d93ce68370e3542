----------------------------- MODULE NfsClient -----------------------------
(***************************************************************************)
(* Loading a file by NFS (net/nfs.c, configured with CFG_CMD_NFS): the     *)
(* request for the server's Ethernet address, the ports, the mount, the    *)
(* file handle, the blocks, symbolic links on the way, and the unmount.    *)
(* Every call is sent once; one timer watches over all of them.  A reply   *)
(* may be late, which loses it, and may come again.  The server conforms.  *)
(***************************************************************************)
EXTENDS Integers, FiniteSets, Sequences

CONSTANTS
    Dirs,               \* directories of the server, each of them exported;
                        \* their paths are of one length
    Chars, Nul,         \* what names are made of, and the end of one
    Names,              \* file names, sequences of characters
    PathMax,            \* room for a name in nfs_path_buff
    Garbled,            \* what no directory and no file is called
    Asked,              \* the files commands name
    Content,            \* [Dirs -> [Names -> node]]: "none", "dir", file or link
    ReadSize,           \* NFS_READ_SIZE, in blocks
    MaxLoads,           \* bound on NfsStart
    MaxCalls            \* bound on the calls of a load

Nodes ==
    [kind : {"none", "dir"}] \cup [kind : {"file"}, blocks : Nat]
    \cup [kind : {"link"}, relative : BOOLEAN, dir : Dirs, file : Names]

ASSUME NfsAssumption ==
    /\ {ReadSize, MaxLoads, MaxCalls} \subseteq Nat \ {0}
    /\ IsFiniteSet(Dirs) /\ IsFiniteSet(Names) /\ Garbled \notin Names /\ PathMax \in Nat
    /\ \A n \in Names : n \in Seq(Chars) /\ Len(n) + 2 <= PathMax
    /\ Content \in [Dirs -> [Names -> Nodes]]
    /\ Asked \subseteq [dir : Dirs, file : Names]

VARIABLES
    nfs,                \* the variables of nfs.c, NetState and the timer; path: the buffer
                        \* from the name on; ether: NetServerEther is known; id: rpc_id
                        \* since the load began; grown: a link's name was changed
    nfsNet,             \* calls and replies under way
    nfsHeld,            \* NetArpWaitTxPacket: the call that waits for the address
    nfsMounts,          \* the server's list of what the present load mounted
    nfsImage,           \* the blocks stored from load_addr on
    nfsAsked            \* the file the command named, resolved by the server

nfsVars == <<nfs, nfsNet, nfsHeld, nfsMounts, nfsImage, nfsAsked>>

NoFile == [dir |-> Garbled, file |-> Garbled]
Node(h) == IF h.file \in Names /\ h.dir \in Dirs THEN Content[h.dir][h.file] ELSE [kind |-> "none"]
NfsRunning == nfs.net = "continue"

-----------------------------------------------------------------------------
(* NfsSend: the call of the present state, under the next rpc_id; calls to *)
(* a port nobody listens to are lost, and an unmount of nothing is not     *)
(* sent at all.                                                            *)
Call(n) ==
    CASE n.state \in {"PRCLOOKUP_PROG_MOUNT", "PRCLOOKUP_PROG_NFS"} -> [fh |-> NoFile, from |-> 0, port |-> TRUE]
      [] n.state = "UMOUNT" -> [fh |-> NoFile, from |-> 0, port |-> n.mountPort]
      [] n.state = "MOUNT" -> [fh |-> [dir |-> n.dir, file |-> Garbled], from |-> 0, port |-> n.mountPort]
      [] n.state = "LOOKUP" -> [fh |-> [dir |-> n.dirfh, file |-> n.file], from |-> 0, port |-> n.nfsPort]
      [] n.state = "READ" -> [fh |-> n.filefh, from |-> n.offset, port |-> n.nfsPort]
      [] n.state = "READLINK" -> [fh |-> n.filefh, from |-> 0, port |-> n.nfsPort]

Calls(n) == ~(n.state = "UMOUNT" /\ ~n.mounted)

rpc_id(n) == n.id + 1

(* Replies to earlier calls differ in nothing the board looks at, calls of *)
(* earlier loads in nothing but what they ask for.                         *)
OldReply == [to |-> "board", id |-> 0, status |-> "old", fh |-> NoFile, relative |-> FALSE, blocks |-> <<>>]
Aged(net, id) == {IF m.to = "board" /\ m.id # id THEN OldReply ELSE m : m \in net}

Earlier(net) == {IF m.to = "board" THEN OldReply ELSE [m EXCEPT !.id = 0, !.fh = NoFile, !.from = 0] : m \in net}

Sent(n) ==
    IF Call(n).port THEN {[to |-> "server", id |-> n.id, proc |-> n.state, fh |-> Call(n).fh, from |-> Call(n).from]}
    ELSE {}

(* NetSendUDPPacket: without the server's address the call takes the place *)
(* of the one that waits for it.                                           *)
SendFrom(n) ==
    IF ~Calls(n) THEN nfs' = n /\ UNCHANGED <<nfsNet, nfsHeld>>
    ELSE /\ n.id < MaxCalls
         /\ nfs' = [n EXCEPT !.id = rpc_id(n)]
         /\ nfsNet' = Aged(nfsNet, nfs'.id) \cup (IF n.ether THEN Sent(nfs') ELSE {})
         /\ nfsHeld' = IF n.ether THEN {} ELSE Sent(nfs')

-----------------------------------------------------------------------------
(* NfsHandler                                                              *)

(* A reply to a READ, good or bad, gives the load its time again.          *)
Kicked(n) == [n EXCEPT !.age = 0]

Good(m) == m.id = nfs.id /\ m.status = "OK"
Stored == UNCHANGED <<nfsMounts, nfsImage, nfsAsked>>
At(state) == NfsRunning /\ nfs.state = state

(* The result of rpc_lookup_reply is not looked at: a reply of an earlier  *)
(* call goes on without the port.                                          *)
MountPortReply(m) ==
    /\ At("PRCLOOKUP_PROG_MOUNT")
    /\ SendFrom([nfs EXCEPT !.mountPort = @ \/ Good(m), !.state = "PRCLOOKUP_PROG_NFS"])
    /\ Stored

NfsPortReply(m) ==
    /\ At("PRCLOOKUP_PROG_NFS")
    /\ SendFrom([nfs EXCEPT !.nfsPort = @ \/ Good(m), !.state = "MOUNT"])
    /\ Stored

MountReply(m) ==
    /\ At("MOUNT")
    /\ SendFrom(IF Good(m) THEN [nfs EXCEPT !.mounted = TRUE, !.dirfh = m.fh.dir, !.state = "LOOKUP"]
                ELSE [nfs EXCEPT !.state = "UMOUNT"])
    /\ Stored

LookupReply(m) ==
    /\ At("LOOKUP")
    /\ SendFrom(IF Good(m) THEN [nfs EXCEPT !.filefh = m.fh, !.state = "READ", !.offset = 0]
                ELSE [nfs EXCEPT !.state = "UMOUNT"])
    /\ Stored

(* nfs_readlink_reply: a relative link is written over the old name and    *)
(* ended one byte too late, so that the byte behind it stays, of the old   *)
(* name or of an earlier one (nfs.c:532).                                  *)
Overwritten(path, name, end) ==
    [i \in 1 .. PathMax |-> IF i <= Len(name) THEN name[i] ELSE IF i = end THEN Nul ELSE path[i]]

NewPath(m) == Overwritten(nfs.path, m.fh.file, IF m.relative THEN Len(m.fh.file) + 2 ELSE Len(m.fh.file) + 1)

NewName(m) ==
    LET behind == NewPath(m)[Len(m.fh.file) + 1] IN
    IF behind = Nul THEN m.fh.file ELSE Append(m.fh.file, behind)

ReadlinkReply(m) ==
    /\ At("READLINK")
    /\ SendFrom(IF Good(m) THEN [nfs EXCEPT !.state = "MOUNT", !.file = NewName(m), !.path = NewPath(m),
                                            !.dir = IF m.relative THEN @ ELSE m.fh.dir,
                                            !.grown = @ \/ NewName(m) # m.fh.file]
                ELSE [nfs EXCEPT !.state = "UMOUNT"])
    /\ Stored

(* store_block at nfs_offset; the size grows, and what was behind it stays.*)
StoreBlock(img, from, blocks) ==
    [i \in 1 .. (IF from + Len(blocks) > Len(img) THEN from + Len(blocks) ELSE Len(img)) |->
        IF i > from /\ i <= from + Len(blocks) THEN blocks[i - from] ELSE img[i]]

(* Nothing read: the end of the file; only the unmount is left.            *)
ReadSucceeded(n) == [n EXCEPT !.state = "UMOUNT", !.download = "success"]

ReadReply(m) ==
    /\ At("READ")
    /\ LET n == Kicked(nfs) IN
       IF Good(m) /\ m.blocks # <<>>
       THEN /\ nfsImage' = StoreBlock(nfsImage, nfs.offset, m.blocks)
            /\ SendFrom([n EXCEPT !.offset = @ + Len(m.blocks)])
       ELSE /\ SendFrom(CASE Good(m) -> ReadSucceeded(n)
                          [] m.id = nfs.id /\ m.status = "ISDIR or INVAL" -> [n EXCEPT !.state = "READLINK"]
                          [] OTHER -> [n EXCEPT !.state = "UMOUNT"])
            /\ UNCHANGED nfsImage
    /\ UNCHANGED <<nfsMounts, nfsAsked>>

UmountReply(m) ==
    /\ At("UMOUNT")
    /\ nfs' = IF Good(m) THEN [nfs EXCEPT !.mounted = FALSE, !.dirfh = Garbled, !.net = nfs.download]
              ELSE [nfs EXCEPT !.net = "fail"]
    /\ UNCHANGED <<nfsNet, nfsHeld>>
    /\ Stored

NfsHandler ==
    \E m \in nfsNet :
        /\ m.to = "board"
        /\ \/ MountPortReply(m) \/ NfsPortReply(m) \/ MountReply(m) \/ LookupReply(m)
           \/ ReadlinkReply(m) \/ ReadReply(m) \/ UmountReply(m)

(* Time is counted in periods of NFS_TIMEOUT since the timer was set.      *)
Tick ==
    /\ NfsRunning /\ nfs.age = 0
    /\ nfs' = [nfs EXCEPT !.age = 1]
    /\ UNCHANGED <<nfsNet, nfsHeld, nfsMounts, nfsImage, nfsAsked>>

Expired == nfs.age = 1

NfsTimeout ==
    /\ NfsRunning /\ Expired
    /\ nfs' = [nfs EXCEPT !.net = "fail"]
    /\ UNCHANGED <<nfsNet, nfsHeld, nfsMounts, nfsImage, nfsAsked>>

-----------------------------------------------------------------------------
(* The request for the server's address: the answer lets the call out that *)
(* waits; without one NetStartAgain restarts the load or, by "netretry",   *)
(* fails it, mostly before NFS_TIMEOUT (20 seconds against 60).            *)
AddressAnswer ==
    /\ NfsRunning /\ ~nfs.ether
    /\ nfs' = [nfs EXCEPT !.ether = TRUE]
    /\ nfsNet' = nfsNet \cup nfsHeld /\ nfsHeld' = {}
    /\ UNCHANGED <<nfsMounts, nfsImage, nfsAsked>>

AddressGivesUp ==
    /\ NfsRunning /\ ~nfs.ether
    /\ \E net \in {"restart", "fail"} : nfs' = [nfs EXCEPT !.net = net]
    /\ UNCHANGED <<nfsNet, nfsHeld, nfsMounts, nfsImage, nfsAsked>>

-----------------------------------------------------------------------------
(* The file a path stands for, after at most k links.                      *)
Resolved[k \in 0 .. Cardinality(Names) * Cardinality(Dirs)] ==
    [h \in [dir : Dirs, file : Names] |->
        LET t == Content[h.dir][h.file] IN
        IF t.kind # "link" THEN h
        ELSE IF k = 0 THEN NoFile
        ELSE Resolved[k - 1][[dir |-> IF t.relative THEN h.dir ELSE t.dir, file |-> t.file]]]

(* NfsStart; the ports and fs_mounted keep their values. The rest is set   *)
(* again before it is used.                                                *)
Begun(n) ==
    LET first == [n EXCEPT !.net = "continue", !.download = "fail", !.state = "PRCLOOKUP_PROG_MOUNT", !.age = 0,
                           !.id = 1, !.ether = FALSE, !.grown = FALSE, !.dirfh = Garbled, !.filefh = NoFile, !.offset = 0]
    IN  nfs' = first /\ nfsNet' = Earlier(nfsNet) /\ nfsHeld' = Sent(first)

NfsStart(d, f) ==
    /\ nfs.net \notin {"continue", "restart"} /\ nfs.loads < MaxLoads
    /\ Begun([nfs EXCEPT !.loads = @ + 1, !.dir = d, !.file = f, !.path = Overwritten(@, f, Len(f) + 1)])
    /\ nfsImage' = <<>>
    /\ nfsAsked' = Resolved[Cardinality(Names) * Cardinality(Dirs)][[dir |-> d, file |-> f]]
    /\ nfsMounts' = {}

(* What was called before the address was known never left.                *)
RestartLoad ==
    /\ nfs.net = "restart"
    /\ Begun(nfs)
    /\ UNCHANGED <<nfsMounts, nfsImage, nfsAsked>>

(* The server.  A READ returns between one block and what was asked for.   *)
BlocksFrom(h, from, k) == [i \in 1 .. k |-> <<h, from + i>>]

Least(a, b) == IF a < b THEN a ELSE b

Reply(c, status, fh, relative, blocks) ==
    [to |-> "board", id |-> c.id, status |-> status, fh |-> fh, relative |-> relative, blocks |-> blocks]

ServerReplies(c) ==
    LET node == Node(c.fh)
        left == IF node.kind = "file" THEN node.blocks - c.from ELSE 0
    IN  CASE c.proc \in {"PRCLOOKUP_PROG_MOUNT", "PRCLOOKUP_PROG_NFS", "UMOUNT", "MOUNT"} ->
                {Reply(c, "OK", c.fh, FALSE, <<>>)}
          [] c.proc = "LOOKUP" -> {Reply(c, IF node.kind = "none" THEN "NOENT" ELSE "OK", c.fh, FALSE, <<>>)}
          [] c.proc = "READLINK" ->
                IF node.kind = "link" THEN {Reply(c, "OK", [dir |-> node.dir, file |-> node.file], node.relative, <<>>)}
                ELSE {Reply(c, "INVAL", c.fh, FALSE, <<>>)}
          [] c.proc = "READ" /\ node.kind # "file" -> {Reply(c, "ISDIR or INVAL", c.fh, FALSE, <<>>)}
          [] OTHER -> {Reply(c, "OK", c.fh, FALSE, BlocksFrom(c.fh, c.from, k)) :
                          k \in IF left <= 0 THEN {0} ELSE 1 .. Least(left, ReadSize)}

Serve(c) ==
    /\ c.to = "server"
    /\ \E r \in ServerReplies(c) : nfsNet' = Aged((nfsNet \ {c}) \cup {r}, nfs.id)
    /\ nfsMounts' = CASE c.proc = "MOUNT" -> IF c.id > 0 THEN nfsMounts \cup {c.fh.dir} ELSE nfsMounts
                      [] c.proc = "UMOUNT" -> {}
                      [] OTHER -> nfsMounts
    /\ UNCHANGED <<nfs, nfsHeld, nfsImage, nfsAsked>>

NfsInit ==
    /\ nfs = [state |-> "none", id |-> 0, mountPort |-> FALSE, nfsPort |-> FALSE, mounted |-> FALSE,
              dirfh |-> Garbled, filefh |-> NoFile, dir |-> Garbled, file |-> Garbled, offset |-> 0,
              download |-> "fail", net |-> "idle", age |-> 0, loads |-> 0,
              path |-> [i \in 1 .. PathMax |-> Nul], ether |-> FALSE, grown |-> FALSE]
    /\ nfsNet = {} /\ nfsHeld = {} /\ nfsMounts = {} /\ nfsImage = <<>> /\ nfsAsked = NoFile

NfsNext ==
    \/ NfsHandler \/ Tick \/ NfsTimeout \/ AddressAnswer \/ AddressGivesUp \/ RestartLoad
    \/ \E h \in Asked : NfsStart(h.dir, h.file)
    \/ \E m \in nfsNet : Serve(m)

(* Time passes, and the loop looks at its timers and at NetState.          *)
NfsProgress == Tick \/ NfsTimeout \/ AddressGivesUp \/ RestartLoad
NfsFairness == WF_nfsVars(NfsProgress)

NfsSpec == NfsInit /\ [][NfsNext]_nfsVars
NfsFairSpec == NfsSpec /\ NfsFairness

-----------------------------------------------------------------------------
NfsTypeOK ==
    /\ nfs.state \in {"none", "PRCLOOKUP_PROG_MOUNT", "PRCLOOKUP_PROG_NFS", "MOUNT", "UMOUNT", "LOOKUP", "READ", "READLINK"}
    /\ nfs.net \in {"idle", "continue", "restart", "success", "fail"} /\ nfs.download \in {"success", "fail"}
    /\ nfs.dir \in Dirs \cup {Garbled} /\ nfs.path \in [1 .. PathMax -> Chars \cup {Nul}]
    /\ nfs.file \in Names \cup {Garbled} \cup {Append(n, c) : n \in Names, c \in Chars}
    /\ nfs.id \in 0 .. MaxCalls /\ nfs.age \in 0 .. 1
    /\ nfsMounts \subseteq Dirs

(* A load that ended well stored one file of the server from its first     *)
(* block to its last, in order and at its place: the file the command      *)
(* named, links followed, unless a relative link left a byte behind its    *)
(* name, which may then be that of another file (nfs.c:532).  Late and     *)
(* repeated replies may end a load but never corrupt it.                   *)
LoadedIsFile ==
    nfs.net = "success" =>
        /\ Node(nfs.filefh).kind = "file" /\ (~nfs.grown => nfs.filefh = nfsAsked)
        /\ nfsImage = BlocksFrom(nfs.filefh, 0, Node(nfs.filefh).blocks)

(* A load that ended well left nothing of its own mounted on the server,   *)
(* the mounts made for links on the way included.                          *)
NothingLeftMounted == nfs.net = "success" => nfsMounts = {}

(* Both of a load that ended well.                                         *)
LoadIsExact == NfsTypeOK /\ LoadedIsFile /\ NothingLeftMounted

(* Without a cycle of links every load ends, although each READ gives it   *)
(* its time again, with two exceptions: a name changed as above may be the *)
(* link's own, which is then read for ever, each reply setting the timer   *)
(* anew (nfs.c:673); and as long as nobody answers for the server's        *)
(* address NetStartAgain may start the load over and over.                 *)
LoadEnds ==
    \/ (nfs.net \in {"continue", "restart"}) ~> (nfs.net \notin {"continue", "restart"} \/ nfs.grown)
    \/ []<>(nfs.net = "restart")
=============================================================================
