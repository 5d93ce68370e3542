------------------------------- MODULE Switch -------------------------------
(***************************************************************************)
(* The PHYs behind the switch (board/ar7240/common/ar7240_s26_phy.c) and   *)
(* what ag7240.c sets its MACs to.  A PHY register is reached through the  *)
(* MDIO register of the switch, which the program can only read and write  *)
(* in halves, each by one transfer on the MAC's own management bus; the    *)
(* switch carries the command out on its own while the program polls, and  *)
(* cables come and go all the time.  A register is the set of its flags.   *)
(***************************************************************************)
EXTENDS Integers, Sequences, FiniteSets

CONSTANTS
    PortsOf,            \* per unit the sequence of its PHYs; unit 1 is the LAN
    Speeds,             \* speeds a link may have
    ResetTries,         \* looks at a PHY that is in reset
    ResolveTries,       \* looks at a link that is not resolved yet
    MaxChanges,         \* bound on the links that come and go
    MaxChecks           \* bound on the calls of ag7240_check_link

ASSUME SwitchAssumption ==
    /\ \A u \in DOMAIN PortsOf :
           /\ PortsOf[u] \in Seq(STRING) \ {<<>>}
           /\ \A i, j \in DOMAIN PortsOf[u] : i # j => PortsOf[u][i] # PortsOf[u][j]
    /\ Speeds \subseteq {"10", "100", "1000"} /\ Speeds # {}
    /\ ResetTries \in Nat \ {0} /\ ResolveTries \in Nat \ {0}
    /\ MaxChanges \in Nat /\ MaxChecks \in Nat

VARIABLES
    phys,               \* the PHYs
    mdio,               \* the MDIO register: low half, busy bit, the command
    access,             \* s26_rd_phy or s26_wr_phy that runs
    task,               \* the function above it
    isPhyAlive,         \* athrPhyInfo[].isPhyAlive
    macs,               \* per unit: link, speed, duplex, and the registers
    done,               \* the last command the switch carried out
    gaveUp,             \* a read went on although the register was busy
    ever, always,       \* links that were up at some time or all the time of a check
    changes, checks     \* how many so far

switchVars == <<phys, mdio, access, task, isPhyAlive, macs, done, gaveUp, ever, always, changes, checks>>

Units == DOMAIN PortsOf
Phys == UNION {{PortsOf[u][k] : k \in DOMAIN PortsOf[u]} : u \in Units}
Up == {p \in Phys : phys[p].up}

-----------------------------------------------------------------------------
(* The switch and the cables.                                              *)

DownPhy(reset) == [reset |-> reset, up |-> FALSE, latch |-> FALSE, resolved |-> FALSE, full |-> FALSE, speed |-> "10"]
Flags(condition, flag) == IF condition THEN {flag} ELSE {}

(* A link that is up has negotiated; a link that dropped stays latched as  *)
(* down until the status is read.                                          *)
Register(p, reg) ==
    LET x == phys[p] IN
    CASE reg = "control" -> {"auto"} \cup Flags(x.reset, "reset")
      [] reg = "status" -> Flags(x.up, "neg") \cup Flags(x.latch, "latch")
      [] reg = "spec" -> Flags(x.up, "pass") \cup Flags(x.resolved, "resolved")
                             \cup Flags(x.resolved /\ x.full, "full") \cup Flags(x.resolved, x.speed)
      [] OTHER -> {}

CarryOut ==
    LET c == mdio.command
        value == IF c.read THEN Register(c.phy, c.reg) ELSE c.data
    IN  /\ mdio.busy
        /\ mdio' = [mdio EXCEPT !.busy = FALSE, !.low = value]
        /\ done' = [c EXCEPT !.data = value]
        /\ phys' = [phys EXCEPT ![c.phy] =
                       IF c.read THEN (IF c.reg = "status" THEN [@ EXCEPT !.latch = phys[c.phy].up] ELSE @)
                       ELSE IF c.reg = "control" /\ "reset" \in c.data THEN DownPhy(TRUE) ELSE @]
        /\ always' = {p \in always : phys'[p].up}
        /\ UNCHANGED <<access, task, isPhyAlive, macs, gaveUp, ever, changes, checks>>

PhyOutOfReset(p) ==
    /\ phys[p].reset /\ phys' = [phys EXCEPT ![p].reset = FALSE]
    /\ UNCHANGED <<mdio, access, task, isPhyAlive, macs, done, gaveUp, ever, always, changes, checks>>

LinkUp(p) ==
    /\ ~phys[p].up /\ ~phys[p].reset /\ changes < MaxChanges
    /\ \E speed \in Speeds, full \in BOOLEAN :
           phys' = [phys EXCEPT ![p] = [@ EXCEPT !.up = TRUE, !.speed = speed, !.full = full]]
    /\ changes' = changes + 1 /\ ever' = ever \cup {p}
    /\ UNCHANGED <<mdio, access, task, isPhyAlive, macs, done, gaveUp, always, checks>>

LinkResolved(p) ==
    /\ phys[p].up /\ ~phys[p].resolved /\ phys' = [phys EXCEPT ![p].resolved = TRUE]
    /\ UNCHANGED <<mdio, access, task, isPhyAlive, macs, done, gaveUp, ever, always, changes, checks>>

LinkDown(p) ==
    /\ phys[p].up /\ changes < MaxChanges
    /\ phys' = [phys EXCEPT ![p] = DownPhy(FALSE)]
    /\ changes' = changes + 1 /\ always' = always \ {p}
    /\ UNCHANGED <<mdio, access, task, isPhyAlive, macs, done, gaveUp, ever, checks>>

-----------------------------------------------------------------------------
(* One access to a PHY register.                                           *)

NoAccess == [pc |-> "idle", read |-> TRUE, phy |-> "none", reg |-> "none", data |-> {}]

(* ag7240_miiphy_write: one half.  The high one has the command and the    *)
(* busy bit, and the switch starts when it is written.                     *)
Transfer(m, a, half) ==
    IF half = "low" THEN [m EXCEPT !.low = a.data]
    ELSE [m EXCEPT !.busy = TRUE, !.command = [read |-> a.read, phy |-> a.phy, reg |-> a.reg, data |-> m.low]]

(* Mutant: all registers of the switch are written high half first.        *)
WrittenHighFirst(m, a) == Transfer(Transfer(m, a, "high"), a, "low")

(* athrs26_reg_write: the low half first for the MDIO register.            *)
athrs26_reg_write(m, a) == Transfer(Transfer(m, a, "low"), a, "high")

(* The access begins with its command; nothing else uses the register.     *)
Put(a) == access' = a /\ mdio' = IF a = NoAccess THEN mdio ELSE athrs26_reg_write(mdio, a)

(* s26_rd_phy looks at the busy bit until it is clear, or it has looked    *)
(* too often, and takes the low half.                                      *)
LookForRead ==
    /\ access.pc = "look" /\ access.read
    /\ access' = [access EXCEPT !.pc = "return", !.data = mdio.low]
    /\ gaveUp' = mdio.busy
    /\ UNCHANGED <<phys, mdio, task, isPhyAlive, macs, done, ever, always, changes, checks>>

(* s26_wr_phy waits as long as it takes.                                   *)
LookForWrite ==
    /\ access.pc = "look" /\ ~access.read /\ ~mdio.busy
    /\ access' = [access EXCEPT !.pc = "return"]
    /\ UNCHANGED <<phys, mdio, task, isPhyAlive, macs, done, gaveUp, ever, always, changes, checks>>

-----------------------------------------------------------------------------
(* The functions above: task.fn is what the next access is for, task.k the *)
(* port.  For each, the access, and the task behind it by the value read.  *)

NoTask == [fn |-> "idle", unit |-> 0, k |-> 1, tries |-> 0, status |-> {}, link |-> 0, full |-> FALSE, speed |-> "10"]
Port(j) == PortsOf[j.unit][j.k]
LastPort(j) == PortsOf[j.unit][Len(PortsOf[j.unit])]

ReadReg(p, reg) == [NoAccess EXCEPT !.pc = "look", !.phy = p, !.reg = reg]
WriteReg(p, reg, data) == [NoAccess EXCEPT !.pc = "look", !.read = FALSE, !.phy = p, !.reg = reg, !.data = data]

AccessOf(j, alive) ==
    CASE j.fn \in {"idle", "mac"} -> NoAccess
      [] j.fn \in {"reg_init", "restart"} -> WriteReg(Port(j), "control", {"auto", "reset"})
      [] j.fn = "advertise" -> WriteReg(Port(j), "advertise", {"all"})
      [] j.fn = "wait" -> ReadReg(LastPort(j), "control")
      [] j.fn = "debug_address" -> WriteReg(Port(j), "debug_address", {"iot"})
      [] j.fn = "debug_data" -> WriteReg(Port(j), "debug_data", {"iot"})
      [] j.fn = "is_up" -> ReadReg(Port(j), IF alive[Port(j)] THEN "spec" ELSE "status")
      [] j.fn = "latch" -> ReadReg(Port(j), "status")
      [] j.fn = "control" -> ReadReg(Port(j), "control")
      [] j.fn = "tune_address" -> WriteReg(Port(j), "debug_address", {"100M"})
      [] j.fn = "tune_data" -> WriteReg(Port(j), "debug_data", {"100M"})
      [] OTHER -> ReadReg(Port(j), "spec")

(* The next port of the unit, or what comes behind the last one.           *)
EachPort(j, fn, then) ==
    IF j.k < Len(PortsOf[j.unit]) THEN [j EXCEPT !.fn = fn, !.k = @ + 1, !.tries = 0]
    ELSE [j EXCEPT !.fn = then, !.k = 1, !.tries = 0]

athrs26_reg_init(j) == [j EXCEPT !.fn = "advertise"]
athrs26_reg_init_lan(j) == EachPort(j, "reg_init", "advertise")

(* The wait is for the last of the PHYs, whichever the loop is at.         *)
athrs26_phy_setup(j, r) ==
    CASE j.fn = "advertise" -> [j EXCEPT !.fn = "restart"]
      [] j.fn = "restart" -> EachPort(j, "advertise", "wait")
      [] j.fn = "wait" -> IF "reset" \notin r \/ j.tries + 1 = ResetTries THEN [j EXCEPT !.fn = "debug_address"]
                          ELSE [j EXCEPT !.tries = @ + 1]
      [] j.fn = "debug_address" -> [j EXCEPT !.fn = "debug_data"]
      [] j.fn = "debug_data" -> EachPort(j, "wait", "alive")
      [] j.fn = "alive" -> EachPort(j, "alive", "idle")

(* The links that count, and the PHYs that are alive afterwards.  Behind   *)
(* the last port of the LAN the speed and the duplex are known.            *)
Counted(j, n) ==
    LET next == EachPort([j EXCEPT !.link = @ + n], "is_up", IF j.unit = 1 THEN "mac" ELSE "fdx_link")
    IN  IF next.fn = "mac" THEN [next EXCEPT !.full = TRUE, !.speed = "1000"] ELSE next

athrs26_phy_is_up(j, r, alive) ==
    CASE j.fn = "is_up" /\ alive -> IF "pass" \in r THEN Counted(j, 1) ELSE [j EXCEPT !.fn = "latch"]
      [] j.fn = "is_up" /\ ~alive -> [j EXCEPT !.fn = "control", !.status = r]
      [] j.fn = "latch" -> Counted(j, IF "latch" \in r THEN 1 ELSE 0)
      [] j.fn = "control" -> IF "auto" \notin r \/ "neg" \in j.status THEN [j EXCEPT !.fn = "gain"] ELSE Counted(j, 0)
      [] j.fn = "gain" -> Counted(j, IF "pass" \in r THEN 1 ELSE 0)

(* What a value read says of isPhyAlive: a link that dropped is lost even  *)
(* when it is counted.                                                     *)
AliveAfter(fn, r, alive) ==
    CASE fn = "alive" -> "pass" \in r
      [] fn = "gain" -> alive \/ "pass" \in r
      [] fn = "latch" -> FALSE
      [] OTHER -> alive

(* athrs26_phy_is_fdx and athrs26_phy_speed: the link, and then the same   *)
(* register until it is resolved.                                          *)
athrs26_phy_is_fdx(j, r) ==
    IF j.fn = "fdx_link"
    THEN IF "pass" \in r THEN [j EXCEPT !.fn = "fdx"] ELSE EachPort(j, "fdx_link", "speed_link")
    ELSE IF "resolved" \notin r /\ j.tries + 1 < ResolveTries THEN [j EXCEPT !.tries = @ + 1]
    ELSE IF "full" \in r THEN [j EXCEPT !.fn = "speed_link", !.k = 1, !.tries = 0, !.full = TRUE]
    ELSE EachPort(j, "fdx_link", "speed_link")

athrs26_phy_speed(j, r) ==
    IF j.fn = "speed_link"
    THEN IF "pass" \in r THEN [j EXCEPT !.fn = "speed"] ELSE EachPort(j, "speed_link", "mac")
    ELSE IF "resolved" \notin r /\ j.tries + 1 < ResolveTries THEN [j EXCEPT !.tries = @ + 1]
    ELSE IF "100" \in r THEN [j EXCEPT !.fn = "tune_address", !.tries = 0]
    ELSE [j EXCEPT !.fn = "mac", !.tries = 0, !.speed = IF "1000" \in r THEN "1000" ELSE "10"]

(* Two pairs of debug registers for 100 MBit.                              *)
Tuned(j) ==
    IF j.fn = "tune_address" THEN [j EXCEPT !.fn = "tune_data"]
    ELSE IF j.tries = 0 THEN [j EXCEPT !.fn = "tune_address", !.tries = 1]
    ELSE [j EXCEPT !.fn = "mac", !.tries = 0, !.speed = "100"]

TaskAfter(j, r, alive) ==
    CASE j.fn = "reg_init" -> IF j.unit = 1 THEN athrs26_reg_init_lan(j) ELSE athrs26_reg_init(j)
      [] j.fn \in {"advertise", "restart", "wait", "debug_address", "debug_data", "alive"} -> athrs26_phy_setup(j, r)
      [] j.fn \in {"is_up", "latch", "control", "gain"} -> athrs26_phy_is_up(j, r, alive)
      [] j.fn \in {"fdx_link", "fdx"} -> athrs26_phy_is_fdx(j, r)
      [] j.fn \in {"speed_link", "speed"} -> athrs26_phy_speed(j, r)
      [] j.fn \in {"tune_address", "tune_data"} -> Tuned(j)

AccessReturns ==
    /\ access.pc = "return"
    /\ isPhyAlive' = [isPhyAlive EXCEPT ![Port(task)] = AliveAfter(task.fn, access.data, @)]
    /\ task' = TaskAfter(task, access.data, isPhyAlive[Port(task)])
    /\ Put(AccessOf(task', isPhyAlive'))
    /\ UNCHANGED <<phys, macs, done, gaveUp, ever, always, changes, checks>>

-----------------------------------------------------------------------------
(* The callers in ag7240.c.                                                *)

StartAccess(fn, unit) ==
    /\ task' = [NoTask EXCEPT !.fn = fn, !.unit = unit]
    /\ Put(AccessOf(task', isPhyAlive))

(* ag7240_enet_initialize, once for each unit in turn.                     *)
EnetInitialize ==
    /\ task.fn = "idle"
    /\ \E u \in Units :
           /\ ~macs[u].ready /\ \A v \in Units : v < u => macs[v].ready
           /\ macs' = [macs EXCEPT ![u].ready = TRUE]
           /\ StartAccess("reg_init", u)
    /\ UNCHANGED <<phys, isPhyAlive, done, gaveUp, ever, always, changes, checks>>

(* ag7240_check_link, whenever a command starts a device.                  *)
CheckLink ==
    /\ task.fn = "idle" /\ checks < MaxChecks
    /\ \A u \in Units : macs[u].ready
    /\ \E u \in Units : StartAccess("is_up", u)
    /\ checks' = checks + 1 /\ ever' = Up /\ always' = Up
    /\ UNCHANGED <<phys, isPhyAlive, macs, done, gaveUp, changes>>

(* Mutant: the duplex is set when the speed changed only.                  *)
SameModeBySpeed(mac, j) == j.speed = mac.speed

SameMode(mac, j) == j.full = mac.duplex /\ j.speed = mac.speed

(* The interface and the speed are set in any case, the duplex when it or  *)
(* the speed is not what it was; without a link nothing is.                *)
MacAfter(mac, j) ==
    IF j.link = 0 THEN [mac EXCEPT !.link = 0]
    ELSE [mac EXCEPT !.link = j.link,
                     !.gigabit = j.speed = "1000", !.fast = IF j.speed = "1000" THEN @ ELSE j.speed = "100",
                     !.fullDuplex = IF SameMode(mac, j) THEN @ ELSE j.full,
                     !.duplex = j.full, !.speed = j.speed]

SetMac ==
    /\ task.fn = "mac"
    /\ macs' = [macs EXCEPT ![task.unit] = MacAfter(@, task)]
    /\ task' = [task EXCEPT !.fn = "idle"]
    /\ UNCHANGED <<phys, mdio, access, isPhyAlive, done, gaveUp, ever, always, changes, checks>>

-----------------------------------------------------------------------------
SwitchInit ==
    /\ phys = [p \in Phys |-> DownPhy(FALSE)]
    /\ mdio = [low |-> {}, busy |-> FALSE, command |-> [read |-> TRUE, phy |-> "none", reg |-> "none", data |-> {}]]
    /\ access = NoAccess /\ task = NoTask
    /\ isPhyAlive = [p \in Phys |-> FALSE]
    /\ macs = [u \in Units |-> [ready |-> FALSE, link |-> 0, speed |-> "none", duplex |-> FALSE,
                                gigabit |-> u = 1, fast |-> FALSE, fullDuplex |-> FALSE]]
    /\ done = mdio.command /\ gaveUp = FALSE
    /\ ever = {} /\ always = {} /\ changes = 0 /\ checks = 0

SwitchProgram ==
    LookForRead \/ LookForWrite \/ AccessReturns \/ EnetInitialize \/ CheckLink \/ SetMac
SwitchHardware == CarryOut \/ \E p \in Phys : PhyOutOfReset(p) \/ LinkUp(p) \/ LinkResolved(p) \/ LinkDown(p)

(* What happens behind a read that gave up is not followed.                *)
SwitchNext == ~gaveUp /\ (SwitchProgram \/ SwitchHardware)

SwitchSpec == SwitchInit /\ [][SwitchNext]_switchVars

-----------------------------------------------------------------------------
(* What s26_rd_phy returns and s26_wr_phy wrote is what the switch did for *)
(* this very call, unless a read gave up waiting: no command starts with   *)
(* the data of the one before (ar7240_s26_phy.c, athrs26_reg_write).       *)
CommandIsOwn ==
    (access.pc = "return" /\ ~gaveUp) =>
        done = [read |-> access.read, phy |-> access.phy, reg |-> access.reg, data |-> access.data]

(* The links ag7240_check_link counts lie between those that were up all   *)
(* the time it looked and those that were up at some time, whatever was    *)
(* known before, and no PHY is alive whose link was down all the time      *)
(* (athrs26_phy_is_up).                                                    *)
LinkIsTruthful ==
    (task.fn = "mac" /\ ~gaveUp) =>
        LET ports == {PortsOf[task.unit][k] : k \in DOMAIN PortsOf[task.unit]}
        IN  /\ Cardinality(always \cap ports) <= task.link
            /\ task.link <= Cardinality(ever \cap ports)
            /\ \A p \in ports : isPhyAlive[p] => p \in ever

(* After a check that found a link the MAC is set to the mode the PHY told *)
(* it, whatever it was set to before, and the WAN's is the one of its link *)
(* (ag7240.c, ag7240_check_link).                                          *)
MacFollowsLink ==
    \A u \in Units : (task.fn = "idle" /\ task.unit = u /\ macs[u].ready /\ task.link > 0) =>
        /\ macs[u].gigabit = (task.speed = "1000") /\ macs[u].fullDuplex = task.full
        /\ (task.speed # "1000" => macs[u].fast = (task.speed = "100"))

SwitchIsExact == CommandIsOwn /\ LinkIsTruthful /\ MacFollowsLink
=============================================================================
