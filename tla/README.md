# A TLA+ model of the WR703N U-Boot

This directory holds a formal model of the U-Boot variant in `src/u-boot`: the
boot loader of small AR9331 routers with a web failsafe mode and a console over
UDP, and the tools that are used with it on a host or under Linux. It has TLA+
modules for the parts whose behaviour depends on order, loss, failure or
limits, TLC configurations that check them on small instances, and proofs
checked by TLAPS for every value of the constants.

Paths below are relative to `src/u-boot/`. `PROJECT.json` gives, for every
definition that models code, the file and the lines.

## 1. The system

U-Boot is a single-threaded program without interrupts. Still it has many
actors: the network and the machines behind it, the DMA engines of the Ethernet
devices, the flash chip, the user at the console, loss of power, and the program
itself, which re-enters its own network loop from inside callbacks. Almost all
state is global and outlives the command that set it.

    bootstrap --> board_init --> main_loop --> bootm --> Linux
                                    |
    serial line ----+               |                   +---- web browsers
                    |               |                   |
    console.c   readline, run_command, run, bootd   NetLoopHttpd -- uIP + httpd.c
        |           |        |       \                  |             |
    netconsole.c    |     cmd_net     erase, cp     do_http_upgrade   |
        |           |        |         setmac           |          RAM image
        +------> NetLoop  <--+            \             |             |
                 (net.c)                   +--> run_command <---------+
               /    |    \                       |
          tftp.c  ARP   bootp.c, nfs.c ...  cmd_flash.c, flash.c
                    |                            |
                  eth.c                   ar7240_flash.c
                    |                            |
          ag7240.c, s26_phy.c                SPI flash <---- fw_env (Linux)

### 1.1 Components, state, operations

| Component | State | Operations | What is hard |
|---|---|---|---|
| Environment tool `tools/env/fw_env.c` | two flash sectors (checksum, flag, data, tail); the process' copy | `fw_getenv`, `fw_setenv`, `env_init`, `flash_io` | every step may be the last; two checksums and two flags decide what is believed |
| TFTP client `net/tftp.c` | state, ports, block, last block, wrap count, timeouts; the image in memory | `TftpStart`, `TftpHandler`, `TftpSend`, `TftpTimeout`, `store_block` | repeated, late and lost packets, the 16-bit block counter, packets of transfers given up |
| `NetLoop` `net/net.c` | `NetState`, packet and time handlers, ARP variables | `NetLoop`, `NetReceive`, `ArpTimeoutCheck`, `NetStartAgain`, `NetSendUDPPacket` | handlers change the loop's state while it iterates; a restart in the middle of a receive |
| Devices `net/eth.c` | ring of devices, current device, `ethact`, `first_failed`, `NetRestartWrap` | `eth_register`, `eth_init`, `eth_halt`, `eth_try_another`, `eth_set_current` | state kept from one command to the next |
| Web failsafe `net/uip-0.9/httpd.c`, `uip.c` | two TCP connections with their requests; upload variables shared by all of them; memory at the upload address | `uip_process`, `httpd_appcall`, `httpd_findandstore_firstchunk` | several browsers at once, retransmissions, aborted uploads, shared state |
| Upgrade `net/httpd.c`, `NetLoopHttpd` | the flags that say an upload is ready | `NetLoopHttpd`, `do_http_upgrade` | the image must be complete before flash is erased |
| ARP of uIP `net/uip-0.9/uip_arp.c` | table of addresses | `uip_arp_arpin`, `uip_arp_out`, `uip_arp_ipin`, `uip_arp_update` | a request takes the place of the packet; an entry is replaced |
| Netconsole `drivers/netconsole.c` | a ring of characters; the address of the host; `input_recursion` | `nc_getc`, `nc_tstc`, `nc_puts`, `NcStart`, `nc_handler` | each call runs NetLoop, from which the console is called again |
| Ethernet driver `cpu/mips/ar7240/ag7240.c` | rings of descriptors owned by CPU or DMA, `next_rx` | `ag7240_recv`, `ag7240_halt`, `ag7240_init` | ownership; buffers shared by the devices; a halt in the middle of `ag7240_recv` |
| Switch `board/ar7240/common/ar7240_s26_phy.c` | PHY registers behind two management buses | `s26_rd_phy`, `athrs26_phy_setup`, `athrs26_phy_is_up`, `ag7240_check_link` | polls that give up, latched link bits, links that come and go between two reads |
| BOOTP, DHCP, RARP `net/bootp.c`, `rarp.c` | transaction id, try count, DHCP state, options | `BootpRequest`, `BootpHandler`, `DhcpHandler`, their timeouts | stale offers, retries with a new identifier, options of any length |
| NFS, SNTP, PING, CDP `net/nfs.c`, `sntp.c`, `net.c` | state of the exchange, handles, timers | `NfsHandler`, `NfsTimeout`, `PingHandler`, `CDPHandler`, `SntpHandler` | two timers at once, late replies to earlier calls, links that lead on |
| SPI flash `board/ar7240/common/ar7240_flash.c` | cells, sectors, pages | `flash_init`, `flash_erase`, `write_buff` | page boundaries; programming only clears bits; loss of power |
| Flash commands `common/cmd_flash.c`, `flash.c`, `cmd_mem.c`, `cmd_tplink.c` | the command line being run | `erase`, `cp`, `setmac` | rounding to sectors; the line goes on after a failed command |
| Memory commands `common/cmd_mem.c` | what Enter repeats with | `md`, `mm`, `nm`, `mw`, `cp`, `mtest` | addresses and counts kept from call to call; overlaps |
| Environment of U-Boot `common/cmd_nvedit.c`, `env_common.c` | one block of `name=value` strings | `setenv`, `getenv`, `getenv_r` | in-place edit; a full block; variables with side effects |
| Shell `common/main.c`, `command.c` | line buffer, last command, calls in progress | `main_loop`, `readline`, `run_command`, `parse_line`, `process_macros`, `run`, `bootd` | repeat, Ctrl-C at any depth, variables redefined while they run |
| Console, lists `common/console.c`, `devices.c`, `lists.c` | stdin, stdout, stderr; the list of devices | `console_init_r`, `console_assign`, list operations | arrays that move when they grow |
| Images and boot `tools/mkimage.c`, `common/cmd_bootm.c`, `lib_mips/mips_linux.c` | image header, the arguments of the kernel | `mkimage`, `bootm`, `do_bootm_linux`, `iminfo` | what is checked, by whom, and what is trusted |
| LZMA `lib_generic/LzmaDecode.c`, `LzmaWrapper.c` | range, code, probabilities, state, distances | `LzmaDecode`, `lzma_inflate` | damaged streams; a position kept between calls |
| Start-up `lib_bootstrap`, `lib_mips/board.c`, `meminit.c` | the layout of memory | sizing, `board_init_f`, `board_init_r`, relocation | two programs move through the same memory |
| Allocator `common/dlmalloc.c` | chunks with boundary tags, bins, top | `malloc`, `free`, `realloc`, `memalign`, `sbrk` | merging of neighbours, alignment, a short arena |
| Library `lib_generic`, `rtc/date.c`, `include/asm-mips` | none, or one word | strings, numbers, sums, dates, bit operations | boundaries: overlap, carry, sign, last bit |
| Host tools `tools/gdb`, `tools/updater` | a serial line with a peer; a flash chip | `putpkt`, `getpkt`, `remote_write_bytes`, `do_updater` | resending after garbled packets; polls that run out |

Network commands' argument parsing, the PHP board database, the pages of the
failsafe server and the batch converters of `tools` are left out (section 7).

### 1.2 How the components interact

* `NetLoop` polls the driver (`eth_rx`), which calls `NetReceive` for each
  packet, which calls `packetHandler`. Handlers may send, set the next timeout,
  set `NetState`, or call `NetStartAgain`, which halts and starts devices
  *inside* the receive call.
* Each turn of `NetLoop` calls `ctrlc()`, which, when stdin is the netconsole,
  calls `nc_tstc` and `nc_getc`; they call `NetLoop` again when the device is
  not active.
* `NetLoopHttpd` gives all packets to uIP, and looks at two global flags
  between two polls. A finished upload leads to `do_http_upgrade`, which
  formats a command line `erase ...; cp.b ...` and calls `run_command`.
* An upload and `setmac` use the same memory, `WEBFAILSAFE_UPLOAD_RAM_ADDRESS`
  (0x80080000), and the upgrades copy from there to flash. TFTP stores at the
  address its command names (`load_addr`), which may be the same.
* `run_command` calls `do_run` and `do_bootd`, which call `run_command`; the
  variables they run are in the environment that `setenv` edits meanwhile.
* U-Boot and fw_env share the format of the environment, not a lock. (This
  board's configuration keeps the environment in memory only, `env_nowhere.c`.)

### 1.3 What makes each component correct

* fw_env: an update is all or nothing, whatever step is the last; a success is
  in effect; write-once names stay; bytes behind the environment survive.
* TFTP: a transfer that reports success has every block in its place, and never
  acknowledged a block it had not stored; a wait always has an end; all devices
  are tried before a command fails.
* Failsafe: only a complete file of a permitted size, of one upload, is written
  to flash; chunks are stored in order; everyone is answered.
* Netconsole: the ring is a queue; a wait loses no input; waits end.
* Driver: a handler gets the bytes its descriptor announces; no two engines
  store into the same buffers; program and engine agree where the ring goes on.
* DHCP, BOOTP, NFS, PING, CDP, SNTP: what a command reports is what some answer
  to its own last question said; each command ends.
* Flash: a command line that reports no error did exactly what its commands
  say; nothing else of the flash is changed, not even by a loss of power.
* Shell: Enter repeats only what may be repeated; Ctrl-C stops what is to come;
  a line becomes the commands and words that were typed.
* setenv: the text holds the variables it should, `getenv` finds them, and the
  settings follow them.
* Boot: no memory in use is written over; a damaged image is found where a
  checksum covers it; a decoder never reads before its output; the kernel gets
  the arguments of `bootargs`.
* Allocator: blocks do not overlap and keep their contents; nothing is lost.

### 1.4 What is hard to test

`PROJECT.json` lists the hazards, each with its line and the properties that
cover it. The kinds that dominate: packets lost, repeated and late (TFTP, uIP,
DHCP, NFS); steps of two browsers interleaved over shared variables; power lost
between two steps of a flash update; NetLoop re-entered from its own poll;
state left by an earlier command (`first_failed`, `NetRestartWrap`,
`ETH_STATE_ACTIVE`, `webfailsafe_*`, `rpos`); and boundaries (the end of the
ring, of a page, of a sector, of a buffer, a counter that wraps).

## 2. Modules

| Module | Models | Checked in | Theorems |
|---|---|---|---|
| `AtomicEnv` | abstract: one stored environment, atomic updates | `host_tools` | |
| `FwEnv` | `tools/env/fw_env.c`; refines `AtomicEnv` | `host_tools` | `HostProofs` |
| `GdbSend` | `tools/gdb` | `host_tools` | `HostProofs` |
| `Updater` | `tools/updater` | `host_tools` | `HostProofs` |
| `Tftp` | `net/tftp.c`, `NetLoop` and ARP of `net/net.c`, `net/eth.c` | `tftp_delay`, `tftp_once` | `TftpProofs` |
| `Failsafe` | `net/uip-0.9/uip.c`, `httpd.c`, `NetLoopHttpd`, `do_http_upgrade` | `failsafe_*` | `FailsafeProofs` |
| `ByteQueue` | abstract: a bounded queue of characters | `netconsole` | |
| `NetConsole` | `drivers/netconsole.c`, nested calls of `NetLoop`, `ctrlc`; refines `ByteQueue` | `netconsole` | `NetConsoleProofs` |
| `EthRing` | receive rings of `ag7240.c`, devices of `net/eth.c`, restarts | `network` | `NetworkProofs` |
| `UipArp` | `net/uip-0.9/uip_arp.c`, `NetReceiveHttpd` | `network` | `NetworkProofs` |
| `Dhcp` | DHCP of `net/bootp.c`, `netboot_common`'s results | `network` | `NetworkProofs` |
| `Bootp` | options of `net/bootp.c` byte by byte, plain BOOTP, `net/rarp.c` | `network` | `NetworkProofs` |
| `NfsClient` | `net/nfs.c` | `network` | `NetworkProofs` |
| `Probes` | PING and CDP of `net/net.c`, `net/sntp.c` | `network` | `NetworkProofs` |
| `SpiFlash` | `ar7240_flash.c`, `erase`, `cp`, `setmac`, upgrades, `run_command` | `board` | `BoardProofs` |
| `Memory` | `common/cmd_mem.c` with both versions of `mtest` | `board` | `BoardProofs` |
| `Switch` | `ar7240_s26_phy.c`, `ag7240_check_link` | `board` | `BootProofs` |
| `Shell` | `main_loop`, `run_command`, `run`, `bootd` | `prompt` | `ShellProofs` |
| `CommandLine` | `readline`, `parse_line`, `process_macros`, `find_cmd` | `prompt` | |
| `SetEnv` | `common/cmd_nvedit.c`, `env_common.c`, console devices | `prompt` | |
| `MkImage` | `tools/mkimage.c` against the checks of `cmd_bootm.c`, `mips_linux.c` | `boot` | |
| `StartUp` | `meminit.c`, `lib_bootstrap/bootstrap_board.c`, `lib_mips/board.c` | `boot` | `BootProofs` |
| `Lzma` | `LzmaDecode.c`: range coder, and states, distances, copies above it | `boot` | `BootProofs` |
| `BootLinux` | `lzma_inflate` of both programs, `do_bootm`, `do_bootm_linux` | `boot`, `boot_twice` | |
| `Allocator` | abstract: blocks that belong to holders | `boot` | |
| `Heap` | `common/dlmalloc.c`; refines `Allocator` | `boot` | |
| `Lists` | `common/lists.c`, `devices.c` | `boot` | |
| `Strings` | `lib_generic/string.c`, `asm-mips/string.h`, the copies in `lib_bootstrap`, `tools/updater` | `boot` | |
| `Formats` | `vsprintf.c`, `crc32.c`, `display_options.c`, `rtc/date.c` | `boot` | |
| `Headers` | sums and headers of `net.c`, `uip_arch.c`, `uip.c` | `boot` | |
| `BitOps` | `asm-mips/bitops.h`, `linux/bitops.h` | `boot` | `BootProofs` |

`MCFailsafe`, `MCNetConsole` give one component its instance. `MCHost`,
`MCNetwork`, `MCPrompt`, `MCBoard` and `MCBoot` hold several components that
belong together but do not run at the same time: a variable (`tool`, `command`,
`part`, `step`) chooses one at the start, the others keep one initial state.
The runs of `Tftp` use the module itself.

Definitions that stand right before the definition they are like and are marked
as mutants in a comment are deliberate mistakes: `PROJECT.json` says which
property finds each.

### 2.1 FwEnv

State: `dev`, the two sectors as records of checksum, flag byte, data and the
tail behind the environment; `curdev` and `env`, the process' choice and its
edited copy; `data`, the saved tail; `pc`, the next step of `flash_io`; `rc`.
A checksum is represented by the environment it was computed from, so that a
sector is valid when the two are equal; `Torn` and `NoCrc` never match.

`FwSetenv` is everything up to the first change of the flash (`env_init`, the
refusals, the edit, saving the tail). `FlashErase`, `FlashWriteHeader`,
`FlashWriteData`, `FlashWriteTail`, `FlashObsolete` and `FlashClose` are the steps of
`flash_io(O_RDWR)`; `FlashFail` is an error or a loss of power at any of them, leaving
what an interrupted erase or write may leave. `EnvInitDev` is the decision table of
`env_init`. The two comparisons of `fw_setenv` are kept apart: a definition is found
by `envmatch`, which stops at a `=` of the argument (line 303), the refusal compares
the whole argument (line 314). `Overwrites` has the argument up to its `=` and whether
there is more; `longer` records a process that was given more (3.2).

### 2.2 Tftp

State: `loop` (NetLoop: where it is, `NetState`, packet handler, time handler
with the age of its timeout), `eth` (current device, `first_failed`,
`NetRestartWrap`, and the device whose receive is running though it was
halted), `tftp` (the `Tftp*` variables), `arp`, `img` (memory and
`NetBootFileXferSize`), `net` (packets in flight), `server`, and counters.

A block is its position in the file. `TftpOack`, `TftpDataRestart`, `TftpDataSame`,
`TftpDataStored` and `TftpError` are the branches of `TftpHandler`; `NetReceiveArp`
and `NetReceiveIgnored` the branches of `NetReceive` before it; `ArpTryAgain`,
`ArpGiveUp`, `TftpTimeoutRetry`, `TftpTimeoutGiveUp`, `startAgainTimeout` and the
`Switch...` actions the rest of a turn of the loop; `Restart` the code between the
label and the loop. `NetStartAgain` is an operator applied to the loop's record,
because handlers call it in the middle of other work: the device it halts goes on
handing out the packets it had received (`EthHaltInRecv`). The server follows RFC
1350: it repeats what is not acknowledged and drops what it did not ask for. `hist` is
what the properties need to know of a command: the devices it tried, and whether its
own search for a link had set `NetRestartWrap` before anything failed (`early`, 3.2).

### 2.3 Failsafe

State: `conn`, uIP's connections with the TCP state, the counters and the
`httpd_state` of each; `web`, the variables `httpd.c` shares between them;
`ram`, the chunks stored from the upload address; `loop`, `flash`; and the
clients (`req`, `cl`, `wire`). Sequence numbers count segments, an upload's
segment carries one chunk. `Input` is `uip_process` for a TCP segment, with one
operator per state of the connection; `App...` are the branches of
`httpd_appcall`; `Reset` is what `httpd_state_reset` does to the shared
variables; `Upgrade` is `NetLoopHttpd` finding an upload ready.

uIP's timers are absent because they are in the program, too: `NetLoopHttpd`
calls `HttpdHandler` when `eth_rx() > 0`, and `ag7240_recv` returns 0.

### 2.4 NetConsole

State: the ring (`input_buffer`, `input_size`, `input_offset`), `caller` (the shell's
call: `nc_getc`, `nc_tstc`, the first `nc_puts`, a network command), `below` (the call
from whose `ctrlc` another NetLoop was entered), `at` (where the running NetLoop is),
`NetState`, `handler`, `timer` (`timeHandler`, which outlives the NetLoop that set
it), `net_timeout`, `arp`, `eth`, `ether`. `NcStart` decides as the code does, by
`output_packet_len` and `nc_ether`: until `nc_puts` returns, also the NetLoop by which
`nc_tstc` polls from inside it waits for ARP, and sets no time (`Sending`).
`nc_input_packet` is modelled copy by copy (`Stored`, `End`, `Chunk`, `Copied`), for
these index computations are what the refinement is about. `PollNothing`, `PollTakes`
and `PollNested` are the three outcomes of `ctrlc` inside the loop.

### 2.5 SpiFlash, Memory, Switch (MCBoard)

SpiFlash: `flash` (cells), `ram` (from the upload address), `line` (the command
line being run), `next` (its next command), `op` (the erase or write in
progress), `rc`, and `before`, the flash when the line was entered, which only
the properties read. `EraseRange` is the parsing of the four forms of `erase`
with their rounding and refusals; `EraseSector` one turn of `flash_erase`;
`WritePage` one turn of `write_buff`, where `Hit` and `Distance` are the chip's
page buffer: a program that runs past the end of its page goes on at its start.
`Return` is the end of a command: `run_command` goes on with the next one even
if it failed. Where lines come from: `UserLine`, `do_http_upgrade` (U-Boot,
firmware, ART), `do_set_mac`. `PowerLoss` may come at any step and leaves the
sector or the page being worked on torn.

Memory: the bytes, and what `md`, `mm` and `nm` keep for Enter (`dp_last_addr`,
`mm_last_size` and the like). One action is one object shown or written. `mtest`
runs on memory with one fault of a data line, an address line or a cell;
an action is one pass.

Switch: the registers of the PHYs and the two halves in which the program moves
them over the MAC's bus, while the switch works on its own (`MdioDone`) and links
change at any time. `ag7240_check_link` is followed read by read, because what it
decides is put together from several reads.

### 2.6 EthRing, UipArp, Dhcp, Bootp, NfsClient, Probes (MCNetwork)

EthRing: per device the descriptors (`owner`, `described`), `next_rx` and the engine,
which stores on its own (`EngineStores`, `EngineOverruns`); `packets`, the buffers
`NetRxPackets` that all devices share. The program's side is `ag7240_recv` descriptor
by descriptor, the nested loop of the console, restarts by a timer or by the handler
of a packet, and cables. `restarted` says whether a handler started again, and whether
a loop has started since.

UipArp: the table and, for one frame, everything `NetReceiveHttpd` does with it:
learning, the input of uIP and the addressing of the answer.

Dhcp: `client` has the variables of `bootp.c` and of NetLoop, `messages` what was ever
sent. Messages stay and may be received at any time, again and again, which covers
loss, delay, repetition and reordering. Bootp has the options of a reply byte by byte
(`DhcpOptionsProcess`, `BootpVendorProcess`) with the lengths that lead from one to
the next. A zero between two options is a pad to BOOTP; DHCP takes the byte behind it
for a length and is out of step from there on, which is modelled as finding nothing or
options nobody sent (`Strays`); `misread` records it.

NfsClient: the exchange of `nfs.c`, one call per state, against a server with
directories, files and links. Names are sequences of characters in `nfs_path_buff`,
because a relative link is ended one byte too late (`Overwritten`, `NewPath`,
`NewName`); `grown` records a name that got longer by it. The first call waits for the
server's address (`nfsHeld`); the request is answered or gives up, which restarts or
fails the load. Probes: PING, CDP and SNTP next to the address request that carries
their first packet, each with its own timer. A CDP packet is a sequence of TLVs whose
sizes are whole, beyond the packet, zero, or shorter than the header (`Walks`); the
module is of a processor that loads a half word from any address, which this board's
is not.

### 2.7 Shell, CommandLine, SetEnv (MCPrompt)

Shell: `stack` holds the calls in progress (`run_command`, `do_run`,
`do_bootd`), each with what it still has to do; `script` is what the variables
hold, which `setenv` may change while they run; `lastcommand` what Enter repeats.
`earned` records what the properties need to know of the line. CommandLine is
the way from a key to a word: editing, separators, macros, words, names.

SetEnv: `text` is the block of the environment, in which a name or a value is one
token and `=`, blank and NUL are tokens of their own, so that the in-place deletion
and appending of `_do_setenv` is as the code does it. A value stands for the number or
the address it is parsed to. `names` are those that the commands of one session use.
`SetEnvException` is `setenv baudrate` without a value, which reads `argv[2]`, a null
pointer, and stops the board (`stopped`).

### 2.8 MkImage, StartUp, Lzma, BootLinux (MCBoot)

MkImage builds an image file of cells with header and table of lengths, lets one cell
change on the way, and compares what the board's checks say with what was changed, and
the sizes `print_image_hdr` lists with those of the files. A checksum is taken as
telling any two contents apart. That `do_bootm_linux` can find a second file
(`mips_linux.c:142`) is not modelled: `do_bootm` makes up a header of type kernel from
TP-Link's (`cmd_bootm.c:123`), so that no image leads there. StartUp follows the two
programs and the regions of memory that are in use at each stage. Lzma has two levels:
the range coder on bits with its probabilities, against an encoder that is the inverse
of its arithmetic; and the packets above it (literals, matches, repetitions) on intact
and damaged streams, a packet being decoded in the context in which it was encoded.
BootLinux is `lzma_inflate` with its checks and its static `rpos`, and the splitting
of `bootargs` into words.

### 2.9 Heap, Lists, Strings, Formats, Headers, BitOps (MCBoot)

Heap is `dlmalloc.c` on words of memory: sizes, footers, links of the bins,
`binblocks`, `last_remainder` and `top` are in the memory the user's blocks are
in, so that an overlap would be seen. `Allocator` is what the callers rely on;
`HeapImplementsAllocator` checks the refinement.

Lists, Strings, Formats and Headers run calls on a small memory or go through a
range of inputs and compare the result with a definition of what was asked for.
BitOps interleaves two actors with load-linked and store-conditional, or with
interrupts masked.

Not all of it is compiled for this board: of `lists.c` the functions behind
`CFG_ALL_LIST_FUNCTIONS` are not, of `asm-mips/bitops.h` only what the board includes
is used, and `rtc/date.c` has no clock to serve. They are modelled because the files
are kept and changed together with the rest. An insertion of several items that is not
given the room writes behind the block (`overrun`); nothing is claimed of a list after
that. `memscan` of `asm-mips/string.h` has no caller and is not modelled.

## 3. Runs

Every pass run ends with all reachable states seen. A run of an `MC` module with
several components answers one question about the area: does each part do what
the others rely on.

| Run | Checks | What it shows |
|---|---|---|
| `tftp_delay` | `ImageCorrect`, `AckedIsStored`, `WaitIsBounded` | late and repeated packets, option acknowledgements, errors and restarts never give a wrong image nor a wait without a timer |
| `tftp_once` | `OnceTriesAll`, `TransferCompletes` | three commands over four devices, one without link, one without address, one that does not reach the server; losses and errors of the server: the command fails only after every usable device, and completes when few enough packets are lost, unless its own search for a link set `NetRestartWrap` |
| `failsafe_one` | `FlashIsComplete`, `StoredInOrder`, `ReadyWhenComplete` | one upload and another visitor, with losses, retransmissions, cancels, half-closes, failed upgrades |
| `failsafe_served` | `EveryoneServed`, `UploadIsFlashed` | three clients, two connections, no losses: nobody waits for ever |
| `failsafe_two` | `ReadyWhenComplete`, violated | two uploads at the same time |
| `netconsole` | `Refinement`, `WaitKeepsInput`, `CallsEnd` | the ring is a queue under nested loops and restarts; calls end |
| `board` | `LineExact`, `OthersKept`, `ProgramsErased`, `MemoryIsExact`, `SwitchIsExact` | lines that report no error did what they say, nothing else is ever touched; memory commands and tests; links |
| `host_tools` | `ImplementsAtomicEnv`, `ReadOnlyOnce`, `TailKept`, `ImagesArrive`, `ToolsEnd` | every interruption of every update leaves the old or the new environment; an image that a loader reports is on the board; the loaders end unless the board talks for ever |
| `network` | `RingsAreSafe`, `AnswerReachesAsker`, `CommandsAreExact`, `CommandsEnd` | rings under restarts, by time-outs and by handlers, and overruns; the ARP table; what DHCP, BOOTP, NFS, PING, CDP and SNTP report |
| `prompt` | `RepeatIsEarned`, `InterruptStops`, `LineReturns`, `LineIsExact`, `SettingsAgree` | nested lines that change while they run; every short sequence of keys; `setenv` of every kind of name in a nearly full block |
| `boot` | `ImageIsJudged`, `LayoutIsSound`, `ReadsInside`, `DecodedIsEncoded`, `KernelIsImage`, `HeapIsSound`, `HeapImplementsAllocator`, `LibraryIsExact` | from an image to a kernel, and the library below |
| `boot_twice` | `GoodImageBoots`, violated | a good image after one that was refused |

Some properties are conjunctions over parts that belong together
(`LineExact`, `StoredInOrder`, `MemoryIsExact`, `CommandsAreExact`,
`CommandsEnd`, `LibraryIsExact`, `ImagesArrive`, `ToolsEnd`,
`DecodedIsEncoded`): the parts are named operators with comments of their own.

### 3.1 Where the code and its texts disagree

Two runs end in a violation:

* **An unfinished upload is made ready** (`net/uip-0.9/httpd.c:461`, run
  `failsafe_two`). `webfailsafe_post_done` is one flag for all connections: the
  acknowledgement of any page makes the last completed upload ready, when
  another upload has already started to overwrite it ("until upload is not
  completed", `net/net.c:1942`).
* **One refused image refuses all** (`lib_generic/LzmaWrapper.c:46`, run
  `boot_twice`). `rpos` is static and never set back: after one `bootm` that
  failed, every image is refused until the board is reset.

Other texts that the code does not keep to are not runs of their own. The properties
they touch name the exception at their definition, and 3.2 says what happens:

* "once" of `netretry` (`README:2540`) against `NetRestartWrap` set too early.
* "Ethernet Address and serial# can be set only once" (`tools/env/fw_env.c:312`)
  against `fw_setenv ethaddr=x`.
* "For every command we re-setup the ring and start with clean h/w rx state"
  (`ag7240.c:365`): a restart by a packet handler is inside `ag7240_recv`.
* "Change a bit and return its new value" (`asm-mips/bitops.h:263`, `:511`) against
  the old value that is returned. "returns the address of the first occurrence of @c,
  or 1 byte past the area if @c is not found" (`lib_generic/string.c:520`, a copy that
  is itself left out) against the `memscan` of `asm-mips/string.h`.

### 3.2 Observations

Met while modelling; the models follow the code in each of them.

TFTP and NetLoop
* A repeated block 0 counts as another wrap of the block counter
  (`net/tftp.c:225`), before the handler sees that it is a repeated one
  (`tftp.c:263`, "Same block again; ignore it."): the rest of the file is stored
  one wrap too far, and the transfer reports success. `Tftp` with `SeqSize = 2`
  and one fault shows it; the instances keep files below one wrap.
* Two errors handled in one poll call `NetStartAgain` twice: a device is skipped,
  and with `netretry=once` the command fails without having tried all of them
  (`net/net.c:639`, `README:2538`).
* With two devices a transfer can acknowledge a block it did not store. After
  "Starting again" (`tftp.c`, the first block is not block 1) `TftpBlock` and
  `TftpState` are already set; an option acknowledgement handled in the same
  `eth_rx` sets `STATE_OACK`, and `TftpSend` acknowledges `TftpBlock`. The same
  happens with `netretry` "no" or "once" and a later command. This is why the
  theorems about the image speak of one device and `netretry` "yes".
* With `netretry=once` a command may fail after its first device. `first_failed` is
  static: a first command fails, first on device 2; when the next command starts with
  a device whose link is down and the search of `eth_init` passes over device 2,
  `eth_try_another(0)` (`net/eth.c:220`, `:269`) finds it equal to `first_failed` and
  sets `NetRestartWrap` before anything has failed, so that the first failure ends the
  command. `hist.early` marks such a command in `OnceTriesAll` and
  `TransferCompletes`.
* A repeated option acknowledgement in state `DATA` sets the state back, so that
  the next block restarts the transfer.

Failsafe
* `httpd_state_reset` frees `boundary_value` and keeps the pointer
  (`httpd.c:96`); the next reset of any connection frees it again. `web.freed`
  and `web.heap` record it.
* Data in the segment that completes the handshake is lost to the application.
  An upload whose closing boundary shares the one segment of its chunk is never
  answered.
* Data that arrives while a page is unacknowledged sets the outstanding length
  to 0 (`uip.c:1328`), so that the acknowledgement of the page is not seen.

Flash
* A copy that starts inside a page goes around it: the room left is computed from
  the start of the copy, not from where this page program goes
  (`ar7240_flash.c:240`). `LineExact` is checked and proved for copies that start on a
  page, as those of the upgrades and of `setmac` do; `MCTypedUnaligned` has the other.
* `erase start end` takes `end` as the last address, while the comment at
  `common/cmd_flash.c:98` has it exclusive; the model follows the code and the
  command's help text.

Network
* `NetStartAgain` from a packet handler runs inside `ag7240_recv`, against the comment
  at `ag7240.c:365`: the loop of `ag7240_recv` then goes on with a ring that was set
  up anew, or with that of the device that was left, whose engine it lets run while
  the other one runs: two engines then store into the same buffers. The run has such
  restarts. `HandedIntact` and `OneReceiver` hold until the first of them;
  `RingInStep` until then and again from the next start of a loop on;
  `DevicesAreFound` always.
* `eth_get_dev_index` does not end when `eth_current` is not in the ring;
  `eth_initialize` reads an uninitialised `end`.
* uIP's echo reply carries a wrong checksum when everything but the type is zero
  (`uip.c:711`, `>=`). A packet longer or shorter than its header says is taken
  with the header's length, although the comment says it is dropped.
* `DhcpOptionsProcess` and `DhcpMessageType` do not treat option 0 as a pad of one
  byte: from there on they read out of step, as far as the memory behind the packet.
  `OptionsAreRead` holds for DHCP as long as no reply had one. `NetBootFileSize` is
  set to 0 by every later option. BOOTP keeps the first value of an option, DHCP the
  last. `BootpExtended` with the default mask writes 85 bytes into `bp_vend[64]`,
  inside the packet buffer.
* `NetLoop` prepares BOOTP and RARP (`net.c:412`) but has no case that starts them.
* `nfs.c` and `sntp.c` are not in `net/Makefile`; a cycle of links in `nfs.c` never
  times out, for each reply to a READ sets the timer anew (`nfs.c:673`). A relative
  link is ended one byte too late (`nfs.c:532`): the byte behind it, of the old name
  or of one before, stays. What is then loaded may be another file that exists, and
  the load reports success; or it may be the link itself, which is read for ever.
* A CDP TLV of size 0 is read for ever (`net.c:1080`); one of size 1 to 3 leaves the
  pointer inside its header and takes `tlen` below 0, so that what follows is not what
  it seems. Without a switch CDP starts again for ever when `netretry` says so.
  `CFG_CMD_CDP` is not set for this board.
* While no one answers for its address, NFS restarts for ever, too, and so does any
  command whose call waits for an address.
* Netconsole: the NetLoop by which `nc_tstc` polls from inside `nc_puts` waits for ARP
  like `nc_puts` itself, without a time of its own; it ends by the reply, by a timer
  that an earlier NetLoop left set, or when ARP gives up and a restart fails.

Switch and memory
* `athrs26_phy_setup`'s second loop polls the last PHY for every port, while its
  comment promises all; `athrs26_phy_is_up` clears `isPhyAlive` even when the
  latched link counts; `s26_rd_phy` gives up after 824 looks and returns
  whatever is there, `s26_wr_phy` waits for ever.
* `mtest`'s quick test never returns its result, the alternate one goes on after a
  failed data line, and `num_words` covers one word past an exclusive end.
* `md` repeated twice on one line continues from one remembered address.

Shell and setenv
* `run a b` goes on with `b` after Ctrl-C in `a`, and the line counts as
  repeatable: the exception in `RepeatIsEarned` and `InterruptStops`.
* `bootd; bootd` is refused as recursion; an endless `run` is limited only by the
  stack. `process_macros` leaves its output unterminated when it fills
  `CFG_CBSIZE` exactly; a leading `;` is not a separator.
* A name holding `=` matches, deletes or overwrites the variable before it. `setenv
  baudrate` without a value hands a null pointer to `simple_strtoul`
  (`cmd_nvedit.c:232`). When the new value does not fit, the old one is gone and a
  switch of console, MAC or baud rate has happened. `getenv_r` writes one byte behind
  a buffer that value and NUL fill exactly. Settings do not follow a deleted variable.

Images and boot
* `do_bootm` never sets the header's table nor `len_ptr`, so that the ramdisk of a
  multi-file image (`mips_linux.c:142`) cannot be reached by it.
* `mkimage -l` offsets are 4 too low; the table of an XIP multi-file image holds
  full sizes; `do_bootm_linux` does not check a ramdisk's data; `do_bootm` checks
  nothing of the header it makes up.
* `outSizeFull` is compared with a pointer (`d_len`), so that the limit is never
  enforced; a `kernelLen` below 13 wraps. With `LINUX_MAX_ARGS - 1` words the
  appended `mem=` overwrites the first one; more words are lost silently.
* The bootstrap checks the CRC of the header, not of the data; its failures return
  to nowhere. RAM below 16 MB is found as 16 MB.

Library, heap, tools
* `sbrk` returns NULL where `MORECORE_FAILURE` is -1, and does not clear memory it
  hands out again, though `MORECORE_CLEARS` says so; `request2size` wraps near 2^31;
  `malloc` can fail although top and the rest of the arena would suffice.
* `ListInsertItems` makes room only when no cell is free (`lists.c:364`): two items
  with one free cell go behind the block, unless `ListPreAllocate` was called.
* `test_and_change_bit` returns the old value, its comments (`bitops.h:263`, `:511`)
  say the new one; the little-endian search may return a number beyond its size.
* `strncpy` of `asm-mips/string.h` returns the end; `memscan` the place behind the
  byte it found, where `string.c:520` says the byte; comparisons keep a signed char.
* A field padded with zeros is read as octal by base 0; `strtoul` of `0x` overrides
  any base.
* `fw_setenv ethaddr=x v` replaces, and `fw_setenv ethaddr=x` deletes, a write-once
  `ethaddr`: the search stops at the `=`, the refusal does not (`fw_env.c:303`,
  `:314`).
* gdbsend never ends when the board sends characters without a pause, as the comment
  at `remote.c:877` says; `ToolsEnd` excepts it. It reports success for a probe whose
  answers were lost; it overwrites only a part of an old length when the new one has
  fewer digits. The updater ignores the results of `flash_init` and `flash_erase` and
  says "Update done" in any case; a locked sector with D7 polling can report success;
  an unknown chip leaves the flash on the other bus.

### 3.3 Bounds

* FwEnv: three names (one write-once), two values, room for two names. Updates are
  independent of each other but for the flash they leave, so that all combinations of
  two sectors' checksum, flags and data are reached. GdbSend: an image of eight
  characters, two of them escaped, in packets of 19, three tries, two faults, and a
  stub that may talk without end. Updater: two sectors of four bytes, words of two.
* Tftp: `tftp_delay` has three blocks (a first, a middle and a last), one device, one
  repeated packet, two starts and delays without bound; `tftp_once` four devices of
  every kind, three losses against a `TIMEOUT_COUNT` of two, and three commands, the
  fewest after which `NetRestartWrap` may be set too early: the first device has a
  link, so that a command may begin in the middle of the ring, and errors of the
  server make commands fail early. `MaxSessions` and `MaxStarts` are chosen so that a
  transfer is given up and another begun.
* Failsafe: two connections, as configured; two or three clients, so that a SYN
  meets a full table; files against limits of two (U-Boot) and three (firmware)
  chunks, so that sizes just inside and just outside occur; answers of one or two
  pieces. Clients are symmetric, and symmetry is used only where no liveness is
  checked.
* NetConsole: a ring of three characters and packets of one, two and four, so
  that the ring is wrapped, filled exactly, and overrun.
* Board: sectors of two pages of three cells, four sectors, three lines; copies
  shorter than a page, longer, a page and a part; erases aligned, unaligned, out of
  range and beyond the end. Memory of eight bytes of two values, three memory
  commands; `mtest` on three address and four data lines, three passes; two PHY
  units with three ports, two changes of links, two checks.
* Network: two devices with two descriptors and three frames, one cable in; ARP table
  of two for three local hosts and one remote; two DHCP servers, two devices, three
  identifiers; three options and pads in all replies; two NFS loads of at most fifteen
  calls with blocks read two at a time, in two directories of four names, of one and
  two characters, with relative links to names as long and shorter (one comes to name
  another file, one itself); two probes, six CDP packets with TLVs of each kind of
  size.
* Prompt: six lines of at most three commands over three variables, calls up to seven
  deep; lines of six characters out of eleven keys, three words; a text of 28 tokens
  and three sessions of `setenv`, one with a console, an address and names with a `=`,
  one with the baud rate and `ipaddr`, one with `loadaddr` and `bootfile`. Boot: three
  files per image; RAM of 16, 32 and 64 MB at the board's own addresses; a range of 8
  bits with a top of 5 and probabilities of 3; four texts, distances up to 5; a heap
  of 32 words, requests of 1, 7 and 10 words, three symmetric holders; lists of three
  items; strings in five cells; words of 7 bits for numbers; two operations on two
  words of four bits; two `bootm`.

`CHECK_DEADLOCK FALSE` stands where the system stops: a command has ended and
the bound on commands is reached, the board has been reset, everyone is served.

### 3.4 Fairness

* `Tftp!FairSpec`: the loop goes round and its clock runs (it is a busy loop);
  the network delivers what it does not lose; the server answers and repeats.
  Losses are bounded, as `TransferCompletes` says in its own statement.
* `Failsafe!FairSpec`: clients follow their connections through, `NetLoopHttpd`
  goes round. Without faults only: uIP never retransmits in this program, so
  nothing can be promised under losses.
* `NetConsole!FairSpec`: the loop goes round, and a timer that is set again and again
  fires (strong fairness, because a restart may set it anew); the console host answers
  ARP and sends something again and again, and `eth_init` succeeds now and then, which
  is what `CallsEnd` needs of `nc_getc` and `nc_puts`, which have no timeout.
* `MCNetwork`, `MCPrompt`, `MCHost`: weak fairness of the steps of the program that
  runs and of its clock (`EthProgress`, `DhcpProgress`, `NfsProgress`, `ProbeTick`,
  `ShellRuns`, `GdbProgress`, `UpdaterNext`): busy loops with timeouts. No other
  machine is assumed to answer. `fw_setenv` has none: it may be interrupted for good.
  What the code lets go on for ever is excepted in the properties: a command that
  `netretry` starts again without end, a CDP packet that holds the board, a link that
  names itself, a board that talks without end.

## 4. Proofs

TLAPS proves the following for all values of the constants that satisfy the
modules' named assumptions. Where a theorem has a further hypothesis it is a
named operator or stands in the theorem, and the reason is given here. Each proof
module EXTENDS the module it is about; one step of the induction per action.

| Theorem | States | Hypothesis beyond the module's assumptions |
|---|---|---|
| `HostProofs!Refinement`, `TailSafe`, `ReadOnlySafe`, `TypeCorrect` | `ImplementsAtomicEnv`, `TailKept`, `ReadOnlyOnce` | |
| `HostProofs!ImagesAreWhole`, `StubGetsTheImage` | `ImagesArrive` | `NoDigitIsLost` |
| `NetConsoleProofs!Refines`, `WaitKeeps`, `TypeCorrect` | `Refinement`, `WaitKeepsInput` | |
| `BoardProofs!OthersSafe`, `ErasedSafe`, `TypeCorrect` | `OthersKept`, `ProgramsErased` | |
| `BoardProofs!LineSafe` | `LineExact` | `PagedCopies`, `SetMacAlone` |
| `BoardProofs!MemoryExact` | `MemoryIsExact` | |
| `TftpProofs!WaitBounded` | `WaitIsBounded` | |
| `TftpProofs!AckedStored`, `ImageComplete` | `AckedIsStored`, `ImageCorrect` | `OneDevice` |
| `FailsafeProofs!StoredAlways`, `FlashAlways`, `ReadyAlways` | `StoredInOrder`, `FlashIsComplete`, `ReadyWhenComplete` | `OneUpload` |
| `NetworkProofs!RingsSafe` | `RingsAreSafe` | a cable in |
| `NetworkProofs!AnswersReach` | `AnswerReachesAsker` | |
| `NetworkProofs!LeaseHeld` | `LeaseIsExact`, a part of `CommandsAreExact` | servers conform |
| `NetworkProofs!NfsLoadsTheFile` | `LoadIsExact`, a part of `CommandsAreExact` | the server conforms |
| `NetworkProofs!ProbesAreExact` | `ProbeIsExact`, a part of `CommandsAreExact` | |
| `NetworkProofs!OptionsRead` | `OptionsAreRead`, a part of `CommandsAreExact` | |
| `NetworkProofs!CommandsExact` | `CommandsAreExact` | |
| `ShellProofs!RepeatEarned`, `InterruptWorks` | `RepeatIsEarned`, `InterruptStops` | |
| `BootProofs!DecoderReadsInside`, `DecoderTypes` | `ReadsInside` | |
| `BootProofs!StartLayout` | `LayoutIsSound` | |
| `BootProofs!SwitchTold` | `SwitchIsExact` | no read goes on while the register is busy |
| `BootProofs!EveryBitKept` | `NoBitIsLost`, a part of `LibraryIsExact` | |

### 4.1 HostProofs

`fw_env`. Assumption `FwEnvAssumption`: the default environment is an environment; `Torn`,
`NoCrc`, `NoVal` are not values. The inductive invariant `IInv` says what is true
of the sector being written at each `pc`: after the erase its data is torn, so
`env_init` ignores it (`BadSectorIgnored`); once the data is written it is
complete and active, and either sector is a right answer (`OldOrNew`); once the
other is marked obsolete the new one is chosen (`ActiveWins`). The commit point of
`AtomicEnv` is the step that changes what `env_init` would choose: the write of the
data, or, when both sectors are then active and the old one comes first, the write
that marks the old one obsolete. TLC checks two sectors; the case of one sector is
covered by the theorem only. `TypeOK` alone is not enough: without knowing that the
sector being written is torn or equals `env`, a step could reveal an environment
nobody stored.

The updater. `UpdaterInv` adds to the types that the cells before the write pointer
hold the image or lie in a locked sector (`WrittenSoFar`), that behind the image each
cell is erased or as it was (`TailKeeps`), and that the pointer is a whole number of
words; a time-out of the erase is only reported, so nothing is said of a sector that
was not erased but that the write is compared with the flash.

The loader. `GdbInv = GdbTypes /\ InPlace /\ RunsTheImage /\ AliveOK`. `InPlace` is the
part for the memory of the board: whatever the stub obeyed, obeyed twice included, is
at its place. `AliveOK` holds as long as nothing gave up: what the host counts as sent
is held by the stub (`SentIsHeld`), of what the stub reacts to there is one token on
the line at most, and none while an answer is on its way back (`ToStubOK`, `ToHostOK`),
and every try was paid for by a fault of the line (`Counted`). The last is why
`GdbAssumption` asks for fewer faults than `MAX_TRIES`, and at most `PutTries`: the
loader reports what it gave up on, but `getpkt` takes its last, damaged token for an
answer after that many tries. `HeaderLeavesRoom` says that a packet has room for its
header.

`NoDigitIsLost` is a property of the image and the packet size: when bytes that must
be escaped cut a packet short, its length still has as many digits as were planned for.
If it has fewer, the packet moves by a byte, as the comment of the code fears
(`tools/gdb/remote.c:563`, 3.2), and the theorem fails. The constants of the run
satisfy it; with the real `PBUFSIZ` of 400 an image with many escapes in one packet
does not.

### 4.2 NetConsoleProofs

Assumption `NetConsoleAssumption`: the ring has at least one place. Unrolled from
`input_offset`, the ring is the queue of `ByteQueue`. The lemmas `CopiedOld` and
`CopiedNew` say that the two copies of `nc_input_packet` leave the waiting
characters and append the new ones, for every position and length, the case
`End = N` included.

### 4.3 BoardProofs

Assumptions `SpiFlashAssumption` (sectors are whole pages of at least two bytes, a
sector follows TP-Link's, typed lines are commands), `ContentsAssumption` (memory
has a value for every cell copied), `CopyAssumption` (copies go to the flash).

* `IInv = TypeOK /\ EraseInv /\ WriteInv`: the operation in progress belongs to the
  command being run, an erase has only named sectors left, and a write has not
  begun or is past its first page. The last part is needed because a page program
  may go around: `HitWithin` shows that it then only hits cells that the copy has
  already passed. With `OnlyWorking` this gives `OthersSafe`.
* `ErasedSafe` adds `ProgInv`, for every line that erases and copies n bytes from
  the start of a sector: what the erase has passed is erased, when it ends
  everything the copy will write is, the copy moves in whole pages
  (`StartOnPage`, `PagesAdd`, `HitAhead`), and what is ahead of it is still erased.
  `ComposedErase` is the arithmetic of the rounding: if the copy is not refused,
  neither is the erase, and it covers the copy.
* `LineSafe` adds `LineInv`. Its heart is `DoneSoFar`: while no command of the line
  has failed and the line erases what it programs, the flash is, between two
  commands, what the commands so far mean (`AtRest`); in an erase, that with the
  sectors passed erased (`Erasing`); in a copy, that with the bytes written so far
  (`Filling`). `EraseCovers` says that an accepted erase covers *all* that its
  command names (the converse, `EraseWithin`, serves `OthersSafe`), `HitExact` that
  a program from the start of a page stores each byte at its place. The other parts
  are that copies start on a page, and `BlockCopied`: what `setmac` has in memory is
  the block it read, but for the address. `SetMacMeans` then computes what its line
  means. The meaning of a line is a function defined by recursion on its commands;
  that it exists is proved (`AfterExists`) with `SetInduction`.
  The hypothesis `PagedCopies` is needed: a copy that starts inside a page goes
  around it (3.2). `SetMacAlone` is about the statement, not the code: a user who
  types `setmac`'s line copies whatever is in memory, and a TP-Link sector at 0
  would make the line of the U-Boot upgrade the same.

`MemoryExact` is about the specification that the run checks, from
`MemoryAssumption` and `MemTestAssumption` (a region lies in memory, there are more
data lines than address lines). `BoardInv` is one invariant for each of two parts.

* `MemInv`, of the commands: `CopyIsForward` and `ShowsInTurn` with the types and
  `GoesOn`, that what Enter repeats an `md` with is what the last line of it showed,
  also after an `mm` on the same line. `cp` is a recursion on its objects. `OneObject`
  is the step: when the places overlap upwards, an object that was already
  overwritten holds what lies one period below it, and as both places are aligned to
  the size of the objects, a period is never shorter than an object. `CopyIs` runs the
  steps (`Along`).
* `MemTestInv`, of `mtest`. A pass is a script of accesses; `RanIs` gives the runs
  in between, `CourseKeeps` carries a fact along them, `FailedSomewhere` says that a
  run which did not fail passed every check. A script of writes leaves in each cell
  what the last write to it stored (`Written`), one of reads fails exactly where a
  cell differs (`Checked`).
  - Two words that are the same cell: the quick test writes them different values
    (`Different`, for there are more values than words), so that one pass is enough;
    the alternate test numbers them (`NumbersAre`).
  - A stuck bit: a pass misses it only if all words it affects are given its level.
    The next pattern is the complement or the negative of this one. After a
    complement the increment turns round too, so that every word gets the complement
    of what it had (`Turn`); after a negative a word may get the same bit once more,
    but the pattern that follows is not negative (`NotBoth`). Hence `QuickInv`: a bit
    stuck and not found says how the passes so far agreed with it, which two passes
    from 0, or three from any pattern but the one that is its own negative, cannot
    have done. The alternate test inverts every word.
  - Good memory never fails (`SweptGood` and its like), so nothing else is found.

### 4.4 TftpProofs

Assumption `TftpAssumption`: counts are numbers, `netretry` is one of its values.

* `WaitInv = Types /\ Timed`, for any number of devices: whenever the loop is
  polling, the time handler that is set belongs to the state and its age is within
  its bound, or an address request is out whose tries are counted. One has to know
  which handler belongs to which state through `NetStartAgain` inside a receive.
* `LoopInv` and `ImageInv = Transfer /\ OnTheirWay /\ AckedIsStored /\ Loaded`.
  `OnTheirWay` is the part that makes it inductive: `Good(mem, packet)` says, of
  every packet still on its way, late or repeated, what its existence tells about
  memory: a data block n of a transfer was sent because everything before it had
  been acknowledged, so everything before it is stored; an acknowledgement of n was
  sent because block n was. Memory only gains blocks of the file, so that this stays
  true of packets of transfers given up long ago. `Transfer` says the same of the
  client's variables: the block it will acknowledge is stored.
* `OneDevice` is `NDev = 1`, `netretry = "yes"`, and a file shorter than the block
  counter. The first two are needed because with two devices or another
  `netretry` a block is acknowledged that is not stored (3.2), the third because a
  repeated block 0 moves the rest of the file (3.2).

### 4.5 FailsafeProofs

Assumption `FailsafeAssumption`. `FailsafeInv = ServerInv /\ ClientTypes`; its parts
are `ConnectionsOK` (no two connections serve one port, the counters of a
connection relate to what its client sent), `OnePost` and `PostOnce` (one
connection at most is an upload's, and only one upload ever begins), `Uploads` with
`UploadOK` (while an upload runs the shared variables are *its* variables: what is
stored is a prefix of its file of exactly the length counted, the next segment taken
is the next chunk), `Complete` (when `webfailsafe_post_done` or the ready flag is
set, memory holds a whole file of permitted size). The lemma for a step of `Input`
goes through `uip_process` state by state, and in the established state through the
branches of `httpd_appcall`.

`OneUpload` is `MaxPosts <= 1` with sizes that fit in memory. Any number of other
clients, connections, requests, losses, repetitions and aborted requests remains.
It is needed: with two uploads `ReadyWhenComplete` is violated (run `failsafe_two`).

### 4.6 NetworkProofs

* `EthInv` has three parts. Until a packet handler starts again (`EthKept`): only the
  engine of the current device runs (`OnlyCurrentRuns`); for every device, `next_rx`
  is at the slot where the engine's full descriptors begin, and these follow each
  other around the ring (`AllInStep`, `InStepBy`); the buffer of every full descriptor
  holds the bytes it announces (`BuffersIntact`); `ag7240_recv` in progress is the
  current device's (`RecvAtCurrent`). The device ring is the registered devices in
  order (`RegisteredIs`), from which follows that each is found by its name. After
  such a restart, from the next start of a loop on, the current ring and the engine
  agree again (`CurrentInStep`), whatever the engine of the other device does; that
  start is the only way back, and never to "never" (`NeverBefore`). In any state the
  types and what makes a device be found (`EthTyped`). The one hypothesis is that
  `MinLinks` is not 0, for with every cable out `eth_init` sets up no ring; what the
  loop does then is modelled in `Tftp`.
* `AnswersReach` follows from the table's uniqueness: no address has two entries,
  which each branch of `uip_arp_update` keeps, the replacement of the oldest
  entry included.
* `DhcpInv`: every acknowledgement that was ever sent has its request, and its
  server leased the address (`AcksLeased`); no leased address is another client's
  (`LeasedOnce`); the loop ends with success, or goes on to TFTP, only when the
  client is bound (`SuccessIsBound`), and then to an address leased under the
  present identifier (`BoundToServer`). Messages are never taken back, so loss,
  delay, reordering and repetition are all covered. That servers conform is how
  `Acknowledge` and `OtherClient` model them, not a fact of this code.
* `NfsInv` follows a load (`OnTheWay`): unless a relative link's name grew, the path
  in hand leads, link by link, to the file that was asked for and to no other
  (`Leads`, `Reaches`); whether or not it did, the blocks stored are those of the file
  whose handle is held, up to `offset`, and only an unmount follows the last block.
  That a late or repeated reply does no harm rests on the identifiers: no two calls on
  the way carry the same (`Numbered`), what carries the identifier of the last call is
  this call or what the server answers to it (`Asks`), and no older MOUNT of this load
  can still reach the server (`NoMount`). Links may form cycles, of which nothing is
  assumed; `nfsAsked` follows as many links as there are paths, and by the pigeonhole
  principle nothing that is reached at all takes more (`ChainIsShort`). Without the
  server's address nothing of a load has left the board (`Waiting`), so that the load
  may begin again from the same path (`Fresh`). `NfsAssumption`: directories and names
  are finite sets, every name fits in the buffer with its two ends.
* `ProbeInv`: both VLANs are those of the last packet read to its end, and announced
  as such as long as no packet was read out of step (`VlanSettings`), and a timer of
  PING or SNTP that runs beside an address request has less left than the request
  (`InTime`). `TimersAssumption` is the code's numbers: 10 seconds for both, against
  four periods of 5 seconds before the request gives up (`net.c:103`, `ARP_TIMEOUT`
  and its count). Were it the other way round, `NetStartAgain` would start PING again.
* `BootpInv` has two halves. The first is about bytes: what `BootpVendorProcess` and
  `DhcpOptionsProcess` find in the bytes of any sequence of options, with zeroes
  between them for the former and as far as the first zero for the latter (`UpToPad`),
  are those options (`OptionsAreFound`). Each option begins where the ones before it
  end (`Upto`, `StandsAt`), the step from it leads to the next one (`LookTakes`), and
  a pad is one byte that is skipped. The walk is a recursive function over the place,
  shown to exist and to be the only one of its kind. The second half is about their
  meaning (`Knows`), as long as nothing was misread: of each code the first option
  taken counts with BOOTP, the last with DHCP (`CountsAt`), however many replies they
  came in, and no option touches another one's field. For the requests `AskedAsState`
  says which one the client sent in which state. `BootpAssumption` has three parts
  that are not sizes: an option has at least a byte of data, no server announces the
  address 0, which the program takes for "not known", and a reply gives an address.
* `CommandsExact` puts the four together: one command runs, and leaves the
  variables of the others alone (`CommandsAlone`), so that `DhcpInv`, `BootpInv`,
  `NfsInv` and `ProbeInv` are kept side by side.

### 4.7 ShellProofs

`ShellInv = ShellTypes /\ StackOK(stack) /\ CallsFit /\ LineJudged`. `StackOK` says
how calls nest: `run_command` alternates with `do_run` and `do_bootd`
(`Alternate`), what a call still has to do is of its kind, commands or variables
(`TodoFits`), from a `bootd` inwards every call carries the flag (`FlagPassed`), so
that there is one `bootd` at most (`OneBootd`), and a command that called something
is the first of those its caller has left (`InProgress`). `CallsFit` says in which
phases of `main_loop` commands run, and that no key is waiting when one is about to
start. `LineJudged` is the judgement of the line: what Enter will repeat is earned, or
some call on the stack is bound to return failure or "not repeatable" (`Doomed`),
whatever the commands to come do. The variables may be redefined at any time, so
that nothing is assumed of the lines of a call that is yet to be made.

### 4.8 BootProofs

* `LzmaInv` adds `RepsInside` to the types: each of the four distances is 1 or at
  most `nowPos`. Only a new distance is checked by the code; short repetitions,
  repetitions of older distances and matched literals are not, and are inside
  because every distance was checked when it was new and the output only grows. At
  the start all four are 1 and nothing is read before something was written.
* `StartInv` with `LayoutDescends` (each region is below the one reserved before it)
  and `SizeIsFound`. `EnoughMemory` is an assumption of `StartUp`: the memory has
  room for both programs and their stacks, which no code checks.
* `SwitchInv` follows one MDIO command through four places: the task that wants it
  (`AccessFits`), the access, the MDIO register and the switch (`OwnCommand`: when
  the busy bit is clear while an access waits, its own command was carried out).
  What was read is then true of the link during this check (`ReadIsTruthful`), which
  each step of `athrs26_phy_is_up` turns into a count between the links that were
  up all the time and those that were up at some time (`LinksCounted`). That
  `isPhyAlive` of a port not counted yet is worthless, left over from an earlier
  check, does no harm: it only decides which register is read.
  `MacOK` needs that `duplex` is what the MAC was set to, as `ag7240_check_link`
  writes the register only when the mode changed. Steps behind a read that gave up
  after 824 looks are not in the model (3.2). `SwitchAssumption` says that the PHYs
  of a unit are different, as in `athrPhyInfo`.
* `BitOpsInv` says with `WordIsFresh` that a word which may be stored was made from
  what memory still holds: with LL and SC because every store breaks the other's
  link, otherwise by `Excluded`, for then nobody else is between a load and a store.
  So every store continues the sequence of the operations done so far (`OneByOne`,
  of which there is only one, `OneByOneIsUnique`).

### 4.9 What the proofs do not reach

* Liveness (`TransferCompletes`, `EveryoneServed`, `UploadIsFlashed`, `CallsEnd`,
  `ToolsEnd`, `CommandsEnd`, `LineReturns`): TLAPS has no rules for fairness.
* What recursive definitions compute for every input. Where an invariant needs
  induction on numbers it is done with a set in the place of the formula
  (`LeastNumber` in `TftpProofs`, `SetInduction` in `BoardProofs`); modules with
  RECURSIVE operators (`BootLinux`, `CommandLine`, `Lists`, `MkImage`) cannot be used
  under TLAPS at all. So `ImageIsJudged`, `KernelIsImage`, `LineIsExact`,
  `DecodedIsEncoded` and `LibraryIsExact` are checked by TLC only.
* `OnceTriesAll` does not hold for all constants (two errors in one poll, 3.2).
* `SettingsAgree`, `HeapIsSound` and `HeapImplementsAllocator` could be proved with
  more work; for now TLC checks them.

## 5. What the abstraction leaves out

* Data: packets, blocks, chunks and environments are model values; checksums
  are right or wrong; formats are parsed or not. `LineExact` and `ImageCorrect`
  tell every cell and block apart, so that misplacement is seen. The parts whose
  task is a conversion (options, words, numbers, sums, dates, the LZMA coder) are
  modelled by what they do, on small widths.
* Time is kept as ages of the running timeouts, in ticks.
* 32-bit arithmetic: lengths near 2^32 (`common/flash.c:68`) are out of the
  instances' range. Widths are kept where a wrap decides something: the block
  counter, checksums, the sums of `mtest`.
* Memory is flat and of cells; caches and their flushing have no model.
* Two fw_setenv at a time: the tool has no lock, and promises nothing.

## 6. Plan

Done: the modules of section 2 with their runs; the theorems of section 4: of the
properties that are not liveness, every one of the transfer, the web upload, the
environment tool, the netconsole, the flash, the memory commands, the driver, the
switch, the ARP table, the shell, the image loader, the updater and the clients (BOOTP, DHCP, NFS, PING, CDP,
SNTP), except `OnceTriesAll`, which holds on instances only.

Next, in this order:

1. `Heap`: `HeapIsSound` (chunks tile the arena), on which the refinement rests.

## 7. Not modelled, and why

* `cpu/mips` (but the driver), `lib_bootstrap`'s start code, DDR training, LEDs,
  caches: register writes in a fixed order before anything else runs.
* `common/cmd_net.c`: the parsing of arguments before NetLoop starts; `go`, `reset`,
  `mdc`, `mwc`: nothing to state about them.
* The transmission of `ag7240.c` and its MAC registers; the switch's resets and port
  registers: written once, answered by hardware.
* `net/uip-0.9/main.c`, `tapdev.c`: uIP's own host program, not compiled;
  `uip_reass`: not built.
* `fs.c`, `fsdata.c`: the pages of the failsafe server are data.
* `tools/bddb` (a PHP board database), `easylogo`, `logos`, the SREC and address
  converters: unrelated to the device, one pass over a file.

The notes of the components in `PROJECT.json` say for each part what is left out.
