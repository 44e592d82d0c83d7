# Verification of the SM-13 fixture controller (rema)

The repository is the firmware of a stepper-motor remote terminal unit: an LPC4337 board
that moves three axes (x, y, z) on commands received as JSON over TCP. It runs FreeRTOS
10.0.1 (`src/freertos`), lwIP (`src/lwip`) and the application (`src/nfc`). This
directory holds its TLA+ specification, the configurations TLC checks it with, and the
theorems TLAPS proves about it.

Reading order: section 1 for the system, section 2 for the modules and how they
correspond to the code, section 3 for what the runs show, section 4 for what is proved,
section 5 for what is left.

## 1. The system

### 1.1 Who runs

| Actor | Priority | What it does |
|---|---|---|
| `GPIO0..2_IRQHandler` (encoders.c) | above all | `++count_z/b/a` on an encoder edge |
| `TIMER1..3_IRQHandler` (x/y/z_axis.c) | one NVIC priority, so they do not nest | `mot_pap_isr`: one step edge, or the end of the movement |
| `ETH_IRQHandler` (lpc18xx_43xx_emac.c), SysTick | kernel's own level | wake the EMAC tasks; count a tick |
| `tcpip_thread`, `vPacketReceiveTask`, `vTransmitCleanupTask` | 4, time-sliced | packets, TCP's timers, the calls of other tasks |
| `tcp_server_task` (tcp_server.c) | 3 | one connection at a time: recv, `json_wp`, execute the commands in order, send |
| `mot_pap_supervisor_task` (mot_pap.c) | 2 | per message of a queue of length 1: stall detection, acceleration ramp, restart of the timer |
| `vStackIpSetup` (lwip_init.c) | 1 | reads the settings, starts lwIP, then polls the PHY for ever |
| `mem_check_task` (mem_check.c) | 0 | walks the heap's debug lists every 5 s |

The priorities decide which interleavings exist. An ISR can come between any two
accesses of a task. The TCP task can preempt the supervisor anywhere. The supervisor
runs only while the TCP task is blocked: in `recv()`, or in the `vTaskDelay()` of 500 ms
that a reversal of direction takes *inside* a command. The link monitor runs only while
both are blocked.

### 1.2 Components

| Component | State | Operations | Hard behaviours | What makes it correct |
|---|---|---|---|---|
| Stepper motors (mot_pap.c, tmr.c, x/y/z_axis.c) | `struct mot_pap` x3, timers, supervisor queue | AXIS_FREE_RUN, AXIS_FREE_RUN_STEPS, AXIS_STOP, ISR, supervisor | ISR against command against supervisor; a delay inside a command; a queue of length 1 shared by three axes | exactly the edges asked for; a stopped or stalled motor stays stopped; ramp in range; every move ends |
| Encoders (encoders.c) | `count_a/b/z` | GPIO ISRs | preempt the timer ISR | stall detection sees real movement |
| Relays and pins (relay.c, gpio.c) | GPIO levels | main power, spare LED | two owners of one pin | a pin means one thing |
| Network commands (net_commands.c, json_wp.c, tcp_server.c) | JSON values, the answer | `cmd_execute`, request loop | split and joined segments, partial sends, out of memory, missing parameters | each command once, in order, its answer under its name |
| Settings (settings.c, eeprom.c) | EEPROM page | erase, write, read at boot | power lost between erase and write | boot finds old, new or default settings, never a mixture |
| Debug log (debug.c, debug.h) | queue of 10 heap strings | `lDebug`, LOGS | full queue, failed allocation | every string freed exactly once |
| Heap (freertos/src/heap_4.c, locally changed) | free list, `allocList` | malloc, free, integrity scan | scan against malloc; full table | free list sorted and coalesced, bytes conserved |
| EMAC driver (lwip/src/arch/lpc18xx_43xx_emac.c) | RX/TX descriptor rings | queue, receive, send, reclaim | DMA against tasks against ISR | ring indexes bracket the descriptors owned by the DMA |
| sys_arch (lwip/src/arch/sys_arch_freertos.c) | mailboxes, semaphores | post, fetch, signal, wait | timeouts, full mailbox | no message lost or duplicated |
| Link monitor (lwip_init.c) | link state, spare LED | PHY poll | spins at priority 1 | link state follows the PHY |
| One-wire, temperature (one-wire.c, temperature*.c) | bus search state | search, read, CRC | retries, timing | every device found once; not started by `main.c` at this commit |
| FreeRTOS kernel (tasks.c, queue.c) | ready, delayed and event lists, tick, queues with their locks | block, wake, switch, send, receive, take, give, inherit | an interrupt between any two critical sections; the tick wraps | no wake-up lost, the highest runs, deadlines kept, no inversion |
| lwIP's TCP (tcp.c, tcp_in.c, tcp_out.c) | `tcp_pcb` with its queues, windows and timers | segments, timers, write, recved, close | lost, repeated, reordered segments; closed windows; wrap | two byte streams; the announced window never shrinks; all arrives |
| lwIP's netconns and sockets (api_msg.c, api_lib.c, sockets.c) | mailboxes, `refused_data`, `last_err` | accept, recv, send, close; callbacks of TCP | a full mailbox, a connection that breaks between a test and a wait | data in order, the end last, no sleep without a wake-up |
| JSON library (parson.c) | | vendored | | taken as given |

How they meet: the TCP task calls the commands directly, so it writes `struct mot_pap`
and the timers without a lock; the timer ISR reads and writes the same struct; the ISR
tells the supervisor through the queue; the supervisor writes the ramp, the timers and
the main power relay. There is no mutex, no critical section and no answer from the
supervisor to the TCP task. All the properties of the motors are about this sharing.

A request's way to the commands is a chain of hand-overs: the DMA stores a frame in a
descriptor and raises an interrupt; the interrupt gives a semaphore to
`vPacketReceiveTask`, which posts the pbuf to `tcpip_thread`; TCP puts the data in order
and posts it to the mailbox of its netconn; `tcp_server_task` fetches it. Each link has
a module, each can be full, and each must wake the next.

`PROJECT.json` lists the hazards at their lines, with the property that covers each.

## 2. The modules

| Module | What it is |
|---|---|
| `MotPap` | the stepper-motor core: commands, ISR, supervisor, encoder, link monitor; its properties, its inductive invariant, and the mutants its properties are tested with |
| `AxisMoves` | the abstract promise: an axis at rest takes a command, gives its edges one by one and rests at its goal or is tripped |
| `MotPapMoves` | the refinement mapping from `MotPap` to `AxisMoves` |
| `MCMotPap` | the instance the passing runs check |
| `MotPapClaims` | what comments of the code say and the code does not do; one violated property per run |
| `MotPapProofs` | type correctness, the inductive invariant, the four safety properties and the refinement, proved |
| `Heap4` | the heap: pvPortMalloc and vPortFree on the block headers, with the local debug table and canaries |
| `Allocator` | the abstract promise of the heap: a block nobody else has, a refusal only when no gap is large enough |
| `Heap4Proofs` | the invariant of the heap, its table and its refinement, proved |
| `Settings` | the settings page of the EEPROM: save, reset, boot, and power lost at any step |
| `MCSettings` | the instance the run `settings` checks |
| `SettingsProofs` | the invariant of the settings, proved |
| `RingIndex` | the index arithmetic of a descriptor ring |
| `EmacRx`, `EmacTx` | the receive and the send side of the EMAC driver against DMA and interrupt |
| `FrameFifo` | the abstract promise of both rings: a bounded FIFO that keeps nothing inside for ever |
| `MCEmac` | the instance the run `emac` checks |
| `EmacRxStarved` | `EmacRx` with the application that frees the packets; its claim |
| `EmacRxProofs` | the invariant of the receive ring and its refinement, proved |
| `EmacTxProofs` | the invariant of the transmit ring, the chains in it, and its refinement, proved |
| `Tasks` | the scheduler of tasks.c as functions on a record of its variables |
| `Queue` | queues, semaphores and mutexes of queue.c, with tasks, tick and interrupts |
| `Buffers` | the abstract promise of queue.c: bounded buffers that calls act on in one step |
| `QueueProofs` | the invariant of the kernel, priorities and wake-ups, and that queue.c implements `Buffers`, proved |
| `DeadlineProofs` | the invariant of the waits with a limit, on top of that of `QueueProofs`, proved |
| `MCQueue` | the instance the run `kernel` checks |
| `Netconn` | mailboxes, refused data and errors between `tcpip_thread` and the server, and the clients |
| `TcpServer` | `tcp_server_task`, composed with `Netconn`, and the mapping to `RequestStream` |
| `RequestStream` | the abstract promise of the server: a stream read in order and to its end, a whole request executed once or denied for want of memory |
| `MCServer` | the clients; the instance of the runs `server` and `claim_eof` |
| `TcpServerProofs` | the invariant of the server, what its clients get and the refinement of `RequestStream`, proved |
| `SeqNum` | sequence numbers and their comparisons |
| `TcpPcb` | `struct tcp_pcb`, `struct tcp_seg` and their queues |
| `TcpOut`, `TcpIn` | tcp_out.c and tcp_in.c as functions on a pcb |
| `Tcp` | one connection: TCP's handlers and timers, the calls above, a client and a network that fails |
| `ByteStream` | the abstract promise of TCP in one direction |
| `MCTcp` | the scenarios of the runs `tcp` and `claim_wrap` |

The components are composed where they share state: commands, ISR and supervisor in
`MotPap`; server, netconns and clients in `TcpServer`; pcb, netconn, task and client in
`Tcp`; scheduler and queues in `Queue`. Elsewhere the promise of one is what the next
one takes for granted: `Netconn` takes from TCP that data comes in order and once, which
is `ByteStream`; `Tcp`, `Netconn` and the EMAC modules use mailboxes and semaphores that
act in one step, which is `Buffers`. The motors allocate nothing, and the settings are
written by a command that ends in a reset.

### 2.1 MotPap: state

| Variable | Code |
|---|---|
| `axis[a]` | the `struct mot_pap` of an axis, with the code's field names (`MotPapStruct`); fields nobody reads are left out (`freq_increment`, `freq_decrement`, `half_steps_to_quarter`, `offset`, `last_dir`) and so are `step_time` and `ticks_last_time`, see below |
| `tmr[a]` | `struct tmr`: `started` is "counting with its interrupt enabled", `freq` the rate its match register was last set for |
| `pin[a]` | the level of the direction pin, named by the direction it means |
| `queue` | `mot_pap_supervisor_task_queue` |
| `sup` | the supervisor's program counter and locals: `me`, the first operand of the stall comparison (`pos`), the frequency being computed (`n`), `first_half_passed` (`half`) |
| `tcp`, `cmd` | where the TCP task is inside a command, and the command's arguments |
| `power` | `relay_1` |
| `stall_detection`, `count_a` | the globals of the same names |
| `cmds` | bound only: commands accepted so far |

### 2.2 MotPap: actions

A command is split where an ISR or (in the delay) the supervisor can come between two
accesses that matter to it: clearing the flags (`BeginFreeRun`, `BeginSteps`), the test
of the reversal (`TestReversal`), stopping the timer (`HaltToReverse`), the delay
(`WakeFromDelay`), the type (`SetTypeFreeRun`, `SetTypeSteps`), the count
(`ResetCount`), the request and the ramp (`SetRequest`), and the start (`Launch`).
AXIS_STOP is `BeginStop` and `FinishStop`. Accesses that nobody else can see between are
one step: the three calls of the launch (after `tmr_stop` the axis has no interrupt, and
the supervisor is of a lower priority), and the fields only the supervisor reads.

`mot_pap_isr(a)` is one step, because nothing that touches the same fields preempts it:
`IsrHalt` when the movement is over, `IsrPulse` when it is not.

`mot_pap_supervisor_task` takes a step per access to what others change: receive and
read `posAct`, count towards a stall, mark, cut the timer, cut the power; check
`stalled` and `already_there`; first half; accelerate; brake; `tmr_stop` and
`tmr_set_freq`; `tmr_start`.

`EncoderEdge` is `GPIO2_IRQHandler`. `LinkChange` is `relay_spare_led` called from
`vStackIpSetup`: its pin is also the X axis's direction pin.

### 2.3 What is abstracted

- `tmr_stop`, `tmr_set_freq` and `tmr_start` are atomic. Between the register writes of
  one of them an ISR can be pending or cleared, which is the same as the ISR coming just
  before or not at all.
- A timer of rate 0 gives no interrupts: its match register is 0, which a counter that
  starts from 0 after the reset does not meet again in any reasonable time.
- Ticks: whether `step_time` is over since the last retiming is a nondeterministic
  choice at every supervision.
- An int wraps at `WordHalf` where it counts edges and at `FreqHalf` where it is a
  frequency, both 2^31 in the firmware and scaled apart for TLC. The frequencies are
  `int32_t`: what overflows wraps, and `requested_freq / step_amplitude_divider` is a
  division of unsigned numbers, put back into an `int32_t`.
- Reading `mot_pap_free_run_freqs[8]` gives any of `OobFreqs`, any `int32_t`, negative
  ones too; `tmr_set_freq` takes its argument as unsigned, so that a negative rate is
  refused like one that is too high. Reading the uninitialised
  `distance_left` (a free run) makes the comparison either way.
- The log messages, and the text of names and answers, are left out.
- The closed loop is left out: `axis_closed_loop_cmd` answers and moves nothing, so
  `MOT_PAP_TYPE_CLOSED_LOOP` is never set.

### 2.4 Any client, and a patient one

The firmware refuses no command to an axis that still moves, and nothing tells a client
whether it does. With `Spec`, clients send anything at any time. Many of the properties
one would expect are then false (section 3.2). `PatientSpec` is the same machine with a
client that commands a move only when the axis is at rest (timer stopped, no message
queued, not being supervised), does not use AXIS_STOP, asks for a speed that has a
frequency and gives a positive divider. What the firmware does keep, it keeps for that
client, against every interleaving of ISRs, supervisor and encoder and against commands
to *other* axes.

### 2.5 Heap4, Allocator

| Variable | Code |
|---|---|
| `mem[a]` | the `BlockLink_t` at address `a`: `next`, `size` (without its top bit), `owned` (the top bit), `canary` (the head canary is there) |
| `allocList` | the table of the same name |
| `held` | the blocks the tasks hold: not in the code, which forgets them |
| `xFreeBytesRemaining`, `xMinimumEverFreeBytesRemaining` | the same |
| `last` | what the last call asked for and got |

A call is one step, because both run with the scheduler suspended and no ISR allocates.
The algorithms are those of the code on pointers: the first fit found by walking the
list (`Candidates`), the split (`Take`), the insertion with its two merges in the order
of the code (`Insert`), the table shifted by one on a release (`RmFromList`). `Use` is a
task that writes all over a block it holds, so that a header left inside a block is
never there by luck. `Init` is the heap after the first call's `prvHeapInit`.

Abstracted: owners (`xOwner`), the leak search of `vPortMemoryScan`, and the tail
canaries, which no modelled task overwrites. Sizes near 2^31 are left out, and with them
the test of the top bit. The assertions of `vPortFree` are in `IntegrityHolds`.

The refinement maps `held` to the blocks in use, each as long as its header says, so
`ImplementsAllocator` says that first fit, split and merge never hand out an address
twice and never refuse a request that a gap between the blocks could take: merging
leaves no two gaps that touch.

`vPortCheckIntegrity`, which only reads, is not modelled: `IntegrityHolds` says what it
would find between two calls. It runs at priority 0 and does not suspend the scheduler,
so it may also find what two calls leave half done; section 3.3 says what then happens.

### 2.6 Settings

| Variable | Code |
|---|---|
| `page`, `register` | the cells of EEPROM page 1 and the page register stores go to while automatic programming is off |
| `pc` | where the TCP task is in `settings_save` and the reset that follows; `off` when the board has no power or is in reset |
| `used` | what `vStackIpSetup` gave to lwIP and to the server |
| `old`, `new`, `done` | histories: what the page held before the last save, what it was to hold, and whether it was written |
| `saves` | bound only |

`Receive` is NETWORK_SETTINGS up to the call of `settings_save`; then the words of the
register are cleared (`EraseWords`), the page is erased and programmed from it
(`ErasePage`), and the same with the settings (`WriteWords`, `WritePage`); `Reset`
follows and `Boot` reads the page. `PowerFails` may come at any step, and in the two
steps that copy the register it leaves each word either as it was or as it is in the
register (`Torn`). A word is taken to change as a whole: bits torn within one word would
need the data sheet of the memory, not this code. The same word values may repeat
between saves, and a word may be zero, because an address that does not parse leaves its
word as the stack had it.

### 2.7 The EMAC driver

`EmacRx`. The task `vPacketReceiveTask`, the DMA and `ETH_IRQHandler` share the STATUS
words, `DMA_STAT` and `RxSem` without a lock, so the task takes a step per access to one
of them: `Wait` (the semaphore), `Test` (OWN), `Input` or `InputNothing`
(`lpc_low_level_input`), `Requeue` (a bad frame's pbuf), `RefillOne` and `RefillEnd`
(`lpc_rx_queue`), `Poll` (the poll demand), `Deliver`. The DMA is `Store` and `Suspend`;
the interrupt reads `DMA_STAT` in one step and clears what it read in the next, and the
DMA may set bits between. Memory is a set of buffers, so `pbuf_alloc` fails when lwIP
has them all.

`EmacTx`. `lpc_low_level_output` finds room, locks, fills a descriptor per pbuf of the
chain and gives the first one last (`FindRoom`, `Lock`, `Fill`, `Give`, `PollDemand`,
`Unlock`); `vTransmitCleanupTask` waits, locks and reclaims a descriptor at a time. A
packet has a reference count, and lwIP may send it again or drop it while it is in the
ring. A packet in slow memory is sent as a copy.

Abstracted: what a descriptor held before it is queued anew is forgotten. Left out:
`xTXDCountSem`, whose take with no time to wait never blocks; packets with more pbufs
than there are descriptors, for which the loop at line 424 polls for ever; speed, duplex
and the PHY. The rings share no variable but `DMA_STAT`, whose foreign bit `Received`
sets in `EmacTx`, so `MCEmac` lets one of them have traffic at a time.

### 2.8 The kernel: Tasks and Queue

`Tasks` holds the functions of tasks.c on a record of its static variables: the ready
rings with their end marker and index, the two delayed lists, the event lists in the
order of priority, the pending list, the ticks put off while the scheduler is suspended,
the inherited priorities. `Queue` makes them steps. A step is what the code does in one
critical section; an interrupt may come between any two, another task between any two
with the scheduler running. A call that cannot act goes through `Enter`,
`vTaskSuspendAll`, `Lock`, `Place` or `TryAgain`, `prvUnlockQueue`, `Resume`, and around
the loop again, as in queue.c; `call[t]` keeps its locals, among them the `TimeOut_t`.
`left[t]` is a history: the ticks that remain of what the caller asked for.

Merged: the two critical sections of `prvUnlockQueue` (interrupts do not touch what the
second looks at); the application's decision to call with the call's first critical
section; PendSV with the end of the critical section that requests it. A task kept in
the middle of a call while the count wraps twice, 98 days in the program, is treated as
late.

Mutexes nest in one place: `lpc_tx_reclaim` (lpc18xx_43xx_emac.c:740-800) frees the
packets that were sent, and gives `xTXDCountSem`, with `TXLockMutex` taken, and
`pbuf_free` takes `mem_mutex` (mem.c:335). `program[t][m]` is what a task calls within
the mutex m, `Menu` lets it do that or give back the one it took last, and `held[t]`
counts. FreeRTOS inheritance does not nest: a holder that has inherited and then waits
hands nothing on, and takes back its own priority only with its last mutex
(tasks.c:3801, :3908). So `NoInversion` would be false if a task of less than the
highest priority held one mutex and waited for another. The cleanup task is not one:
its priority is `TCPIP_THREAD_PRIO - 1` (lpc18xx_43xx_emac.c:82), `TCPIP_THREAD_PRIO` is
`configMAX_PRIORITIES` (lwipopts.h:129), which `xTaskCreate` cuts to the highest there
is, also `configMAX_PRIORITIES - 1` (tasks.c:914-916), so that no task is above it and it
never inherits. `NestingAssumption` says just that: who calls anything with a mutex taken
has the highest priority. It is an assumption on the tasks' priorities, and changing
either define breaks it. The locks of the UART and of the log are left out.

Left out: timed waits for mutexes and timed posts, since the program has none
(`CallsAssumption`), and with them `vTaskPriorityDisinheritAfterTimeout`; creating and
deleting; timers, event groups, stream buffers.

### 2.9 The server: Netconn and TcpServer

| Variable | Code |
|---|---|
| `pcb[c]`, `last_err[c]`, `recvmbox[c]`, `refused_data[c]` | of the connection's netconn and pcb |
| `acceptmbox`, `listening` | of the listening netconn |
| `server`, `sock`, `rx_buffer`, `lastdata`, `request` | where `tcp_server_task` is, and the locals of it and of `lwip_recv` |
| `to_send`, `got` | the client: segments not yet handed over, and what came back |
| `executed`, `replies`, `unanswered` | histories: the requests `json_wp` executed, the units that began what it made answers to, and the requests it had no memory to parse or to answer |
| `gave_up`, `joined` | histories: the clients that gave up waiting, and the units handed over behind another segment's |

`tcpip_thread` is `Deliver` (a segment: `tcp_input` from the refused data on),
`QueueOoseq`, `tcp_fasttmr`, `Establish` and `Refuse` (a handshake), `err_tcp`.
`QueueOoseq` is a segment that comes before the one it follows, because the network
delays that one or because it was dropped for refused data: `tcp_receive` then hands
over both in one chain of pbufs with the push of the first (`Chain`), and so does this
model; a segment may wait behind another that waits. `TcpIn` has the queue itself. The
server takes a
step up to the next thing it shares with it: `netconn_accept`, `do_getaddr`, `RecvRest`,
`TestError`, `Fetch`, `json_wp`, `SendHeader`, `SendBody`, `do_close`, `do_delconn`. The
test of `last_err` and the fetch that may block are two steps, as in
`netconn_recv_data`. When the connection at the head of `acceptmbox` has broken before
it is accepted, `accept` fails and the task deletes itself (`CleanUp`, "deleted"): the
code does that, and from then on nobody is served.

A request is cut in units, so that a segment can carry a part of one or parts of two;
what it says is left out, and an answer is a header and a body. `json_wp` has three
outcomes: what the buffer starts with is no object, or there is no memory to parse it
(`NotParsed`: nothing is executed and nothing sent); it is parsed and the commands have
run, but there is no memory for the answer (`Deny`); or it is answered. An object within
a request (`Nested`) parses as well when a segment begins there: it has no "commands",
so nothing is executed, and it is answered with an empty object. `GiveUp` is a client
that has waited in vain for the answer to what the server has read. A forgotten
connection is ended by keepalive, after two hours: `LWIP_TCP_KEEPALIVE` is 0, so the
options tcp_server.c sets are refused (line 140). `err_tcp` also stands for `tcp_alloc`,
which may abort a connection that is being served to make room for a new one.

### 2.10 TCP

`TcpOut` and `TcpIn` are functions from a pcb (and a segment) to a pcb, with the
source's names: `tcp_write`, `tcp_enqueue_flags`, `tcp_output`, `tcp_rexmit_rto`,
`tcp_rexmit_fast`, the probes; `tcp_process`, `tcp_receive` with its acknowledgements,
its window updates, its out of sequence queue. `Tcp` makes one step of each thing
`tcpip_thread` does (a segment, a timer, a call from the netconn layer), puts a client
at the other end that keeps to the protocol, and between them a network that loses,
repeats and reorders. Each scenario of `MCTcp` fixes lengths, initial numbers, the
client's window and how many mishaps of which kinds there may be.

Lengths are in units of which `Mss` make a full segment, and a segment's data are the
numbers of its units, so that a unit lost, doubled or out of place shows. Sequence
numbers are modulo `Modulus`, as `u32_t` is modulo 2^32, and wrap in every scenario.

Left out: active open and active close, which the server never does (so SYN_SENT,
FIN_WAIT, CLOSING and TIME_WAIT cannot be entered); the estimate of the round trip and
the limits of retransmission, which only say when; the time-outs that give up on a peer
that is silent for good (a client that dies here answers with RST); options, urgent
data, checksums; `snd_queuelen` and `unsent_oversize` (a write may find no memory
instead). An old SYN that comes after the end opens no second connection.

EOF is handed over as the code does it, so it may be lost when the mailbox is full
(`claim_eof`). Scenarios for `AllArrives` therefore have the answer depend on the whole
of the client's data, which empties the mailbox before the FIN.

## 3. The runs

### 3.1 Passing runs

| Run | Specification | What it checks |
|---|---|---|
| `patient` | `PatientFairSpec`, two axes, a supervision after every half step | `ExactMove`, `StoppedCannotMove`, `StalledHalted`, `RampInRange`, the inductive invariant `PatientInv`, the refinement `ImplementsAxisMoves`, and `MoveEnds`: a launched STEPS move arrives or is found stalled, and the timer stops |
| `anyclient` | `FairSpec`, one axis, every command, frequencies past the table that are 0, too high or negative | `TypeOK` (a timer never has a rate the drive does not take), and `ArrivedRests`: after the last command an arrived axis comes to rest for good |
| `heap` | `Heap4`, 104 bytes, requests of 0, 4 and 12 bytes | the inductive invariant `HeapInv`, `HeapTiled`, `TableTracks`, `IntegrityHolds`, and the refinement `ImplementsAllocator` |
| `settings` | `Settings`, three words, two saves | `NeverMixed` and the inductive invariant `SettingsInv` |
| `emac` | `MCEmac`, rings of three, three buffers, chains of two | the inductive invariants `RxInv` and `TxInv`, `RefsCounted`, `SentFromLivePackets`, the refinements `RxImplementsFifo` and `TxImplementsFifo` (with their liveness: no frame stays inside), and `OutputReturns` |
| `kernel` | `Queue`, four programs of three tasks, one with one mutex taken within another | the inductive invariant `KernelInv`, `NoLostWakeup`, `HighestRuns`, `DeadlinesKept`, `NoInversion`, the refinement `ImplementsBuffers`, and `CallsReturn` |
| `server` | `TcpServer`, three clients with whole requests, or one whose requests are cut and joined and one that breaks | the inductive invariant `ServerInv`, `NeverStranded`, `AnswersFramed`, `AllAnswered`, the refinement `ImplementsStream`, and `ConnectionsEnd` |
| `tcp` | `Tcp`, seven scenarios | `TcpInv`, `RightEdgeKept`, the refinement `ImplementsByteStreams`, and `AllArrives` |

Bounds of the motors. `MaxCmds` = 2 commands: the hazards of the code are between one
command and what the previous one left behind (a message, a timer, a flag), and with two
axes between one command and one other axis. `MaxCount` bounds the encoder edges; one
edge between two reads is enough to tell them apart. The rates are scaled down together:
`SupervisorRate` 1 or 2 instead of 625, `StallMaxCount` 2 or 3 instead of 40, so that a
move of a few steps has several supervisions and can stall. `Steps` contains a value for
which `2 * steps` fits an int (`WordHalf` 8: 2) and one for which it wraps to a negative
request (5). The divider 2 gives a ramp of two levels. Deadlock is checked everywhere;
the link monitor can always act when all else is quiet.

Bounds of the heap. A block of 4 bytes takes 24 and one of 12 bytes 32, so 104 bytes
hold four of the small ones or three of the large: enough for a free block between two
others, before, behind and on both sides of the one released, for a rest that is split
off and for one too small to be. `Slots` 5 is more than the blocks that fit, so the
table is never full in this run (section 3.3). Deadlock is checked: a call is always
possible, if only of 0 bytes.

Bounds of the settings. Two saves: the second one begins on whatever page the first and
its power failure left. The words of `Words` are 0 and two others, so that old, new and
nothing can be told apart; the defaults are of neither. `settings` stops when the board
is powered and no save is left, so a power failure or a boot is always possible and
deadlock is checked.

Bounds of the EMAC. Three descriptors are the fewest the driver accepts, and enough for
one the DMA owns, one that waits and one that is free. Three buffers run out when lwIP
holds one. Of the packets one is a chain of two and one is in slow memory; with three
descriptors the ring fills in the middle of the next packet. One good and one bad frame
are enough: the refinement tells one frame from the next by its place.

Bounds of the kernel. `portMAX_DELAY` 3: the tick count wraps within every wait of two
ticks begun late. Three priorities, two tasks in the highest. `MCQueue` gives four
programs instead of one in which each task may do anything: in `Exchange` messages go
both ways between the server and `tcpip_thread`, in `Compete` both want `mem_mutex`
while the interrupt keeps `vPacketReceiveTask` busy, in `Press` the mailbox is full,
and in `Clean` the cleanup task takes `mem_mutex`, which the server has, while it holds
`TXLockMutex`, which `tcpip_thread` waits for.
Senders that wait (`Press`) are allowed by `sys_mbox_post` though no task does so today.
Two tasks of one priority that take a mutex again and again can starve one another in
FreeRTOS, because a mutex given back is free until the woken task runs. So the receive
task does not compete for `mem_mutex`, and of a mutex `CallsReturn` speaks only to those
that have no such rival (`Rivals`): of `mem_mutex`, not of `TXLockMutex`, which both the
cleanup task and `tcpip_thread` take.

Bounds of the server. A mailbox of 2 instead of 6 and a buffer of 2 units instead of
1023 bytes, so that four requests overflow the first and one segment the second; a
backlog of one. The clients are described in `MCServer`. Those who come at the same time
(`Parties`) are three that send whole requests, four of which can be joined in any way as
they come out of sequence, or the one whose requests are cut and the one that breaks: all
four at once would take longer than a run should. No fairness is asked of `Establish`, so
that a client who stays away takes nothing from `FairSpec` but behaviours.
Deadlock is not checked: when all clients are done the server waits in `accept`.

Bounds of TCP. `Mss` 2, so that segments are cut and joined; a receive window of two
segments (four in the program) and a send buffer of two (two in the program); a mailbox
of one. At most two mishaps per connection: one that loses something and one that hits
what repairs it. Fast retransmit happens in the scenario with a window of three, whose
small segments give three duplicates; keepalive is needed in the one whose window stays
open by less than a segment when its update is lost. Deadlock is not checked: nothing
happens once the connection is over.

Fairness. The motors (`MachineFairness`): weak fairness of the steps of a command
already begun and of the supervisor, both FreeRTOS tasks that are ready while the tasks
above them block for input, and of the ISR of an axis whose timer runs at a positive
rate, a periodic hardware interrupt; none of clients, encoder or cable. The EMAC: weak
fairness of DMA and interrupt, strong fairness of the tasks, which interrupts interrupt;
none of the network or of lwIP. The kernel: the tick never stops, and a task that runs
again and again gets its steps done; none of the interrupts. The server: weak fairness
of its task, of delivery and of TCP's fast timer, of a client whose patience ends, and
of keepalive for a connection whose host has forgotten it. TCP: what is under way
arrives (or is lost, as often as the scenario allows), both ends do what they can, and
when the network is quiet again and again with a timer running, one of them runs out. In
`Queue` and `Tcp` the enabling conditions are written out instead of ENABLED, which TLC
evaluates slowly for nested handlers; each is ended only by its own step, so the
formulas say what WF or SF would.

Each property has a mutant, a definition that changes the code the way a plausible bug
would (an arrival test off by one, a dropped guard, a forgotten reset, a swapped order),
for which the run finds the property violated.

### 3.2 Claims the code does not keep

Each is a sentence of a comment, stated as a property that TLC finds violated; the
counterexamples need no more than ordinary clients and, for the last one, two lost
segments.

| Run | The comment | What happens |
|---|---|---|
| `claim_stop` | mot_pap.c:182 "if there is a movement in process, stops it" | a message queued before AXIS_STOP makes the supervisor restart the timer; the axis, of type STOP, then never arrives |
| `claim_refill` | lpc18xx_43xx_emac.c:226 "If there are no used descriptors, ... try to setup some descriptors now" | with all memory in packets that wait for the server, the receive task spins at priority 4 on its empty ring and the server, of priority 3, never frees one |
| `claim_eof` | tcp_in.c:362 "If a FIN segment was received, we call the callback function with a NULL buffer to indicate EOF." | the mailbox is full, the NULL finds no room and nobody remembers it; the server waits for ever on that connection |
| `claim_wrap` | tcp_in.c:1466 "check if the remote side overruns our receive window" | two sequence numbers are compared with `>`: near the wrap a segment out of sequence gets a length longer than its data, and `rcv_nxt` moves over units never received |

Three more races of an impatient client have the causes of `claim_stop`, the missing
lock and the delay inside a command, and no run of their own: a STEPS move that arrives
while a free run is being commanded sets `already_there` again, and the free run ends at
its first interrupt (line 77 against 297); a supervisor woken by the delay of a reversal
marks the axis stalled after the command has cleared the mark (75 against 212); and a
call of the supervisor is lost when the queue of length 1 holds another axis's message
(321). `PatientSpec` excludes the first two by its client and keeps the third.

### 3.3 Observations without a run

Met while reading the code for the models; each has no concurrency to explore, or is
outside what is modelled.

Motors (mot_pap.c): line 68 allows speed 8, which reads past the end of
`mot_pap_free_run_freqs` (118); a `step_amplitude_divider` of 0 divides by zero and one
above the frequency makes a ramp of nothing (119); `distance_left` is not initialised in
a free run (267), whose first supervision retimes it to `current_freq`, which a free run
never sets (277); `last_pos` follows `posAct` at every interrupt, so a moving motor can
be found stalled (326); the delay of a reversal is inside the command, so nothing else
is served for 500 ms (110), and a supervisor woken then restarts the timer before the
direction pin changes (85); the link monitor writes `relay_4`, whose pin is the X axis's
direction (lwip_init.c:113).

Heap (heap_4.c): with the table full a block freed leaves the last entry in it twice
(215), and one of them stays after that block is freed; the loop at 176 reads one entry
past a full table; the integrity scan (439) runs with the scheduler running, so a free
block it stands on may be taken or merged, after which it follows a `next` that is none
or asserts a canary nobody overwrote. The link monitor polls without blocking at
priority 1 (lwip_init.c:105), so `mem_check_task` runs only while `vStackIpSetup`
sleeps.

Commands: `axis_` is not initialised when no axis is named (net_commands.c:166); an
address that does not parse is saved as the stack had it (223, modelled in `Settings`);
a missing parameter is a NULL for `strcmp` (343); two commands of one name in a request
overwrite one another's answer (json_wp.c:72), and a second LOGS loses the first's
messages; TELEMETRIA names "cuentas A" and "cuentas Z" the other way round (37-39).

TCP and server: a pcb in LAST_ACK is freed when `snd_nxt` is acknowledged though
`unsent` is not empty (tcp_in.c:781), which may lose the FIN behind a closed window; a
window open by less than a segment and an update that is lost leave only keepalive,
after two hours; `tcp_send_fin` does not count a FIN that joins the last segment in
`snd_lbb`; `tcp_write` fails for ever when the largest window a client announced was 1;
the end read by a `recv` that already has data makes `last_err` fatal, so the answer to
that data is lost (unpushed data only); of two requests that one `recv` returns,
`json_wp` executes the first and the second is gone without an answer, which a client
that sends each in a pushed segment meets when a segment is lost or dropped for refused
data and the one behind it waits (`joined` in `AllAnswered`). No line of the repository
promises more, so it is no claim of section 3.2; a client that waits for each answer
before it sends the next request is safe from it.

## 4. What is proved

TLAPS proves the following for every value of the parameters that the named assumptions
allow.

Motors: any set of axes, inputs and rates (`AxesAssumption`, `InputAssumption`,
`FreqAssumption`, `ParameterAssumption`: X is an axis, inputs are what their C types
hold, two rates the timer takes add up within an `int32_t`, rates and counts are
positive).

- `TypeCorrect` (`MotPapProofs`): `Spec => []TypeOK`, under any client. What it says
  beyond the types is that a timer's rate is one the drive takes, 0 to 300 kHz, whatever
  `int32_t` was read past the table and whatever the ramp overflows to: that is the
  unsigned test of `tmr_set_freq`, and nothing else, since the fields themselves may be
  negative. `TypeOK` is inductive by itself: one lemma per action, and lemmas for the
  arithmetic (`WrappedWord`, `FirstFreqType`, `FreqType`) and the record updates.
- `PatientInvariant` (the same module): `PatientSpec => []PatientInv`, and from it
  `MovesExact`, `StoppedStays`, `StalledStays` and `RampStays`, the safety properties of
  the run `patient`.

  None of the four is inductive. `ExactMove` needs to know that no one restarts the
  count of a moving axis; this holds because an axis under a command is not in flight
  (`CommandInv`), which in turn holds because an axis of type STOP that is in flight has
  `already_there` set (`RestInv`), so that its next interrupt halts it instead of giving
  an edge. `StalledHalted` needs the supervisor's check of `stalled` to be still true
  when it restarts the timer (`SupervisorInv`): only a command clears the mark, and no
  command reaches an axis the supervisor holds. `RampInRange` needs the ramp's fields to
  be ordered (`RampPlanned`) and the frequency the supervisor has computed to suit the
  axis it holds. `CountInv` carries the count: never negative, never above the goal,
  equal to it at an arrival, and an int. `PatientInv` is the conjunction; the proofs
  have one lemma per actor (`PatientBegin`, `PatientTcp`, `PatientIsr`,
  `PatientSupervise`) and, for the axes a step does not touch, the lemmas `OtherAxis`,
  `IsrElsewhere` and `SupElsewhere`.
- `MovesImplemented` (`MotPapProofs`): `PatientSpec => ImplementsAxisMoves`. Under
  `PatientInv` every step changes what the promise sees of at most one axis (`ShownBy`,
  `Untouched`): a command accepted is an `Accept`, which needs the axis at rest, hence
  `RestInv`; its launch is a start; an interrupt of a STEPS move is an `Edge` or the
  `Arrive`, by `CountInv`; of the supervisor's steps only the cut of a stalled axis's
  timer shows, as a `Trip`. All others stutter.

Settings: any words, any defaults that have no zero and any number of saves
(`WordsAssumption`, `DefaultAssumption`, `BoundAssumption`).

- `SettingsInvariant` and `SettingsWhole` (`SettingsProofs`): `Spec => []SettingsInv`
  and from it `Spec => []NeverMixed`. `NeverMixed` speaks of the boot only; what carries
  it is `PageInv`, that the cells hold a part of the old settings and nothing else until
  the page has been erased whole, and a part of the new ones and nothing else after. The
  lemma `PartWhole` says what a boot makes of a part: the whole of those settings or, a
  word being missing, the defaults.

The receive ring: any number of descriptors from 3 on, any memory and any frames
(`RxDescsAssumption`, `BuffersAssumption`, `FramesAssumption`).

- `RxInvariant` (`EmacRxProofs`): `RxSpec => []RxInv`. Whatever the task, the DMA and
  the interrupt do between one another's steps, the descriptors the DMA owns are exactly
  those from its index to `rx_next_idx` (`RingBracketed`), and every pbuf is in one
  descriptor, with lwIP or in the task's hand (`BuffersApart`), so the DMA never writes
  where lwIP reads. `RingBracketed` says that there is an n such that the DMA owns n
  descriptors from its index on (`Brackets(n)`); a frame stored makes it n - 1, a pbuf
  queued n + 1, and a frame taken leaves n alone because the descriptor taken is not
  owned. That last fact is not in the indexes but in where the task is, which `HandInv`
  remembers. There is a lemma per access that moves an index and one (`QuietInv`) for
  all the others.
- `RxRefinesFifo`: `RxSpec => Fifo!Safety`, the refinement the run checks without its
  liveness. What waits inside is the frames from the task's index on, as far as the DMA
  has stored (`WaitsBehind`); a frame stored is put behind them, the one taken is their
  head, and every other step, the requeueing of pbufs among them, leaves them as they
  are.

The transmit ring: any number of descriptors, any packets, chains and reference counts
(the assumptions of `EmacTx`).

- `TxInvariant` (`EmacTxProofs`): `TxSpec => []TxInv`, and from it `PacketsCounted`
  (`RefsCounted`) and `SentLive` (`SentFromLivePackets`). That the count of a packet is
  the sum of its owners is no invariant on its own: the reference of a packet in the
  ring is in the entry of its *last* descriptor, and the descriptors before it are read
  by the DMA while the entry is not yet there. `OutputInv` says how far the call has
  come and what it holds; `RingInOrder` that the descriptors in use are those from the
  reclaimed to the filled index, and that the DMA owns only those; `EntriesFollow` that
  behind every descriptor in use comes, in the ring or in the call's hand, the end of
  its own packet with the reference. `FillInv` and `ReclaimInv` are the two steps that
  change it; for all others there is `QuietInv`.
- `TxRefinesFifo`: `TxSpec => Out!Safety`. What the FIFO needs of the ring is not in
  `TxInv`: it is what the descriptors *say*. `ChainsInv` reads them in the order of
  their places from where the DMA is (`Chained`): each that is given or being filled
  holds one pbuf of a chain, with FS on the first and LS on the last and nowhere else;
  the next one holds the next pbuf or begins a chain; the wire has the part of the first
  chain that is already sent; and no free descriptor has a flag left, without which the
  flags that `Fill` only adds would cut the next chain short. It was checked by TLC, on
  rings of three and four with chains of two and three, before it was proved. With it
  `Give` puts one packet in (`GivePuts`), the `Send` of a last pbuf takes one out
  (`SendGets`), and all else stutters. `ToSend` is a recursive function, so `EndsAre`
  proves first that it has its equations; `EndsSame`, `EndsSkipped` and `EndsShifted`
  say how its value moves with the ring.

The heap: any length, any sizes asked for and in any order, any table
(`HeapAssumption`).

- `HeapInvariant` (`Heap4Proofs`): `Spec => []HeapInv`. `HeapTiled` speaks of the list
  one gets by following pointers; `HeapInv` says the same of the set of free blocks,
  without following: each block's `next` is the least free address above it (`Linked`),
  no free block ends where the next begins (`NoneTouch`), free blocks and blocks in use
  tile the heap (`Tiles`), and the bytes of the free ones are as many as the counter
  says. That the two agree is shown by induction along the list (`FollowShape`,
  `FreeListShape`, `FreeBlocksAre`), which `Heap4Proofs` states for itself as `Induct`,
  for sets instead of operators. `InsertMakes` takes `prvInsertBlockIntoFreeList` apart
  into its four cases (merged before, behind, both, neither) and each part of `Sound`
  has a lemma over them; `UnlinkKeeps` and `SplitKeeps` do the same for `pvPortMalloc`.
- `HeapTiledAlways` and `HeapImplements`: the list is as `HeapTiled` says, and `Spec =>
  ImplementsAllocator`. A refusal is right (`RefusalIsRight`) because a gap lies in one
  free block, which is where `NoneTouch` is needed.
- `TableFollows` and `IntegrityKept`: `TableTracks` and `IntegrityHolds` as long as the
  tasks hold fewer blocks than the table has entries (`Room`). The condition is that of
  the code, which with the table full loses count (section 3.3); in the run, where it
  cannot be full, both hold without it.

The server: any connections, any orderly scripts, any sizes of mailbox, backlog and
buffer (`NULLAssumption`, `SizeAssumption`, `ScriptAssumption`, `BufferAssumption`); for
`StreamRefined` also `ContentAssumption`: requests are told apart by name, so a client
names none twice, and a request's parts come together.

- `ServerInvariant` (`TcpServerProofs`): `Spec => []ServerInv`. The end of a connection
  overtakes nothing and is told to the server only when everything before it was read
  (`AllRead`). What carries this is `InOrder`: mailbox, refused segment and what is
  still to come are one stream in which NULL is last. Its lemmas follow one segment
  through `tcp_input` (`TrypostKeeps`, `HandInOrder`, `RetryInOrder`, `InputInOrder`);
  `Placed` says where a connection may be, so that no other one is touched.
- `NeverStrandedAnySize`: `Spec => []NeverStranded`, from `TaskInv`: when `err_tcp`
  finds no room for its NULL the mailbox is not empty, so the server's fetch returns.
- `AnswersFramedAlways`: `Spec => []AnswersFramed`, from `AnswersInv`, which counts: the
  frames that came back and those the server has still to send (`Owed`) are never more
  than two for each answer made, and exactly two while the connection has no error; each
  is the one its place calls for (`Framed`).
- `AllAnsweredAlways`: `Spec => []AllAnswered`, from `PlainInv`, which says where the
  requests of a client are that sends each in a pushed segment. A pbuf or the server's
  hand carries one request that leads it and others behind it, and those behind are in
  `joined` (`PlainChain`). A request that leads is on its way, in the mailbox, refused
  and waiting, in the server's hand, or done (`Kept`). Since a chain ends `recv` with its
  push, the server never reads one while it has a rest of another (`Desk`); and since it
  closes only when all was read (`ServerInv`), all are done when the end comes (`Closed`).
  What is done is answered, or is in `unanswered` or in `joined`.
- `StreamRefined`: `Spec => ImplementsStream`. What is left to read of a connection is
  what its client has still to send, behind what the pcb refused, behind the mailbox,
  behind what `recv` has of it (`Stream`). `FlattenSeq` joins these: that there is a
  function of its recursion, and what it makes of one more member or one less, is shown
  by induction up to the length (`JoinsExist`, `FlattenAppend`, `FlattenTail`).
  `HandJoins`, `RetryJoins` and `InputJoins` follow a segment through `tcp_input` as the
  lemmas of `ServerInv` do, and `ChainJoins` is two segments handed over as one; a step
  of `tcpip_thread` leaves `Coming` as it is, or cuts off its end: `err_tcp` of a
  connection that is in `broken` from then on (`LoseStep`), `GiveUp` of one that withdraws
  what it has not sent, which it does once (`GivesUpOnce`). `CopyStream` is what `recv`
  does with a pbuf that fits in part, and `JsonRefines` is the step that reads, and
  executes, denies, both, or, for want of a whole request, neither. The server leaves a
  connection only with nothing of it left to read, or broken (`DelconnRefines`). Needed
  of the states are `Cleared` (a new connection starts with nothing of the one before,
  and a closed one has no `lastdata`), `UnreadInv` (a connection that broke has nothing
  on the way, one that gave up nothing but its end, and `rx_buffer` is not overrun) and
  `ChunksInv` (what is left is a piece of what was sent), with which `WholeIsParsed` shows
  that a request is whole exactly when all of it is at the start of the buffer.

The kernel: any tasks and priorities above that of the idle task, any queues, semaphores
and mutexes, any programs within `CallsAssumption` and `NestingAssumption` (section 2.8),
any length of the tick count (`PriorityAssumption`, `TickAssumption`, `QueueAssumption`).

- `KernelInvariant` (`QueueProofs`): `Spec => []KernelInv`. It has five parts, none of
  which holds alone. `ListsInv` is of the kernel's record only: the ready rings hold
  their end and the tasks of their priority, who is ready waits for nothing, and no task
  is in two lists of one kind. `ControlInv` says that the scheduler is suspended by the
  task that runs, in the critical part of its call, and that the task that runs is ready
  and none above it is, except where it has just put itself to sleep. `CallsInv` ties
  lists to calls (who waits does so for what its call asks), `LocksInv` locks to calls.
  `MutexInv` is what inheritance comes to: a holder gives way to none of its waiters, a
  priority that is not the task's own is that of one who waits, and while a mutex that
  is waited for is free a task is about to take it that is as important as every waiter.
  Tasks of the highest priority may hold several mutexes and wait meanwhile: `BaseIs`
  shows that they, and all that call anything, have their own priority, and `HolderIs`
  that of the others only a task in no call holds a mutex, and holds no second one.
  The first half of the module takes the functions of tasks.c one by one, on any record
  that satisfies `ListsInv`: what each does to the lists, who is ready and who runs
  (`WakeIs`, `DelayIs`, `ExpireIs`, `TickIs`, `ResumeAllIs`, `DrainIs` and others).
  Loops are functions on 0 .. n; `LoopRuns` shows that they exist and `Rounds` is the
  induction along them. The second half has one lemma per action of `Queue`.
- `HighestRunsAlways`: `HighestRuns`, from `ControlInv`. `NoInversionAlways`:
  `NoInversion`, from `MutexInv`.
- `NoLostWakeupAlways`: `NoLostWakeup`, by counting. A step is `Calm` (nothing comes or
  goes, and where there is room no one who looks for it stops or starts to wait) or
  `Passing` (one message comes or goes by a task that stops looking, and one waiter is
  woken if there is one), or it is `prvUnlockQueue` or an interrupt. Who leaves a list
  of waiters looks again (`LookersGain`), so lookers and waiters together are not fewer,
  and in each case the inequality is kept. The step that could break it is `Place`: it
  is calm since a task waits only on a queue that it has looked at with the queue
  locked, and found with no room.
- `DeadlinesKeptAlways` (`DeadlineProofs`): `Spec => []DeadlinesKept`, from
  `DeadlineInv`. That who sleeps has as much left as it was promised says nothing about
  who is awake between two sleeps of one wait, and it is there that the promise could
  get lost: `xTaskCheckForTimeOut` recomputes the time from the tick count, which may
  have wrapped, once or more, while the task was kept from running. `Kept` therefore
  speaks of every call at every point: what is left of the promise is what the call
  itself would make of the tick count now (`Remains`), and, if the task is in a delayed
  list, the way from the count to its wake time (`Rest`); who was put on the pending
  list by an interrupt has been given what it waited for. `InTime` is the part of the
  lists: both are in order, the current one lies after the count and the one for after
  the wrap before it, and xNextTaskUnblockTime is not after the first. The first half of
  the module shows what each function of tasks.c does to the times: `Aged(l, k, n)` says
  that n ticks have passed for all and that only tasks that wait for an event have been
  woken early. `TickAges` is one tick, the wrap among them; `ResumeAllAges` the ticks
  put off, counted one after the other behind the pending tasks; `DelaySleeps` the
  choice of the list. `RemainsLess` is the arithmetic of the call: however often the
  count wraps, what `xTaskCheckForTimeOut` takes for left is what is left. The second
  half has a lemma per action, of which those that let time pass (`TickDeadlines`,
  `ResumeDeadlines`) rest on `AllAged`; that no task is between the check of its time
  and the delayed list then (`look`) is what suspending the scheduler is for.
- `BuffersImplemented`: `Spec => ImplementsBuffers`. The mapping needs `PromiseInv`:
  with `KernelInv`, that the index to write is as far behind the one to read as the
  messages in the store (`StoreInv`; both indexes wrap, the one to read stands one
  behind), and that who was late had a limit (`CallerInv`). `RoundIs` turns the
  remainders into cases; `PostedIs` and `FetchedIs` say that prvCopyDataToQueue appends
  to what the queue holds and prvCopyDataFromQueue takes its head. Then each action is a
  step of `Buffers` (`SendPromise`, `FetchPromise`, `InterruptPromise`, `EnterPromise`,
  `RefusedPromise`, `GiveUpPromise`) or, like every lock, unlock, tick and resumption,
  nothing to it (`StutterPromise`).

Only model-checked:

- liveness (`MoveEnds`, `ArrivedRests`, `OutputReturns`, `CallsReturn`,
  `ConnectionsEnd`, `AllArrives`, and the fair parts of the FIFO refinements), which is
  out of the prover's reach;
- the violated claims;
- TCP. `TcpInv` and `RightEdgeKept` are true of the scenarios of `MCTcp` and not of
  every one: the comparison of `claim_wrap` breaks what `TcpInv` says of the queue out
  of sequence when the window lies across the wrap, and the right edge is kept only
  while the other end keeps to the window it was told. A theorem would have to exclude
  by assumption what the scenarios exclude by choice.

## 5. The plan

Next, in this order:

1. `OneWireSearch` (one-wire.c): the ROM search as an operator on small buses, against
   the set of devices.
2. The link monitor's state machine (speed, duplex, callbacks into lwIP).
3. Of the vendored code what has state and order: ARP and DHCP, the timers of
   `sys_timeout`, the time-outs of TCP that give up.
4. Timed waits for mutexes, should the program come to use them:
   `vTaskPriorityDisinheritAfterTimeout` (tasks.c:4035) then clears the ready bit of the
   new priority instead of the one the task leaves.

Not modelled, and why:

- The closed loop (`mot_pap_move_closed_loop`): no command calls it.
- The debug log: a queue of strings that any task adds to and LOGS empties, with calls
  that never wait. Everything of it that has an order is in `Queue`; the rest is
  formatting.
- The JSON library, and what commands say to one another in JSON: parsing.
- Start-up, clock and pin set-up: sequential, before the scheduler starts; its result is
  the initial state of the modules. `temperature.c`: one ADC average, not started by
  `main.c`.
- IP, ARP, DHCP, UDP, DNS, sockets other than the server's, timers, event groups and
  stream buffers of the kernel: vendored, and the application has no order of its own in
  them.

Most of the repository's lines are vendored (lwIP, FreeRTOS, the chip library, parson)
and most of those are options, headers and parts the program does not run. The modules
cover the parts the program's own behaviour stands on.
