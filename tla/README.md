# NEMU in TLA+

A verification development of this repository: the ICS2019 programming
assignment, whose core is **NEMU**, a full-system emulator with a debugger
(`nemu/`), for guests written on top of an abstract machine (`nexus-am/`,
build files only here), a small operating system (`nanos-lite/`) and its
applications (`navy-apps/`, build files only here).

The modules model the program as its default build compiles it
(`nemu/include/common.h`: `DEBUG` defined, `DIFF_TEST` and `HAS_IOE` not),
unless a module says otherwise.  Paths below are relative to `src/nemu/src/`
where they start with neither `nemu/` nor `nanos-lite/`.

## 1. Inventory

| component | state | operations | what makes it hard |
|---|---|---|---|
| watchpoint pool (`monitor/debug/watchpoint.c`) | node array linked into the lists `head` and `free_`; text and baseline of each node | `new_wp`, `delete_wp`, `free_wp`, `check` | relinking in long sequences; the pool full, empty, with one node |
| command loop (`monitor/debug/ui.c`, `main.c`) | the command under way; `is_batch_mode` | `c q si p x w d info help` | calls `cpu_exec` several times, between which the machine may have ended |
| execution loop (`monitor/cpu-exec.c`, `cpu/cpu.c`) | `nemu_state`, `g_nr_guest_instr` | `cpu_exec`, `exec_once`, `interpret_rtl_exit` | instruction, trace, watchpoints and devices follow each other and all touch `nemu_state` |
| instruction trace (`monitor/debug/log.c`, `nemu/include/cpu/exec.h`) | `log_bytebuf`, `log_asmbuf` | `instr_fetch` appends, `asm_print` empties | fixed buffers; emptying is conditional |
| keyboard (`device/keyboard.c`) | ring of keys, the data port | `send_key`, `i8042_data_io_handler` | a ring at its limits; two sides |
| device update, timer signal (`device/device.c`, `timer.c`) | SDL's queue, the flag, the one-shot timer | `device_update`, `timer_sig_handler`, `sdl_clear_event_queue` | a signal handler that interrupts anywhere |
| address maps, guest memory (`device/io/*.c`, `memory/memory.c`) | the maps, the device space, `pmem` | `new_space`, `add_*_map`, `map_read`, `map_write`, `paddr_*` | bounds, partial accesses, order of store and callback |
| serial, VGA, argument ROM (`device/`) | registers, frame buffer | handlers | output only, or unfinished |
| expressions (`monitor/debug/expr.c`) | the token array; the caller's `success` | `make_token`, `eval` | precedence, unary operators, failure; a flag that outlives one evaluation |
| differential testing, NEMU side (`monitor/diff-test/`) | `is_skip_ref`, `skip_dut_nr_instr`, `is_detach` | `difftest_step`, `difftest_skip_ref`, `difftest_skip_dut`, attach, detach | modes that several functions switch |
| differential testing, QEMU side (`nemu/tools/qemu-diff`) | a GDB connection, a child process | `difftest_init`, `gdb_send`, `gdb_recv`, memory copies, registers, steps | two processes that start and end on their own, acknowledgement and retry |
| interpreters (`isa/x86`, `isa/riscv32`, `isa/mips32`), RTL | registers, `decinfo` | `isa_exec`, helpers | recursion on prefixes; most opcodes are unimplemented |
| start-up (`monitor/monitor.c`) | arguments, image | `init_monitor` | sequential |
| expression generator (`nemu/tools/gen-expr`) | buffer | `gen_rand_expr` | arithmetic of two languages |
| nanos-lite | page pointer, RAM disk | `new_page`, `ramdisk_*`, unimplemented handlers | mostly TODO |

**Interactions.**  Everything but the timer signal runs in one thread.
`ui_mainloop` reads a line, clears SDL's queue (`HAS_IOE`), and calls the
handler of the command.  `cmd_c` and `cmd_si` call `cpu_exec`, which runs a
loop of *instruction, trace, `difftest_step`, `check`, `device_update`,
test of `nemu_state`*.  Instructions end the guest through `nemu_state`;
`check` overwrites it; `send_key` and `timer_intr` read it.  `check` hands one
`success` to `expr` for all the watchpoints it compares.  `SIGVTALRM`
sets a flag that `device_update` reads and clears.  The debugger's own
expressions read guest memory, and so, with `HAS_IOE`, device registers: a
watchpoint or an `x` command can take a key away from the guest.

**What correctness means.**

* pool: two disjoint lists that cover the array after any sequence of
  commands; a crash only at the pool's limits; numbers reused in order.
* command loop and `cpu_exec`: `si N` executes N instructions; an end of the
  guest that has been reported is final; the machine is marked running
  exactly while it runs; `c` stops for a reason, and does stop for a change
  that `check` does not overlook.
* trace: the byte buffer holds one instruction at a time while tracing.
* QEMU side: a command is performed once and its own answer returned; no call
  waits for ever; no QEMU outlives its NEMU; the image is copied whole.
* keyboard: events arrive in order, once, never those typed at the prompt;
  an overflow only of a full ring; every event is polled in the end.
* device space and maps: spaces that do not overlap, no access outside
  `io_space`, registers refreshed by their handler before they are read.
* expressions: the value of the grammar, malformed parentheses refused.
* NEMU side of differential testing: between instructions the reference
  stands where the guest stands.
* interpreters: each instruction does what the manual says, touches no other
  memory, and leaves no decoding state behind for the next one.

`PROJECT.json` lists the hazards of the code, each at its line, with the
properties that watch it.  Code paths that show the same hazard share an
entry.

## 2. Modules

| module | models | lists |
|---|---|---|
| `Outcome` | what callers of `expr()` get from it, and what evaluations that share a `success` do to each other | operators, used by the next three |
| `WatchPool` | what the pool promises: two sequences of node numbers | state and operations of the abstract pool |
| `WatchList` (`MCWatchList`) | `watchpoint.c` pointer by pointer | implements `WatchPool` |
| `Monitor` (`MCMonitor`) | `ui.c`, `cpu-exec.c`, `main.c`, the trace buffer; extends `WatchPool` | one thread, the user, an arbitrary guest |
| `KeyFifo` | what the key queue promises: a bounded FIFO and a port | abstract |
| `Keyboard` | `device.c`, `keyboard.c`, with the phases of `ui.c` and `cpu-exec.c` they depend on (`HAS_IOE` build) | implements `KeyFifo` |
| `RefMachine` | the commands a reference machine understands, and what they do | operators, used by the next two |
| `RefRpc` | what the QEMU side promises: one performance and one answer per command | abstract |
| `GdbLink` | `protocol.c`, `gdb-host.c`, `diff-test.c` and `init.c` of `nemu/tools/qemu-diff/src`; the end of `init_difftest` | implements `RefRpc`; QEMU is external |
| `DiffTest` | `monitor/diff-test/diff-test.c`, its start in `monitor.c`, its callers (build with `DIFF_TEST` and `HAS_IOE`) | two machines |
| `IOMap` (`MCIOMap`) | `device/io/*.c`, `memory/memory.c`, the maps and handlers of all devices | allocation, then accesses |
| `Expr` (`MCExpr`) | `monitor/debug/expr.c`; the texts of `gen-expr.c` | operators on texts, compared with a grammar |
| `X86` (`MCX86`) | fetch, decode and execute of the x86 interpreter | compared with the i386's `mov` |
| `Isa32` | the riscv32 and mips32 instructions NEMU has, one per step | abstract |
| `Risc` | fetch, decode and execute of both interpreters | implements `Isa32` |
| `Debugger_proof` (`Expr` and `WatchList`), `Monitor_proof`, `Keyboard_proof`, `GdbLink_proof`, `DiffTest_proof`, `IOMap_proof`, `X86_proof`, `Risc_proof` | | theorems and proofs |

How they fit together: `Monitor`'s guest is arbitrary and so includes every
guest that `X86` or `Risc` can run; its expressions are arbitrary and may
fail, as those of `Expr` do; `DiffTest`'s reference is any machine that
executes the program, which `GdbLink` provides over a connection;
`Outcome` is what `Expr` computes for a text, once with its registers and once
without; `IOMap`'s `is_skip_ref` is the call that `DiffTest`'s `Inspect`,
`Exec` and `Post` make, and its failing accesses are those that `X86` and
`Risc` allow everywhere.

The operators introduced by a comment `Bug of ...` are wrong variants of the
definition that follows them: each run is repeated with one of them in place
of the right one, to see that its property notices.  No specification uses
them.

### `Outcome`

`expr.c` defines `bool` as `int` (`expr.c:13`); everywhere else it is one byte
(`nemu/include/common.h:20`).  `eval` hands a register out only if the four
bytes at `success` equal 1, and otherwise takes 0 for it without failing
(`expr.c:236`).  So a text has two outcomes in a state of the guest: `on`,
with registers, and `off`, without.  Which one a caller sees depends on the
three bytes behind its flag, which nobody sets, and, in `check()`, on the texts
before it: the flag is set once, before the loop (`watchpoint.c:112`), and the
first text that fails leaves it false for all that follow (`Readable`, `Seen`).
An outcome has a value, whether it left `success` true, and whether an
`Assert` of `memory.c` or `map.c` ended the process.

A failure also *writes* four bytes.  In `cmd_p` they lie in a block that
`malloc` makes large enough; in `new_wp` and `check()` they lie on the stack,
where three of them may be padding or may not.  Both are allowed: the process
goes on, or dies (`"stack"` in `Monitor`, `"expr"` in `WatchList`).

### `WatchList` and `WatchPool`

`WatchList` keeps `head`, `free_` and the array `next`, as in the source, and
has one action per call: the file is called by one thread and never yields,
so a call is one step.  `ListOf(next, h)` is the sequence found by following
`next` from `h`; it is how the loops `while (p->next != NULL) p = p->next`
are abstracted.  A `panic` (pool exhausted), a dereference of `NULL`
(`delete_wp` and `check` on an empty list) and a fatal evaluation (`Fatal`) set
`proc` and end the behaviour.  The text of a watchpoint is a model value;
one of `LEN_WP_NAME` characters or more is stored by `strncpy` without its
NUL: it becomes `Unterminated`, whose evaluation may give anything.

`WatchPool` sees the lists as sequences.  `New` appends the first free node to
`used`, `Delete` removes a node from anywhere and appends it to `free`.
`Check` compares all but the last watchpoint, as the loop of `check()` does,
each with what `Seen` gives for it in the one sequence of readings.
`PoolSpec` is the refinement: `used <- ListOf(next, head)`,
`free <- ListOf(next, free_)`.

### `Monitor`

The control of the thread is `phase`; it names the points of
`ui_mainloop` / `cmd_*` / `cpu_exec` between which state may change:
`prompt`, `call` (before a call of `cpu_exec`), `exec`, `post` (instruction
done; `asm_print`, `check` and the loop's test follow), `ret` (past the
loop), `exited`, `dead`.  A command sets `n` ("once" or "forever", the
argument 1 or 2^64-1), `calls` (the N of `si N`) and the history variables
`asked` and `ran`.

The guest is arbitrary: `Exec` may change what every text gives (`env`),
may end the guest well, badly or by an invalid opcode, and may be a
fault that fails an `Assert`.  What a text gives is a reading of `Outcome`;
`clean` tells whether the bytes behind `success` in the `check()` just made
were 0.  `help` and `info` change nothing and
are left out; `p` and `x` can only end the process; a missing argument is a
`NULL` that `strcmp`, `atoi`, `sscanf` or `strncpy` dereferences.  A `w` dies
in `expr()` after its node was linked in; as nothing is executed afterwards, the
model leaves the pool as it was.
`bytebuf` counts the bytes in `log_bytebuf` and `g_nr` the instructions,
both exact up to one above the bound that matters.

A difference is `Plain` when `check()` cannot overlook it: the value differs
with registers and is read with them, or differs with and without.
`WatchStopsLoop` is about these: of a compared watchpoint whose difference is
not plain, `ui.c:67` does not hold (see 4).

### `Keyboard` and `KeyFifo`

Four parties interleave: the user at the window (`Press`), the signal handler,
the user at the terminal (`Command`, `ExaminePort`) and the thread.
`device_update` is split where the signal can make a difference: test of the
flag, reset of the flag, each turn of the poll loop.  An event carries its
number and whether it came while the command loop was waiting, so that order and
the clearing of the queue can be stated.  `keysym.scancode` is cut to the eight
bits of `send_key`'s parameter (`% CODES`); a mapped code is stored, any other
is dropped; a full ring is a failed `Assert`.  `END` stands for `NEMU_END` and
`NEMU_ABORT`, which this component does not tell apart. The commands are those
of the interactive mode; the batch mode is in `Monitor`.

### `GdbLink`, `RefRpc` and `RefMachine`

Two processes: NEMU, which holds the library (`nemu` is its control), and its
child, from `fork` over `prctl`, `getppid` and `execlp` to a QEMU that listens
(`child`).  Either may end at any time; the kernel then signals the child if
it has asked for that (`sigterm`), or closes the connection.  `todo` is what
is left of the present call: a memory copy is cut into packets of `MTU` bytes
(`Chunk`, `Rest`), `difftest_setregs` is a read and a write of all registers.
The first calls are those of `init_isa` (empty for mips32) and
`init_difftest`; afterwards they come in any order.  The two directions of
the connection are sequences of acknowledgements and packets; a packet may
arrive with a wrong checksum, and then the functions' retries are needed.
Acknowledgements are not damaged: the connection is TCP, whose only real
failure is its end, and a damaged `+` would have the command executed
again.  `fgetc` in `gdb_send` takes one character, which of a packet is its
`$`; the model has it leave the packet's tail behind.  The
reads of `recv_packet` pass over everything else.  What is inside a packet
(escapes, run lengths, hexadecimal digits) is abstracted; `gdb_start_noack` is
called by nothing and left out.

`RefRpc` is the remote procedure call this implements: `Ask`, `Perform`,
`Answer`.  The history variable `done` tells whether the command under way
has been performed; QEMU's server (`Serve...`, `Perform`) is external and
behaves as the GDB remote protocol says.

### `DiffTest`

A machine is its pc, the value of its other registers and the number of
stores its memory has seen; a program is a sequence of kinds of instruction.
`phase` follows `init_monitor` (`load`, `isa`, `difftest`), the prompt and
the loop of `cpu_exec` (`exec`, `step`, `post`).  NEMU may compute a wrong
value (a bug in the interpreter is what the comparison is for), and an access
to a device yields different values in the two machines.

At this commit `isa_difftest_checkregs` is a stub that returns `false`, so that
the first comparison ends every guest.  The variable `ported` tells
a build in which it compares the registers from the one at hand; both are
covered.  The third mode of `difftest_step`, catching up with a reference that
packs instructions, is left out: only `difftest_skip_dut` starts it, only
`exec_int` would call that, and opcode 0xcd is `EMPTY` in the table of
`isa/x86/exec/exec.c`, so `int` is an invalid instruction.
`unchecked` and `mismatch` are history variables.  `difftest_attach` and
`difftest_detach` are called by nothing and left out.

### `IOMap`

`init_next` is the initialisation of one device: `new_space` with its
rounding and its assertion, then `add_pio_map` and `add_mmio_map`.
Without `HAS_IOE` the argument ROM is the only device.  `pmem_access`,
`mmio_access` and `pio_access` are `paddr_read`/`paddr_write` and the port
functions, down to the handlers: which accesses a handler accepts is
modelled from each device's file.  `vga_io_handler` is a TODO and accepts
none.  The initialisation of the argument ROM copies the arguments with
`strcpy` (`device/argsrom.c:11`); the model has them fit in its 4096 bytes.
Of the contents, the model has who wrote a device's first byte: the
initialisation, the handler or an access.  `access` records the last access
for the properties.

### `Expr`

The state is the text typed so far; everything of the source is an operator
on it.  A text is a sequence of units (an operator, a parenthesis, a run of
digits, a hexadecimal number, a register's name), because `make_token` looks
at no more than that of its characters; the one regular expression whose
reach is not that of a unit, the greedy one for register names, is modelled
by where it ends (`GprEnd`).  Where that is inside a hexadecimal number, what
follows the `0x` is left over (`AfterX`).  Which numbers and registers there
are, and their values, are constants.  `check_parentheses`,
`find_dominated_op` and `eval` are written as the source computes them, with
the one `success` flag that all recursive calls share.  `clean` is the part
of it that the caller does not set: the three bytes behind its flag, which
`*success == true` reads (`HandedOut`, see `Outcome`).  The recursion of
`eval` and the loops of `make_token` and `check_parentheses` are functions
(`Evaluated`, `Derefs`, `Scan`), each with a body that is an operator of its
own, so that theorems can be proved about them.  Words are the numbers below
`2 * Half`.

`Sentence` is the reference: the set of the values a text has by the grammar
of C's operators, with the value the C program of `gen-expr` computes in
`int` beside it.  A register counts in it as `eval` can have it (`Named`): as
what it holds, or as 0 where `clean` is false (see 4).  `Misread` names the
texts of which the lexer is known to make something else; `ValueRight` says that
these are all, and `BadParensRefused` that among operands and binary operators
those which the greedy rule for registers overruns (`Overrun`) are refused.

### `X86`

One instruction after another: `isa_exec` reads an opcode, `Decode` calls the
decode helpers of its table entry one by one, `Execute` the execute function,
which for a prefix is `isa_exec` again and for a group the second table;
`exec_once` ends the instruction.  Contents are symbolic: a byte is named for
the register, the operand or the immediate it comes from, so that `MovCopies`
can compare what an instruction writes, byte by byte, with what the i386 manual
has it write, for all contents at once.  An address is the sum of displacement,
base, index and scale that `load_addr` forms.  Whether it is one of memory or of
a device is left open, so any fetch, load or store may fail the `Assert` of
`check_bound` (`device/io/map.c:20`) and end the process in `fetch`, `load` or
`store`: an operand's load even before an empty group entry ends the guest, and
the bytes that `exec_inv` fetches again.  Of ModR/M and SIB bytes, the fields
take the register numbers the code tells apart.

### `Risc` and `Isa32`

An instruction is the fields it is cut into; any may be fetched at any address.
`isa_exec` fetches and decodes, `Execute` executes, `exec_once` takes over the
pc.  Both architectures are one module, told apart by `arch` where their tables
and their `lui` differ.  `Isa32` is the manuals' view, one instruction per step,
with registers other than 0 as a function and register 0 no state at all; the
refinement maps `gpr` without its entry 0.  In one thing `Isa32` is NEMU's view
and not the manual's: mips32's `lw` and `sw` accept an unaligned address, as
NEMU does, where the processor raises an exception. Accesses to devices, which
`IOMap` has, end the model's NEMU, as an access outside memory does.

## 3. Runs

| run | bounds | shows |
|---|---|---|
| `WatchList` | 3 nodes, a short and a long text, a register, a division by zero, an unreadable address, numbers -1..3 for `d` | lists partition the array, deaths only at the limits, refinement of `WatchPool` |
| `Monitor` | 2 nodes, a short and a long text, `si` up to 2, 1 traced instruction, buffer for one instruction | types, `RunningInCpuExec`, `SiCount`, `TraceFits`, `VerdictIsFinal` |
| `Monitor_live` | 3 nodes, 2 short texts, each at each moment a register that holds 1 or a text that fails, or cannot be read where registers are 0, `si` up to 1, fair | `ContinueStopsForReason`, `WatchStopsLoop`, `CommandsReturn` |
| `Monitor_end`, `Monitor_last` | small | one finding each, see below |
| `Keyboard` | ring of 3, codes below 2, scancodes 0, 1, 3, 4 events, fair | order, prompt keys, overflow, refinement of `KeyFifo`, every event is polled |
| `GdbLink` | packets of 2 bytes, images of 0, 2 and 5, 1 step in `init_isa`, 2 later calls, 1 damaged packet, fair | `ImageCopied`, `RestKept`, `NoOrphan`, refinement of `RefRpc`, `CallsReturn` |
| `DiffTest` | all programs of 4 instructions, 2 register values | `InStep` |
| `IOMap` | NEMU's six devices with pages of 16 bytes, `io_space` of 1, 7 and 8 pages, accesses of 1, 2 and 4 bytes at every edge | `SpacesApart`, `InIoSpace`, `OwnBytes`, `FreshRead`, `StartsUp` |
| `Expr` | texts of up to 7 units, 2 parentheses, the binary operators `-`, `*`, `/`, `==` and `||`, words of 4 bits, bytes behind `success` 0 or not | `ValueRight`, `BadParensRefused`, `GenAgrees` |
| `X86` | all one-byte opcodes and the two-byte ones the table fills, register fields 0, 4, 5, 7, up to 10 prefixes | `MovCopies`, `MovTouches`, `OthersRefused`, `OneInstrFits` |
| `Risc` | words of 2 bytes of 2 values, 3 registers, memory of 3 bytes | `ZeroRegister`, refinement of `Isa32` |

**Why the bounds are enough.**  Three nodes give a list a first, an inner and
a last element, which are the only cases `delete_wp` distinguishes, together
with empty and full lists.  `check()` compares all but the last node: two
nodes make it compare one, three make it compare two, which the combination of
comparisons needs.  Two values let an expression change and change back.
`si 2` has a first and a last call of `cpu_exec`, `si -1` and `si 0` are the
two odd arguments.  One traced instruction and one beyond it distinguish the
two regimes of `asm_print`.  A ring of 3 holds 2 events, so four presses fill
it, wrap both indices and overflow it, wrapped or not; scancode 3 is cut to
1, which is mapped; 0 is not mapped.  Images of 0, 2 and 5 bytes are empty,
exactly one packet, and two packets and a rest.  One damaged packet may be any
packet in any direction; a second one would start from the same state as the
first, as the retries keep no count.

Three nodes and two texts let an earlier text fail before a later one that is a
register: the whole of what the shared `success` can do.  A register that
holds 1 reads as 0 where it is not handed out, which gives baselines and values
of 0 and 1; the other text stands for a division by a register that holds 0
inside a text that reads memory there.  Four instructions hold
a store, an access to a device that is skipped, an ordinary instruction that is
let pass, and one that is compared afterwards.  The devices of `MCIOMap` keep
the order of `init_device`, the sizes relative to the page (smaller, one page,
two pages) and the order of the addresses; an `io_space` of 1 page is too small
for the first device, 7 pages are exactly what all need and so too small for the
strict bound, 8 are enough.  Seven units hold three binary operators, or two
with a pair of parentheses around either side (`+`, `!=` and `&&` are treated as
`-`, `==` and `||` in every table and rule but one, `Misread`'s list, and the
proofs have them); two levels of nesting and a mismatched pair fit too; four
bits make additions, negations and products wrap.  The register fields are 0 and
7 and the two that ModR/M and SIB bytes treat specially (4 and 5); as byte
registers, 4, 5 and 7 are second bytes.  With nine prefixes every instruction
fits in the trace buffer, with ten the longest does not.  A word of 4 bits has
signed immediates, an upper part and addresses that wrap; three registers are
register 0, the one of the trap and another.

The theorems of section 5 remove the
bounds for the safety properties they state.

`CHECK_DEADLOCK FALSE` is given where a process really may end: `q`, the end
of the input, a closed window, a panic, a signal.

**Fairness.**  `WF_vars(Internal)` (`Monitor`) and `WF_vars(Thread)`
(`Keyboard`) say that the operating system schedules NEMU's thread while it
does not wait for the user; commands and key presses have no fairness.
`WF_vars(timer_sig_handler)` says that an armed timer expires: it is an
`ITIMER_VIRTUAL`, which counts the processor time of the process, and the
thread only waits in `readline`, where events are not promised to be polled
(`EventsPolled` excludes the prompt).  In `GdbLink`, `WF_vars(Nemu)` and
`WF_vars(Qemu)` schedule both processes, the latter including that QEMU
answers what it has acknowledged, and a pending signal is delivered.  Nothing
makes a process end.

## 4. Findings

Each is a run whose single property restates a line of the program's text and
that TLC finds violated.

* `EndIsFinal`: a watchpoint hit in the instruction that ends the guest
  overwrites `NEMU_END`; nothing is reported and `c` runs on
  (`cpu-exec.c:62`).
* `WatchPauses`: the last watchpoint is never compared (`watchpoint.c:113`).

The models also contain, without a run of their own:

* after a text that fails (`w 1/0`), `check()` reads every register as 0, so
  that a compared one which changes from 0 is not noticed and does not pause the
  program (`watchpoint.c:112`, `expr.c:236`; `ui.c:67` promises it).  The same
  makes an unchanged register whose baseline is not 0 stop `c`.
  `ContinueStopsForReason` and `WatchStopsLoop` name both cases;
* with something else than 0 behind the caller's one-byte `success`, `p $eax`
  prints 0 (`expr.c:13` against `common.h:20`; `Named` has it);
* `c` and `si` with no watchpoint set dereference `NULL` in `check`
  (`watchpoint.c:113`, action `PostNoWatch`), and `d N` in `delete_wp`
  (`watchpoint.c:70`, action `delete_wp_empty`);
* beyond `LOG_MAX` instructions `asm_print` no longer empties `log_bytebuf`,
  which overflows (`nemu/include/cpu/exec.h:32`; `TraceFits` is conditional
  on it), and so does one instruction of more than 26 bytes (`OneInstrFits`);
* a watchpoint hit does not end `si N`, whose remaining calls of `cpu_exec`
  follow (`ui.c:108`);
* `info w` shows the baseline as the current value (`watchpoint.c:100`);
* a debugger command or a watchpoint that reads a device sets `is_skip_ref`,
  and the next ordinary instruction is copied to the reference instead of
  compared with it (`map.h`; `diff-test.c:65` says that the result of every
  instruction will be compared); `InStep` names the case by `unchecked`;
* the pattern for a register's name is greedy, so that `$eax + $ebx` is one
  unknown register (`expr.c:49`), and refused; a `*` after `&&`, `||` or another
  prefix `*` multiplies (`expr.c:138`); both are `Misread`;
* a failing text writes four bytes over the one-byte `success` of `new_wp` and
  `check()`, on the stack (`expr.c:268`, `watchpoint.c:46`; `Die("stack")`);
* texts that end early, as `1 +`, are given a value;
* `vga_io_handler` panics on every access, and so do the decode helper of
  opcode 0x83, the only TODO of the x86 interpreter that a guest reaches;
* keys polled after the instruction that stops the guest are lost, key
  releases among them (`device.c:54`, action `PollDropped`), and a scancode
  above 255 is cut and may arrive as another key (`device.c:52`);
* `gdb_connect_qemu` waits for ever when QEMU cannot be started
  (`gdb-host.c:7`, the exception in `CallsReturn`).

Seen and not modelled: `info r` of x86 prints the byte registers by
consecutive indices that are not theirs (`isa/x86/reg.c:60`); `gen-expr`
gives out an uninitialised result when the generated program divides by zero
(`gen-expr.c:91`); the stack of `find_dominated_op` writes past its block at
the 100th push (`expr.c:370`); `paddr_read` loads four bytes at the last byte of
`pmem` (`memory.c:26`); the arguments are copied into the argument ROM without a
limit (`device/argsrom.c:11`).

## 5. Proofs

TLAPS checks the following for every value of the constants that satisfies the
named assumptions (`ListAssumption`, `PoolAssumption`, `OutcomeAssumption`,
`MonitorAssumption`, `KeyboardAssumption`, `LinkAssumption`, `NoneAssumption`,
`DiffTestAssumption`, `RiscAssumption`, `IOMapAssumption`, `TablesAssumption`,
`X86Assumption`, `ExprAssumption`).  `TablesAssumption` is what NEMU's devices
satisfy: no more of them than a table has entries, and ports that end within the
port space.  `ExprAssumption` says that a unit is of one kind, an operator, a
parenthesis, a number or a register, that what is left of a hexadecimal number
without its `0x` is none of the first two, and that registers and memory hold
words.  `OutcomeAssumption` says what a reading is.

* `Debugger_proof`, about `WatchList`: `TypeCorrect`, `PartitionCorrect`,
  `DeathsCorrect`, `Refinement`.  The inductive invariant says that there are
  two sequences `s` and `t`, without repetition and covering the array, such
  that `next` links the elements of `s` from `head` and those of `t` from
  `free_` (`IsSplit`), and that a dead process died with the corresponding list
  empty. `ListOf` is a `CHOOSE`; a lemma shows that the chain from a pointer is
  unique, so that `ListOf` *is* `s`.  Each action then has one lemma about how
  `LinkLast` or the removal changes the chain.  The types alone are not
  inductive, because `next[Last(ListOf(next, head))]` says nothing without the
  chains.
* `Monitor_proof`: `TypeCorrect`, `RunningCorrect`, `SiCorrect`, `TraceCorrect`,
  `PoolCorrect`, `ContinueCorrect`, `WatchCorrect`, `VerdictCorrect`.  `SiCount`
  needs the relation of `ran` and `calls` in every phase of a command (`ran +
  calls` is `asked`, shifted by one inside the call); `TraceFits` needs that the
  buffer is empty before each traced instruction; `VerdictIsFinal` needs that a
  verdict is only given in the states which `cpu_exec` refuses;
  `ContinueStopsForReason` that a hit of the present instruction, and nothing
  older, is what leaves `NEMU_STOP` behind in the loop.  `SeenIs` relates what
  `check()` reads of a watchpoint, by way of the success shared with those
  before it, to what its text gives on its own; `PostFinds` draws from it what
  an instruction's `check()` finds and cannot miss.
* `Keyboard_proof`: `TypeCorrect`, `OrderCorrect`, `PromptCorrect`,
  `OverflowCorrect`, `Refinement`.  The events are ordered not only inside
  the ring and SDL's queue but across both and against the last one read
  (`Apart`); the prompt's events are in SDL's queue only while the phase is
  `prompt`; the ring's sequence is related to its two indices with and
  without wrap-around, from which `Put`, `Get` and `GetNone` of `KeyFifo`
  follow.
* `GdbLink_proof`: `OrphanCorrect`, `ImageCorrect`, `RestCorrect`,
  `RpcCorrect`.  `NoOrphan` is inductive as it stands: the child gets past
  `getppid` only while NEMU lives, and has called `prctl` by then.  The
  others need, while NEMU lives, the contents that the two directions of the
  connection may have at each control point of NEMU and of QEMU's server
  (`Link`): a command or an answer, at most one of each, whole or damaged,
  behind acknowledgements that the next read passes over; and whether the
  command has been performed.  Without it a second transmission of a command
  could not be told from a second command.  `Image` adds that the bytes
  copied and those that the rest of the call will copy are the image,
  `Registers` that what `difftest_setregs` writes is what it has read, with
  the first registers replaced.  The refinement maps each step to `Ask`,
  `Perform`, `Answer` or a stutter.
* `DiffTest_proof`: `InStepCorrect`, for programs of every length.  The
  inductive invariant relates the two pcs in each phase (equal, or the
  reference behind by the instruction that `difftest_step` is still to see);
  says that a machine's memory has exactly the stores before its pc (`Stored`,
  which is why an unchecked instruction matters: copying the registers does
  not copy memory); and that compared registers are equal.
* `IOMap_proof`: `SpacesCorrect`, `BoundsCorrect`, `OwnBytesCorrect`,
  `FreshCorrect`, `StartsCorrect`, for any devices and any page size of at
  least 4.  The inductive invariant is the layout of `new_space` (each space
  ends below the next, `p_space` is a multiple of the page and below the
  strict bound), that a map describes its device, and that an access begins
  inside one.  `InIoSpace` then rests on
  the page that the strict bound leaves unused.  `StartsUp` needs the pages
  taken so far as a sum over the devices, which is shown to grow with them,
  and the entries used in each table.
* `X86_proof`: `MovCopiesCorrect`, `MovTouchesCorrect`, `OthersCorrect`,
  `FitsCorrect`, for any opcodes, any register fields and any number of
  prefixes.  The inductive invariant has a part for each stage of decoding:
  nothing but fetches before a prefix or an opcode (`Fresh`), no helper called
  (`Begun`), one of two (`Half`), all (`Decoded`); for each class of `mov` the
  later ones name the operands decoded, the bytes fetched and the memory read so
  far.  It ties the operand-size flag to the prefixes of this instruction, which
  a flag left set by an earlier one would break, and bounds the bytes fetched
  (`Most`).  What a process may die of is read off the stage at the step in
  which it dies; nothing is claimed of it later.  Lemmas then compare, without
  any state, the operands of `load_addr` and the register tables with the
  i386's.
* `Risc_proof`: `ZeroRegisterCorrect`, `ImplementsIsa`, for words of any
  width and any registers.  The inductive invariant says that before the
  execute function runs, `decinfo` holds what the present instruction's
  entries and registers say, which is what a stale operand would break.

* `Debugger_proof`, about `Expr`: `ValueCorrect`, `BadParensCorrect`,
  `GenCorrect`, for texts of every length and nesting, words of every width and
  every set of operands.  The invariant of the typed text is small (its units
  are known ones; operands and operators alternate as long as no prefix was
  typed, `InTurn`); the work is in what the operators compute.
  `RecursiveFunction` proves once, by well-founded induction, that a definition
  by recursion on something that decreases has a solution; from it follow the
  equations of `Scan`, `Derefs`, `Evaluated` and `Sentence`. `PhraseInduction`
  is induction over the grammar.  By it every phrase has balanced parentheses,
  and outside of them no operator weaker than the phrase (`Shaped`).  So, in a
  text read the way it was meant, `find_dominated_op` finds the operator that
  the grammar splits a phrase at (`SplitAt`), and `check_parentheses`, whose
  stack is the depth of nesting as long as it says yes (`ScanBalanced`), says
  yes exactly for a phrase in parentheses (`CheckBalanced`).  The value of
  `eval` is then that of the phrase (`ValuesRight`).  `Accepted` is the
  converse: by induction over the calls of `eval`, what it accepts of operands
  and operators in turn is a phrase, of the level of the operator it was split
  at (`Stronger`, `SidesJoin`).  All of it holds for either value of `clean`.
  `CutRefused` is the case of the greedy rule: `eval` comes to the token it
  makes, which is no register.  `GenCorrect` rests on `ValueCorrect` and on the
  arithmetic of words (`WrapSum`, `WrapProduct`): the remainder of an int that
  has not overflowed is the word.

The theorems state every safety property and every refinement that the runs
check.  Only model-checked are the liveness properties `CommandsReturn`,
`EventsPolled` and `CallsReturn`: fairness depends on `ENABLED`, which the
prover does not support.  That `ValueRight` and `GenAgrees` are about
something, that is, that texts have a `Meaning`, is seen in the run, whose
mutants break them.

## 6. Plan

Done: the debugger and its execution loop (`WatchPool`, `WatchList`,
`Monitor`), its asynchronous side (`Keyboard`), differential testing over its
connection (`GdbLink`) and in NEMU (`DiffTest`), devices and memory (`IOMap`),
expressions (`Expr`), the interpreters (`X86`, `Risc` over `Isa32`).  What is
left, in order of worth:

1. `DiffTest` over `GdbLink`: the calls of `difftest_step` as the calls of the
   connection, a reference that ends among them.
2. That `Monitor` over `WatchList` is `Monitor` over `WatchPool`.
3. A small module for the page allocator and the RAM disk of `nanos-lite`.

## 7. Not modelled, and why

* The x86 decode helpers and execute functions that no table entry names (`int`
  among them, and with it `difftest_skip_dut`), and the RTL and relational
  operators that no instruction uses: they cannot be
  reached, and nearly all are TODO panics.  `in` and `out`, interrupts and
  paging are TODOs too; the MMU functions of all architectures pass accesses
  on to `paddr_read` and `paddr_write`.
* `difftest_attach`, `difftest_detach`, `gdb_start_noack` (called by
  nothing) and `monitor/diff-test/ref.c` (a NEMU that is itself a reference).
* What appears on the screen and the terminal, formatting, the log file,
  disassembly text, the parsing of arguments; the clock register, which
  copies the host's clock.
* What lies behind `pmem` and the end of the argument ROM's space: an access, or
  arguments, that run over them.
* The fixed sizes of the token array, the tokens' texts and the stack in
  `expr.c`, which nothing tests.  In `Expr` the characters within a number or
  a name.
* The processes `gen-expr` starts.
* Nearly all handlers of `nanos-lite` are unimplemented; what is written
  copies memory and hands out pages in order.  `nexus-am` and `navy-apps`
  hold only build files here.
