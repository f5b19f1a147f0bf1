# TLA+ models of SDCC

SDCC is a C compiler for small microcontrollers; this repository holds the
compiler, its assembler and linker, the run-time library that is linked into the
programs it compiles, the simulator ucsim on which they are run, and the
source-level debugger sdcdb that drives the simulator. The models here are about
the parts of it where state and order of events make correctness hard: the heap
and the interrupt-driven serial drivers of the library, the interrupt system of
the simulated 8051, the debugger's break points, and in the compiler the control flow
of a function, its loops, and the code emitted around critical sections. All paths
are relative to the root of the repository.

Contents

1. [Inventory](#1-inventory)
2. [Modules](#2-modules)
3. [Runs](#3-runs)
4. [Where the code and its documents disagree](#4-where-the-code-and-its-documents-disagree)
5. [Proofs](#5-proofs)
6. [What is not modelled](#6-what-is-not-modelled)
7. [Plan](#7-plan)

## 1. Inventory

| part | state | operations | interacts with |
|---|---|---|---|
| heap, `device/lib/{malloc,calloc,realloc,free}.c` | blocks linked by address, the free list threaded through the free ones, the list head | `malloc`, `calloc`, `realloc`, `free`, `__sdcc_heap_init` | the program, through pointers |
| serial driver, `device/lib/ser_ir.c` | two ring buffers with position and count, `busy` | `ser_init`, `ser_putc`, `ser_getc`, the handler of interrupt 4 | the UART's `SBUF`, `RI`, `TI`; the interrupt mask `ES` |
| serial driver with handshake, `device/lib/ser_ir_cts_rts.c` | the same | the same | the same, and the pins `CTS` and `RTS` |
| other serial drivers, `_ser.c`, `serial.c` | rings with byte indices | as above | as above |
| arithmetic, strings, `printf`, floating point in `device/lib` | none | functions | the compiler's calling convention |
| ucsim, interrupts and low-power modes, `sim/ucsim/s51.src` (`interrupt.cc`, `uc51.cc`) | `IE`, `IP`, request flags, the stack of services `it_levels`, `was_reti`, `state` | `do_inst`, `do_interrupt`, `accept_it`, RETI, `idle_pd`, `reset` | the instructions, the timers, ports |
| ucsim, timers, PCA, UART, watchdog | their SFRs and counters | `tick`, `read`, `write`, `happen` | the interrupt system through request flags |
| ucsim core, other CPUs, console | memory cells, event break points | commands | the CPU |
| sdcdb, `debugger/mcs51` (`break.c`, `cmd.c`, `simi.c`) | the table of break points, the simulator's break points, the call stack, `userinterrupt` | `break`, `tbreak`, `clear`, `delete`, `step`, `next`, `finish`, `continue`, `run`, `stepi`, `nexti`, `^C`, the call backs | the simulator, over a socket |
| compiler, flow graph, `src/SDCCcflow.c` | per basic block: successors, predecessors, depth first number, `noPath`, `domVect` | `computeControlFlow`, `disconBBlock`, `immedDom` | every optimisation that changes the flow has it computed again |
| compiler, loops, `src/SDCCloop.c`, `src/SDCCBBlock.c` | preheaders, regions with blocks, exits and depth | `iCodeBreakDown`, `createLoopRegions`, `loopOptimizations` | the flow graph; the common subexpression pass runs in between |
| compiler, critical code, `src/mcs51/gen.c` | none at compile time; `EA`, carry, accumulator and stack of the running program | entry and exit of critical functions and statements and of interrupt routines | interrupts, and other critical code |
| compiler front end, the other passes, back ends, `src/` | trees, intermediate code | passes | one after the other |
| `sdas`, linker | symbol tables, areas | two passes; allocation | files |

Hard behaviours and what correctness means in each part that is modelled:

* **Heap.** Sequential, but every call patches up to three links in place, headers
  and user data share bytes, and the four functions rely on each other's order
  of the list. Correct: the blocks tile the heap, the free list is complete,
  sorted and coalesced, user data survives, sums in `size_t` that wrap do not
  produce blocks that are too small, and an allocation fails only when it has to.
* **Serial drivers.** The handler interrupts `ser_putc` and `ser_getc` between any
  two accesses; only `ES` holds it off. Correct: no character is lost, doubled,
  reordered or left lying in the buffer, `SBUF` is not written over a character in
  the transmitter, no call waits for something that cannot happen; with
  handshake, the other side is stopped while there is room for what it has
  under way, and is not stopped for ever.
* **Interrupt system.** Requests may come with any instruction, in idle mode, or
  from outside; a byte write to `IE` and RETI hold off the next acceptance; the
  program may rewrite `IP` in the middle of a service. Correct: services nest by
  level, no request is lost, the interrupted program gets on, a request of the higher
  level is served, idle mode ends.
* **Break points.** Two tables in two processes that have to agree, entries of
  four origins at one address, call backs that delete entries of the chain that is
  being walked, and `^C` at any moment. Correct: the simulator stops where the
  table says, the entries that keep the call stack up to date are not taken away
  by others, and `^C` gets the prompt back.
* **Flow graph.** Computed again after every change, from a graph in which blocks may be
  empty or disconnected; `noPath` alone survives from one computation to the next. Correct:
  the blocks marked `noPath` are those that control cannot reach, and `domVect` misses no
  dominator and has no other block.
* **Loops.** Preheaders are put in while the blocks are being made, regions are found from
  one flow graph and used with another. Correct: a region is a natural loop with
  everything in it, inner loops are optimised first, and an instruction that is
  moved out of a loop is executed before its old place, and not where the program
  would not have executed it.
* **Critical code.** Interrupts come between any two instructions, `EA` and a function's
  result both go through the carry, and critical code nests through functions that are
  not critical. Correct: critical code is not interrupted, `EA` is restored to what the
  program wants, results and the interrupted program's registers survive.

`PROJECT.json` lists each of these hazards at its line, those too that no property
covers yet, with the reason.

## 2. Modules

| module | what it is |
|---|---|
| `HeapSpec` | abstract: what the heap promises a program |
| `SdccHeap` | the four functions of the heap; implements `HeapSpec` |
| `SdccHeapProofs` | theorems about `SdccHeap`: the shape of its lists, the user's data, and that it implements `HeapSpec` |
| `MCSdccHeap` | values of the constants for TLC |
| `SerFifo` | abstract: a pair of bounded FIFOs on a line |
| `SerIr` | `ser_ir.c` with program, handler and UART; implements `SerFifo` |
| `SerIrProofs` | theorems about `SerIr`: its transmit side, and that it implements `SerFifo` |
| `SerCtsRts` | `ser_ir_cts_rts.c`: composes an instance of `SerIr` with the pins and the other side; implements `SerFifo` |
| `SerCtsRtsProofs` | theorems about `SerCtsRts`: the handshake, and that it implements `SerIr` |
| `S51Interrupt` | the interrupt system and low-power modes of the simulated 8051 |
| `S51InterruptProofs` | theorems about `S51Interrupt` |
| `MCS51Interrupt` | poll order for TLC |
| `SdcdbBreak` | the debugger's break points and program control |
| `SdcdbBreakProofs` | theorems about `SdcdbBreak` |
| `MCSdcdbBreak` | a program of two functions for TLC |
| `SDCCcflow` | the compiler's control flow of a function, and the changes that have it computed again |
| `SDCCcflowProofs` | theorems about `SDCCcflow` |
| `SDCCloop` | preheaders, loop regions and the move of an instruction out of loops |
| `SDCCloopProofs` | theorems about `SDCCloop` |
| `SdccCritical` | the code emitted for critical code and interrupt routines, and the 8051 that executes it |
| `SdccCriticalProofs` | theorems about `SdccCritical` |

Definitions have the names of the functions and variables they stand for where
there are such names. Operators whose name has a suffix and whose comment begins with `[mutant]`
are not part of a model: each is the definition after it with a plausible mistake, and
the property listed with it in `PROJECT.json` fails when it takes that place.

### SdccHeap

A block is named by its address. `nxt` is `header.next` of every block, `nfr` is
`header.next_free` of the free ones and, at `Root`, the list head
`__sdcc_heap_free`; so `DOMAIN nfr \ {Root}` are the free blocks. `req` has the
size the program asked for in each of its blocks, and `kept` the offsets of a
live block that still hold what was put there. `kept` is how user data is
abstracted: every store the library makes is the set of bytes it covers
(`LinkField`, `Bytes`, `CarveWrites`, `moved`), and `Spoil` takes these out of the
live blocks they touch. Since `next_free` is user data in a live block and the
`memmove` of `realloc` carries the header along, a link that is written in the wrong
order or a length that is short by a header shows as a byte that is not kept.

A call begins with `Malloc`, `Calloc`, `FreeCall` or `Realloc`, which include the
early returns; its walk over the list is one action per block (`FirstFitNext`,
`FreeNext`, `ResizeNext`); everything after the walk up to the return is one
action, because the library is not re-entrant and nothing else runs.
`ReallocMoves` continues with the walk of `free`, as the code calls it. The
pointer to a link (`f` and `pf` of the code) is represented by the block the link
lies in.

`LazyInit` tells the two ways of initialisation apart. On mcs51, ds390, hc08 and s08
`malloc` and `realloc` call `__sdcc_heap_init` when the list head is 0 (on mos6502 only `malloc`
does, `realloc.c:68`); elsewhere start-up code does. In the first case an exhausted heap is initialised
under the program's blocks; `pc = "corrupt"` marks that this has happened, and
the model goes no further. The invariants of the lists are claimed up to that
point, `LiveDataIntact` also at it.

### SerIr

The program's side takes one step per access to shared memory, in the order of the
statements: for `ser_putc` wait, mask, test of `busy`, then `xcnt++`, store or
`SBUF`, `busy = 1`, then unmask; for `ser_getc` likewise. `ser_handler` is one
step: on the 8051 a handler runs to its end before the program goes on, and
nothing else interrupts it here. `Arrive` and `Leave` are the UART, which is
external to this file: a character on the receive line sets `RI`, and one that has left
the transmitter sets `TI`. `Arrive` waits for `RI` to be clear, that is, the handler runs
before the next character is complete; the driver has no defence against a
slower program. The `k`-th character passed to `ser_putc` is the number `k`, and so is
the `k`-th on the receive line, so order, loss and duplication are visible.
`Index` is `(unsigned char)(pos + cnt) % len` with its cut to the width of a
byte. `ser_puts` and `ser_gets` are loops over these calls and need no actions of
their own; `ser_init` is the initial state.

The refinement mapping to `SerFifo` reads the queues off the buffers
(`TxQueue`, `RxQueue`), with a correction where a count has been changed and the
character has not been stored or read yet.

### SerCtsRts

The statements this driver has in common with `ser_ir.c` are the actions of
`SerIr`, through `INSTANCE`. Added are: the handler's stop of the other side
(`CtsAfter`), the wait for `RTS` in `ser_putc`, the loop in `ser_getc` that
tests `rxcnt` and enables `CTS` in two steps, and the other side, a PC as the head
comment of the file has it: it looks at `CTS` when it fills its FIFO, and what
is in the FIFO comes whatever `CTS` does meanwhile. `late` is a history variable:
`ser_getc` has enabled `CTS` although characters had arrived since its test.

### S51Interrupt

A turn of `do_inst`'s loop is two actions: the instruction with the tick of the
hardware after it (`phase = "inst"`), and `do_interrupt` with `idle_pd`
(`phase = "check"`). What the simulated program does is left open but for
what matters here: writes to `IE` (by byte, which sets `was_reti` through
`cl_interrupt::write`, and by bit, which does not come to it), to `IP` and
`PCON`, to request flags, and RETI. With each tick any on-chip source may raise its
request; one timer is modelled, which overflows every `Period` ticks, so that it can
stand still when ticks do. `PortEvent` raises external requests between two turns,
`Reset` is the command.

`it_levels` has an entry per service under way.
The two sources on the vector of the serial line are one here.

### SdcdbBreak

`bptable` has at each address the chain of entries that `setBreakPoint` appends to
(`Without` is what `hTabDeleteItem` leaves of a chain), `sim` the addresses the simulator has been told. `mode` is the command whose
`simGo` loop is running, or `"prompt"`. A command is an action (`setBreakPoint`
for `break` and `tbreak`, `clearUSERbp`, `deleteUSERbp`, `cmdStep`, ...); each
arrival of the program at a stop is one action, `simGo`, which has the whole of
`dispatchCB`: the call backs of the chain in order, what they remove, the pushes and pops of
the call stack, the test of `userinterrupt` and whether the loop goes round. The debugged
program is left open: a single step may lead to any address, a run to any address
the simulator stops at, or, by a single step or `^C`, to an address in no function
(`simGoOutside`), where a stop leaves the context as it was; break points of the user are at addresses
of functions. `run`
starts at address 0, and pushes the function that is there (`cmd.c:731`). The answer to `^C` is a
stop anywhere. When it comes in the middle of an exchange with the simulator, `nointerrupt`
delays it to the end of that (`sdcdb.c:2065`); such a delayed `^C` is one that comes later.

`userBpPresent` is a `char` (`break.c:33`), and the model keeps it modulo `Char`, the number of
its values. Nothing but its being 0 is ever asked for (`NoneReported`), so it does not
matter whether the char has a sign. Where it wraps, it no longer is the number of break points:
`UserCount` says that it is that number modulo `Char`, and so that up to the last
value "none" is reported exactly when there are none; section 4 has what happens then.

Three things in the code that one would not expect are in the model as they are:
call backs of `step` and `next` run a new iteration over the table with its only
iterator, so what stands behind them in the chain is not called (`Called`);
`fexitCB` on an empty call stack takes what the lowest place of the array still
holds (`bottom`); and `next` at the end of a function leaves entries of type
`NEXT` with the call back of `step`, which deletes those of type `STEP` only
(`mixed`). Conditions, hits to ignore and command lists are an open choice
(`said`); loading a program is the initial state.

### SDCCcflow

A block is its number; of its instructions only the kind and labels of the last one are
kept, whether an IFX stands `alone`, and whether a label begins the block. The initial
states are all functions of `N` blocks that label optimisation lets through
(`BrokenDown`). `computeControlFlow` sets everything up again but `noPath`; `Descend` and
`Ascend` are the calls and returns of the recursive `computeDFOrdering`, in the order in
which the code walks `succList`; `eBBPredecessors` has `markNoPath`, which is right
behind it; `Dominate` is one block of `computeDominance`'s loop. Between two computations
an optimisation makes one of three changes: it disconnects a block that it has emptied, or
folds an IFX into a GOTO or into nothing. The control flow that the properties compare
with (`Flow`, `Reached`, `Dominance`) is defined from the instructions alone.

### SDCCloop

The flow graph is one step here: on the reducible graphs this module is about,
`SDCCcflow` shows `domVect` to be the dominators. `iCodeBreakDown` converts one block of the
source at a time; when the block jumps back, it puts the preheader in front of the
target and has the blocks in front of that jump to it (`replaceLabel`).
`createLoopRegions`, `mergeInnerLoops` (one region at a time, in any order, where the code
takes the order of the graph's edges) and `addToExitsMarkDepth` make the regions.
`FoldIfx` is what `cseAllBlocks` may do before the regions are used. `instr` follows one
instruction, an assignment to a global variable, from its block through
`loopInvariants` of one region after the other; `MayMove` has the conditions on control
flow, those on operands are left open.

### SdccCritical

The emitted code is data: for each kind of routine the sequence of its instructions, as
`genFunction`, `genEndFunction`, `genCritical` and `genEndCritical` write it, with `body`
for the programmer's part. The actions are the instructions, as the simulator executes
them, and the hardware's `Interrupt`. `frames` has the routines under way, the running one last:
functions called and interrupt routines alike; one byte is pushed for each `push`, and
only the bit that matters of it is kept (the carry of `psw`, bit 0 of `acc`). A body may compute
anything, call critical functions, or begin critical statements. It writes `EA` only where
no critical code is under way: that is a program's own business in critical code, and
`wanted` is what it last wrote. The compiler refuses critical code directly in critical
code (`SDCCast.c:5815`), so nesting goes through calls. The label in `jbc` lies behind the `clr`, so a taken jump is two
instructions on. `SdccCriticalProofs` has the code as a table (`Places`).

`WriteEA` has one more condition. A critical interrupt routine begins with `clr ea` and ends with
`setb ea`, whatever `EA` was; when a routine of the higher level interrupts it in front of
its first instruction and disables the interrupts, that is undone at its end. The
comment at `gen.c:4047` ("weird but possible, one should better use a different
priority") is about such routines, and the model leaves this case out.

## 3. Runs

| run | configuration | properties | shows |
|---|---|---|---|
| `heap` | 19 bytes, `size_t` of 32 values, initialised at start | `TypeOK` `HeapTiled` `FreeListSorted` `FreeOrLive` `Coalesced` `Capacity` `LiveDataIntact` `FailsOnlyWhenFull` `CallReturns` `PromiseKept` | the heap's structure, the user's data, and that the heap implements `HeapSpec` |
| `heap_reinit` | 15 bytes, lazy initialisation | `LiveDataIntact` (violated) | a second initialisation of an exhausted heap destroys the program's data |
| `ser_ir` | buffers of 2 and 3, 5 characters out, 6 in | `TypeOK` `NoLostWakeup` `TxInOrder` `SbufNotOverwritten` `FifoKept` `PutcCompletes` | the driver is a pair of FIFOs and no call or character is stuck |
| `ser_cts_rts` | receive buffer of 4, threshold 2, FIFO of 2 | `StoppedInTime` `NoOverrunWithoutRace` `FifoKept` `LineRestarts` | the handshake leaves room, but for one race, and starts again |
| `s51_interrupt` | three sources, all kinds of instructions, fairness | `TypeOK` `NestedByLevel` `RequestsKept` `MainGetsOn` `HighServed` `IdleEnds` | nesting and requests; nobody starves |
| `s51_idle_timer` | idle mode with a timer | `TimerEndsIdle` (violated) | the timer stands still in idle mode |
| `sdcdb_break` | `main` with one line and a function that is a single RET, a char of two values | `FunctionPointsArmed` `UserCount` `ClearedOnlyWhenUnused` `InterruptEnds` | the two tables agree where they have to, the count is right as far as its char can tell, and `^C` works |
| `sdcdb_unarmed` | as above | `UserBreakpointArmed` (violated) | a break point that was never sent |
| `flow` | all functions of five blocks, two changes | `NoPathExact` `DominatorsSound` `DominatorsExact` `ControlFlowEnds` | reachability and dominators are right after every change |
| `flow_lost` | the same, and a condition alone in its block may be folded in front of a disconnected block | `NoPathExact` (violated) | the code behind is lost |
| `loops` | the reducible functions of seven blocks with up to four jumps in which the first block of a loop is jumped back to only from inside the loop; one fold | `RegionsNested` `MovedBefore` `MovedExecutes` | regions are loops, inner ones first; an instruction goes only where it may |
| `critical` | up to five routines under way, two interrupt levels | `CriticalExclusive` `EnableRestored` `BitReturned` | critical code is not interrupted and leaves no trace |

### Bounds, and why they are enough

* *Heap.* With two-byte pointers a header has 4 bytes and no block is smaller;
  19 bytes hold four blocks of the least size with three bytes to spare, so that
  blocks with both neighbours free, one free, and none all occur, in any order
  of release, and remainders of 0 to 3 bytes (not split off) and of 4 (just
  split off). The requests 0, 1, 3, 5 and 30 are: nothing, less than the least
  block, between the least block and one more, more than that, and a size whose
  sum with the header exceeds `size_t`; 11 * 3 in `calloc` wraps around
  (33 in 32 values). There is no bound on the number of calls. `SizeMod` is 32
  where the real one is 65536; nothing but comparison with it matters.
* *SerIr.* With a transmit buffer of two there are at most three characters on
  their way, so five go once round the buffer and past its end; six characters in
  go round a buffer of three twice and can find it full.
  `Byte = 6` makes the receive buffer of three the largest for which the sum of a position and
  a count is never cut, as 128 is for the real 256. What a larger one does is in section 4.
* *SerCtsRts.* The file's 18 and 16 leave two places before `CTS` is set; so
  do the 4 and 2 of the run. The other side can hold back nothing of what is in its FIFO,
  which is as large as the threshold, the worst it is meant for. `RTS` changes
  twice, and ends enabled.
* *S51Interrupt.* Two levels of three sources are enough for two of one level and
  one of the other, in each position of the poll; one source is level-triggered
  (its flag is left to the program). The timer overflows with every tick; its period
  matters only where ticks stop, in `s51_idle_timer`.
* *SdcdbBreak.* A call stack of one place is full and empty at once, as the code's
  array of 1024 may be; the function whose entry is its exit has all four kinds
  of entries on one chain. Two break points of the user can be at one address or two, temporary or
  not. `MaxBp` bounds `bpnum`, and so how often the user sets one. `Char = 2` is where the real
  one is 256, so that the second break point wraps the count, and removing one
  or both wraps it back. The start-up code at address 0 belongs to no function, as usual; with a
  function there, which `run` then pushes, the properties hold too (1.29 million states), and
  the proofs are for every program.
* *SDCCcflow.* Five blocks hold a loop with two ways in (irreducible), one with two back
  edges, a diamond, and a block in front of and behind each; two changes are what it
  takes to empty one block and fold the condition in front of it. The kinds of last
  instruction are those with one target; jump tables and calls that do not return add
  nothing to what edges there may be with five blocks.
* *SDCCloop.* Seven blocks with four jumps hold three loops in each other, or two beside each
  other in a third, and loops that share their first block, with preheaders of their own.
  One folded condition suffices to change the dominators of an exit.
* *SdccCritical.* `main`, a routine of each interrupt level, and two of critical code, in any order
  that levels allow: critical code in a function called by critical code, in an interrupt
  routine that came while critical code was entered or left, and so on. The theorems have no
  bound.

Deadlock is not checked in `heap_reinit`, where a corrupt heap is not
followed any further, in `ser_ir`, which ends when the characters are used up, and in
the runs of `SDCCcflow` and `SDCCloop`, which end when the compiler is done with the
function. In all others it is.

### Fairness

* `SdccHeap!FairSpec`: a call that has begun goes on, `WF(Library)`. The program
  need not make calls. The library is sequential code without waits.
* `SerIr!FairSpec`: the transmitter works at its rate (`WF(Leave)`), an enabled
  request is served (`WF(ser_handler)`), and the interrupted program goes on
  (`WF(Call)`); whether a character arrives, or the program makes a call, is left
  open. Weak fairness is enough, since the handler's guard stays true once the
  program has unmasked it: masked sections are a few statements long and
  `WF(Call)` ends them.
* `SerCtsRts!ReadingSpec`: as above, and the program keeps calling `ser_getc`,
  as `LineRestarts` needs: only a `ser_getc` that finds the buffer empty enables `CTS`.
  The other side owes one thing: in the end it lets the driver send again (`WF(RtsChange)`, with
  the last change an enabling one), since a `ser_putc` that waits for `RTS` keeps the program from
  its next `ser_getc`. It need not send anything.
* `S51Interrupt!FairSpec`: the simulator goes on, and the service routines of the
  simulated program come to their end, at each depth: strong fairness, because inner services
  interrupt them. `LongServices` adds that neither the program nor a routine at the lower level does
  nothing but RETI and writes to the registers of the interrupt system. Without that `HighServed` fails: `do_interrupt`
  takes the first source of the poll order that is eligible, whatever its level, and a
  one-instruction service routine of the lower level returns with `was_reti`
  set, which holds off the acceptance for the turn; so a stream of requests of the
  lower level that stand first in the poll order keeps the higher one waiting. A
  real routine has more than one instruction, and is then interrupted by the
  higher level.
* `SdcdbBreak` has safety properties only, `InterruptEnds` too: it is about the first stop
  after `^C`. That a program reaches a break point is not
  the debugger's to promise.
* `SDCCcflow!Spec`: the compiler's functions run on (`WF(computeStep)`); it is a
  sequential program. Whether an optimisation finds something to change is open.
* `SDCCloop` and `SdccCritical` have safety properties only. Nothing bounds what a body does.

## 4. Where the code and its documents disagree

Each of these is a run whose one property states what the document says and is
violated by what the code does.

1. `heap_reinit`: the comment at `device/lib/malloc.c:48` says that a list head of 0 means
   no free blocks; on the ports with the lazy initialisation the code takes
   it for an uninitialised heap. A program that has the whole heap and calls
   `malloc`, `calloc` or `realloc` once more gets it overwritten. The theorem
   `HeapReinitOnlyWhenExhausted` says that this is the only case.
2. `s51_idle_timer`: the comment at `uc51.cc:1743` says "tick hw in idle state";
   `tick` does not do so, and a timer never ends idle mode.
3. `sdcdb_unarmed`: `doc/sdccman.lyx:52781` has `break` set a break point;
   `setBreakPoint` sends it to the simulator only when its own table has no entry there,
   and the entries of an interrupted `step`, `next` or `finish`, which were never sent,
   count as such.
4. `flow_lost`: `src/SDCCBBlock.h:39` says that `noPath` means that no path leads to a
   block. `eBBSuccessors` passes over such blocks behind a block that has instructions, but not
   behind one that has none. When one block has been disconnected and an IFX alone in the block
   in front of it is then removed, everything behind is marked for good and no code is emitted
   for it.

Seen in the code, and not runs of their own:

* The comment at `device/lib/ser_ir.c:34` allows buffers of up to 255 bytes; the cut of
  `pos + cnt` to an `unsigned char` before the modulo is known to be harmless only for buffers of
  up to 128 (`FitsByte` and `FitsRx`, the hypotheses of the proofs in section 5): with `Byte = 4`
  and buffers of 3, `TxInOrder` fails. The runs are within these sizes, so that no property of them
  speaks about larger ones.
* `listUSERbp` has "if there are none then say so & return" (`debugger/mcs51/break.c:312`), but
  asks `userBpPresent`, a `char`. With 256 break points of the user it is 0, and
  `info break` says that there are none, `delete` without a number deletes none
  (`cmd.c:1466`) and completion offers none (`sdcdb.c:1416`). The table itself is not affected.
* `sim/ucsim/doc/cpu_types.html:100` promises four priority levels for the 8051R;
  `it_priority`, which computes them (`uc89c51r.cc:92`), has no caller.
* The manual warns against jumps into a loop (`doc/sdccman.lyx:56417`). One more jump has the same
  effect: only blocks in front of a loop's first block are sent to its preheader
  (`SDCCBBlock.c:624`), so a jump to that block from behind it that is not part of the loop goes
  past what was moved there. With `JumpsBehind = TRUE`, `MovedBefore` fails; `loops` leaves such
  functions out.
* `computeDominance` looks at forward edges only and so finds wrong dominators on
  irreducible graphs, on the safe side: none is missing (`DominatorsSound`).
* The depth of a loop that contains no other is that of the innermost loop of the deepest nest,
  also when it stands alone (`SDCCloop.c:229`), where `SDCCBBlock.h:34` has "loop depth of
  this block".

* `NoOverrunWithoutRace` names the race of `ser_ir_cts_rts.c:160`: `ser_getc` finds the
  buffer empty, characters arrive up to the threshold and the handler disables
  `CTS`, then `ser_getc` enables it on its old test. The threshold is then already used
  up and the buffer may overrun. What it holds is not damaged (`FifoKept`).
* When the stop that answers `^C` ends a command itself, `userinterrupt` stays set
  and the next command returns to the prompt without running the program
  (`debugger/mcs51/cmd.c:726`).
* A break point of the user that stands in its chain behind an entry of `step` or
  `next` is not announced when the program stops there (`break.c:413`).
* Ignoring `n` hits ignores `n - 1` (`break.c:488`, `debugger/README:12`); hit counts are
  not in the model.
* A bit write to `IE` does not hold off the next acceptance as a byte write does
  (`interrupt.cc:100`).

## 5. Proofs

TLAPS checks the theorems below for every value of the constants that the named
assumptions admit. Each rests on an inductive invariant that TLC was shown first.

**`SdccHeapProofs`**, from `HeapAssumption`: the heap has room for a header, no block
size wraps around in `size_t`, requests are in its range. The invariant is `Inv`:

* `WellFormed`, `Locals`: functions and scalars have their types;
* `Tiles`: blocks tile the heap, each at least a header long;
* `Links`: the free list is sorted and no free block lies between two linked ones, so
  that it is complete;
* `Owners`: a block is free or live, free ones do not touch, live ones have room;
* `Walks`: a walk stands on a link of the list; those of `free` and `realloc` have
  not passed `ptr`, and the previous link of `realloc` leads to the one it stands on.

`Walks` is what the properties lack to be inductive: `FreeReturns` and
`ResizeInPlace` merge with what `f` and `h` name and with nothing else, so
that the result is coalesced and sorted only because the walk stopped at
`ptr`. The proof has a lemma per action, and per action one step for each conjunct
it disturbs. Results: `HeapInvariant`, `HeapTypeCorrect`, `HeapAlwaysTiled`,
`HeapListSorted`, `HeapListsExact`, `HeapCoalesced`, `HeapCapacity`, and `NoReinit`,
that with initialisation at start-up the heap is never initialised again.

What the program keeps in its blocks builds on `Inv`. Three invariants are added, each proved by
itself: `Data`, that the user bytes of every live block are all kept until an
exhausted heap is initialised again; `Sized`, that the size a walk looks for is not 0 and
fits `size_t`; and
`TooSmallSoFar`, that the free blocks a walk has passed are smaller than that. `Data` rests on the
places of the stores: a link field lies in a free block (`LinkOutside`), the writes of a
split in the block that is split (`CarveOutside`), so that none touches a live one.
With `Data` every step maps to a step of `HeapSpec` or to a stutter: the region of a
block is its user bytes, and `Tiles` keeps these apart. Results: `HeapDataKept`,
`HeapDataIntact`, `HeapKeepsPromise` (the refinement), `HeapFailsOnlyWhenFull`,
`HeapReinitOnlyWhenExhausted`. Where `LazyInit` matters the theorems name it: without
`~LazyInit` neither the data nor the promise is kept, as `heap_reinit` shows.

**`SerIrProofs`**, from `SerAssumption` and, as a hypothesis of each theorem,
`FitsByte`: the sum of a position and a count of the transmit buffer fits an
`unsigned char`. `IInv` has

* `Held`: `ES` is set exactly outside the masked statements;
* `Relied`: what the program has tested and relies on is still so (room after the
  wait, `busy` in each branch);
* `Handover`: `busy` if and only if the transmitter is at work or `TI` is pending,
  but between the two statements that start it;
* `Counted`, `InSequence`: the characters on the line, in the transmitter, in the
  buffer and in the current call follow each other without a gap.

`TxInOrder` and `NoLostWakeup` follow from these and neither is inductive alone:
the first needs to know where in the buffer each character is, across the wrap of
`xpos`, and so the arithmetic of `Index` (`TxIndex` and the `Mod...` lemmas).
Results: `SerInvariant`, `SerTypeCorrect`, `SerNoLostWakeup`, `SerTxInOrder`,
`SerNoOverwrite`.

The second half of the module proves the refinement `SerFifoKept`, with the same hypothesis
for the receive buffer (`FitsRx`). First what a ring buffer is as a sequence: reading takes
its head off (`StoredRead`), storing behind its last place appends (`StoredWrite`), and
setting the position from the buffer's size to 0 changes nothing (`StoredWrap`).
Then one lemma for each action that moves a queue (`LeaveLeaves`, `TransmitKeeps`,
`StorePuts`, `SendPuts`, `ReceiveTakes`, `ReadGets`, `WrapKeeps`); all other actions
stutter. `IInv` is what makes it work: `Handover` that the handler finds the transmitter free,
`Counted` that the stored character has the next number, `Held` that the handler does not
run while `rpos` is one past the buffer.

**`SerCtsRtsProofs`**, from `CtsAssumption` (buffer, threshold and the other side's FIFO of
any size, as long as what the other side still sends fits the threshold), has two parts.
The handshake: `Hand` is inductive. It relates the pin to the count, an open line means
fewer than `RBUFLEN - THRESHOLD` characters unless the race of `ser_getc` has been met
(`late`), and contains `StoppedInTime`, how many characters may still come. Results:
`HandshakeInvariant`, `LineStoppedInTime`, and `HandshakeHolds`, that without that race no character is lost to a
full buffer.
The driver: every step of `SerCtsRts` is a step of `SerIr` or a stutter when the two
places where its `ser_getc` waits and masks are read as `"idle"` (`Place`), which is
`CtsImplementsSer`. So the theorems of `SerIrProofs`, instantiated as `Low`, hold of this
driver, and `CtsFifoKept` is one of them: nothing about ring buffers is proved twice.
`CtsAssumption` repeats what `SerAssumption` says of the shared constants, so that the
instance's assumption holds.

**`S51InterruptProofs`**, from `S51Assumption`: any finite poll order without
repetition. `TypeOK /\ NestedByLevel` is inductive: an acceptance puts a higher level
on top (`AcceptNested`), RETI takes the top off (`FrontNested`), and nothing else
changes the levels of services under way, writes to `IP` least of all. Results:
`S51Invariant`, `S51TypeCorrect`, `S51NestedByLevel`, `S51RequestsKept`.

**`SdccCriticalProofs`**, from `CriticalAssumption`: at least one routine may be under way;
there is no bound on how many. `IInv` is the three properties' common reason:

* `Shape`: each routine's part of the stack begins where that of the one below ends, and
  its height is given by its kind and program counter (`Height`);
* `HeldClear`: `EA` is clear while critical code is under way;
* `Saved`: where each critical routine has the `EA` that it will restore at each of its
  instructions, in the carry, on the stack or in the statement's bit, and that this is
  `FALSE` below other critical code and `wanted` otherwise (`Value`);
* `Carried`: where a bit function has its result;
* `Kept`: where an interrupt routine has the carry and accumulator it found.

What a routine that is not running will find in the registers is what the routine above
it has to restore (`VC`, `VA`), which makes the claims about all routines one induction
along `frames`. A step of the running routine disturbs nobody else (`Undisturbed`), so each
instruction's lemma has only to establish the running routine's own claims at its next
instruction (`TopStep`, `Moved`); calls and interrupts add a routine (`AppendStep`), and
`Return` hands the registers back (`ReturnStep`). Results: `CriticalInvariant`,
`CriticalTypeCorrect`, `CriticalIsExclusive`, `CriticalRestores`, `CriticalReturnsBit`.

**`SdcdbBreakProofs`**, from `BreakAssumption`: any program, any number of break points,
depth of the call stack and width of the char. `TableInv` has the property
`FunctionPointsArmed` and what the properties lack: `Paired`, that the entries of the user are
those with a number; `OneEach`, that no number is given twice, without which
there would not be as many entries as numbers in what is removed; and `Counted`, that
`userBpPresent` is the number of break points modulo `Char`. That a char that
is counted up and down keeps this needs that remainders add (`ModAdded`, `ModTaken`),
which rests on their being unique (`ModUnique`); `UserCount` follows, because a number below `Char` is its own
remainder (`CountFits`). A chain loses entries in `clearUSERbp`, `deleteUSERbp` and
each `dispatchCB`; the first lemmas say what `Without` leaves of it, by induction over its
length (the least length of which the claim fails), and that the entries of
`FENTRY` and `FEXIT` are in none of the removed sets, which is why
`FunctionPointsArmed` survives. `StackInv` bounds the call stack and is separate.
Results: `BreakInvariant`, `BreakTypeCorrect`, `CallStackFollowed`
(`FunctionPointsArmed`), `BreakPointsCounted` (`UserCount`), `ClearsOnlyUnused`
(`ClearedOnlyWhenUnused`), `InterruptAnswered` (`InterruptEnds`).

**`SDCCcflowProofs`**, from `FlowAssumption`: functions of any size and shape, and any
number of changes to them. Two invariants:

* `Walk` is about the algorithms, on whatever graph they are given: `Searching` and
  `Searched` that the depth first search numbers a block only after all it leads to has been
  seen, and enters each from one that comes before it; `Passes` that a pass of
  `computeDominance` that has changed nothing has left behind it vectors that agree
  with their predecessors, so that the last pass ends on a fixpoint. It holds always
  (`WalkInvariant`).
* `Graph` adds that the graph is the function's: `Edges` and `NoPathEmpty` that the
  successors and `noPath` agree with the instructions, `SoundSoFar` that no dominator has
  left a vector. It needs `~FoldBeforeLost` as a hypothesis, since a condition alone in its block that
  is folded in front of a disconnected block breaks `NoPathEmpty`; the run `flow_lost`
  shows that, and the code can do it.

`DominatorsSound` is part of `Graph`: a block that can be reached only through `d` has only
such predecessors. `DominatorsExact` needs an argument about the fixpoint. Each vector is its
block and the intersection of the vectors of the predecessors that the search numbers
before it; so a member of a vector comes before the block (`DominatorsBefore`), and two
members lie one above the other (`DominatorsTransitive`, `DominatorsLine`), which makes
`immedDom` the last of them. An edge that is left out goes to a block numbered
earlier; on a reducible graph its end dominates its beginning, so a block whose
vector lacks `d` cannot lose that by it (`NothingElse`). Results: `WalkInvariant`, `FlowTypeCorrect`,
`GraphInvariant`, `NoPathMarksUnreached` (`NoPathExact`), `DominatorsFound`
(`DominatorsSound`), `DominatorsComputed` (`DominatorsExact`).

**`SDCCloopProofs`**, from `LoopAssumption`: functions of any size, with any jumps.
`Reach` is first shown to be the least set that contains where it starts and is closed
under the edges, so that a claim about paths is one about a closed set
(`ReachHas`, `ReachLeast`); the lemmas on dominators follow (`DominatesOneWay`,
`EntersThrough`). `LoopInv` has, in the order of the passes:

* `Preheaders`, `Broken`: the blocks that are there are in the order of the source with each
  preheader in front of its block (`Key`), no block in front of a block with a preheader jumps
  past it, and taking the preheaders out of the labels gives the function as it came (`Source`);
* `Flow`, `Entered`: the flow graph and its dominators are those of the instructions,
  control leaves a preheader for its block only, and the preheader dominates the first block of the
  loop. The last is proved by comparing the graph with that of `Source`, edge by edge
  (`EdgesCompared`): what jumps past the preheader stands behind it, closes the loop, and so comes
  from inside it (`PassesPreheader`). It needs `~JumpsBehind`, a hypothesis of the theorems, as
  section 4 explains;
* `Region`, `Merged`, `Loops`: a region is dominated by its entry, one that is merged already is
  part of every region with its entry, with a smaller count, and a region is the least set closed
  backwards that the order of merging may give;
* `Left`, `Moved`: the exits contain what leaves the region also after conditions were folded; the
  place of the instruction dominates where it was, and from there control stays in the loop
  until it comes to where it was.

From `Loops`, a region is the natural loop: what leads back to the entry does so through the
region (`LeadsBack`), and the natural loop is closed (`LoopInRegion`). Results:
`LoopInvariant`, `LoopsNested` (`RegionsNested`), `PreheaderBefore` (`MovedBefore`),
`MovedIsExecuted` (`MovedExecutes`). That functions are reducible is not used; the model needs
it, since only then `domVect` is the dominators.

Only model-checked:

* liveness, which TLAPS cannot prove (fairness needs ENABLED): `CallReturns`,
  `PutcCompletes`, `LineRestarts`, `MainGetsOn`, `HighServed`, `IdleEnds`,
  `ControlFlowEnds`. All safety properties and all refinements that a passing run
  checks are proved, some under a hypothesis that the paragraphs above name (`~LazyInit`,
  `FitsByte`, `FitsRx`, `~FoldBeforeLost`, `~JumpsBehind`).

There are no recursive operators. What a function defined by recursion computes
(`Without`, `Reach`) is proved by the least number of which a claim fails.

## 6. What is not modelled

* The compiler's front end and most of its passes, which are translations over unbounded
  trees, with little state that a bounded instance would explore; overlays and the data
  flow over small graphs are in the plan.
* Assembler and linker: translations of files; allocation of areas is in the plan.
* The simulator's instructions: one function of data each. Its timers, UART, PCA and
  watchdog are in the plan. Console, sockets and files are I/O. The other CPUs have the
  same structure as the 8051.
* Arithmetic, strings, `printf` and floating point of the library: functions of
  their arguments, sequential; candidates for operators checked against a definition.
* In sdcdb: symbols, expressions, display, conditions and hit counts of break points, and that a
  stop in no function, but on a line of some module, is taken for one at the end of `main`
  (`debugger/mcs51/cmd.c:677`).
* Vendored code (GNU binutils, cpp), device headers, the regression tests.

In the parts that are modelled: `ser_init` called while a character is under way;
`ser_can_rcv` and `ser_can_xmt`, which read a count; in the interrupt system machine cycles, and
`is_active` (`uc51.cc:1808`), which only timer 2 ever switches off (`timer2.cc:133`); a second program loaded into sdcdb; in the compiler's loops the
conditions on operands, induction variables, loop reversal, and the blocks added behind
conditional exits; in critical code the register banks, the external stack, a statement that saves `EA` elsewhere than
in a bit (`gen.c:13267`; `genCritical` is given a bit), and a statement
whose bit is lost because the function is entered again (its code is not reentrant).

## 7. Plan

In this order:

1. *Timers of the simulated 8051* (`timer0.cc`, `timer1.cc`, `timer2.cc`), with the
   cycles of an acceptance that never reach them (`uc51.cc:1853`, `uc.cc:2988`), and the
   watchdog's feeding protocol (`wdt.cc`).
2. *The simulated UART* (`serial.cc`) under the `SerIr` driver, as a composition: a program
   compiled against the library, run by the simulator.
3. *Two systems with `ser_ir_cts_rts.c` that face each other*, for the deadlock
   of two full buffers.
4. *Compiler, overlays* (`src/SDCCmem.c:1275`): which locals may share a segment, given
   the calls and the interrupt routines.
5. *Algorithms*: `SDCCdflow.c`, `_divulong.c`, the linker's areas.
