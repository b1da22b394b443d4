# nio-apps: TLA+ models, checks and proofs

This directory models the part of nio-apps that keeps state and talks to
others: the service client `src/common/fnsvc.c`, the `fnctl` backends under
`src/platform/`, and the tools that change the machine they run on. Lines are
given as `file:line` relative to the repository's root. `PROJECT.json` maps
every definition to the lines it stands for.

## The system

| part | state it keeps | operations | talks to |
|---|---|---|---|
| **fnsvc** (`src/common/fnsvc.c`) | `req_buf`, `resp_buf`, `list_name`; the diagnostics `last_error`, `last_status`, `last_raw_error`, `last_response_len`; `disk_last_error` | list a directory (page by page, through a callback), resolve a path, mount, unmount, restore boot, read the diagnostics | the file and disk services, through `fnctl_nio_call()` |
| **fnctl, app-store backends** (`src/platform/{linux,atari,bbc,amiga}/fnctl.c`) | the last transport error; the Amiga also a copy of the state and of the unit map | get/set state (URI and display path), get/set the slot of a unit, raw call | FujiNet's app store (keys shared by all programs), the raw device call |
| **fnctl, MS-DOS backend** (`src/platform/msdos/fnctl.c`) | the drive found, the last DOS error | the same operations over an IOCTL of the block driver | FUJINET.SYS |
| **MS-DOS library and tools** (`msdos/lib/nio.c`, `msdos/apps/nioprobe.c`, `nioread.c`) | none between calls | raw call, disk info, sector read | the driver's interrupt interface |
| **IRQ monitor** (`msdos/apps/irqmon.c`) | 16 interrupt vectors, the handlers they held, counters and the last sample | install, count and chain, sample, clear, uninstall | the interrupt hardware, DOS |
| **HTTP and app-store test clients** (`apps/test/fhttpbin.c`, `astest.c`) | one session handle; one key | a fixed series of service calls | the HTTP service, the app store |
| **checksum benchmark** (`apps/test/checksumbench*.{c,s}`) | none | four implementations of one checksum, timed | timer.device |
| **Amiga DOS-list diagnostics** (`apps/test/dynamicdosnode.c`, `fmount_inhibit_exp_*.c`, ...) | an entry of the DOS list and the process serving it; a drive's inhibition | add, serve, remove; inhibit, release | AmigaDOS |
| **clock, Wi-Fi, raw file tests** (`apps/test/clock.c`, ...) | none between requests | one request, one printed reply | services |
| **image builder** (`msdos/scripts/create_msdos_img.py`) | one FAT image | build | the file system |

How they interact. An application calls fnsvc and fnctl in its own thread;
every call blocks until its exchange has been answered or has timed out. What
is concurrent is on the other side: the directory and the app store belong to
FujiNet and are changed by other clients between two exchanges of one call, and
an exchange can fail before or after it took effect. (The disk slots are FujiNet's
too; that others change them between two calls of this program is not modelled.) Inside
the program only the listing's callback, interrupts (IRQ monitor) and a second
process (dynamic DOS node) run in between.

What is hard, and what correct means there:

* **listing**: entries are addressed by index and the directory changes between
  two pages. Correct: in order, nothing twice, nothing missing, except as far
  as a change explains it; parsing never leaves the reply; the call returns.
* **diagnostics**: five variables written by three layers. Correct: what they
  say agrees with how the call returned.
* **disk calls**: a lost reply hides a success. Correct: a caller that trusts
  a success, and an explained failure, is never wrong about a slot.
* **resolve**: two strings of unknown length into two buffers. Correct: a
  success has copied the right bytes of a complete reply. Sums of lengths are cut
  to 16 bits, so for lengths near 2^16 it has not, and the property says so.
* **state**: two keys, two writes, programs that die in between. Correct: what a
  successful `set_state` leaves, if no other write fell into it, stays until
  somebody writes again, and is what is read until then. A writer whose second
  write fails, or that is killed before it, leaves a mixture, and so may two
  writers at once: the code allows it, and no property forbids it.
* **unit map**: a read that fails is answered without saying so. Correct: the
  answer is what was set, or one that this backend documents by its fallback;
  on the Amiga never a map older than the program's own.
* **MS-DOS backend**: the driver is recognised by its answer to a query that any
  driver may get. Correct: a success is about FUJINET.SYS and took effect.
* **NIO tools**: replies taken apart from a buffer on the stack. Correct: what is
  printed was received.
* **HTTP client**: a case has six steps, each of which may fail or stop halfway.
  Correct: no handle stays open, a pass is about this case's answer, the program
  ends.
* **IRQ monitor**: interrupts at any point of hooking, sampling, clearing and
  unhooking. Correct: each is counted once and goes on to its old handler, what is
  shown is what was counted, and the vectors are put back.
* **checksum**: two assembler loops over words, an address space with an end.
  Correct: the sum of the C function, and no read outside the buffer.

## Modules

| module | models |
|---|---|
| `FnsvcCall` | the diagnostics, `fail()` and `service_call()`; extended by `FnsvcList`, `FnsvcResolve` and `FnsvcDisk` |
| `FnsvcList` | `fnsvc_list_directory()` and a directory that changes |
| `DirListing` | the abstract listing: what a caller is promised |
| `FnsvcListRefinement` | the mapping from `FnsvcList` to `DirListing`; the inductive invariant |
| `FnsvcListProofs` | the theorems about them |
| `FnsvcResolve` | `fnsvc_resolve_path()` |
| `FnsvcDisk` | the three disk calls, `disk_result()`, and the service's slots |
| `FnsvcExchange` | a program that makes calls of both kinds, over the diagnostics they share |
| `FnsvcExchangeProofs` | the theorems about the three |
| `FnctlState` | `fnctl_get_state()`, `fnctl_set_state()` on Linux, Atari, BBC and Amiga |
| `FnctlUnits` | the unit map and the raw call of the same backends, and their specification |
| `FnctlProofs` | the theorems about the two |
| `FnctlDos` | the MS-DOS backend: drive discovery, IOCTL calls, raw calls, the DOS error |
| `NioLib` | `nio_disk_info()`, `nio_disk_read_sector()` and the tools NIOPROBE and NIOREAD |
| `MsDos` | programs of both kinds, one after another on one machine |
| `MsDosProofs` | the theorems about the three |
| `IrqMon` | the IRQ monitor: hooking, counting, sampling, drawing totals, clearing, unhooking |
| `IrqMonProofs` | the theorems about it |
| `IrqClock` | when its main loop samples, by a tick count read in two words |
| `ChecksumBytes` | buffers, and the arithmetic of the checksum |
| `Checksum` | the C function, one step per byte: the abstract specification |
| `ChecksumAsm` | both assembler versions, by instructions, over one set of registers |
| `ChecksumProofs` | the theorems about the three |
| `HttpBin` | the HTTP client's cases, its reading loop and its verdicts |
| `HttpProofs` | the theorems about it |
| `MC...` | instances for TLC |

`FnsvcList`, `FnsvcResolve` and `FnsvcDisk` extend `FnsvcCall` and share its
state `diag`; `FnsvcExchange` composes the last two; `FnsvcListRefinement` extends `FnsvcList` and instantiates
`DirListing`; `FnctlUnits` extends `FnctlState`, whose calls load and use the same
copies; `MsDos` composes `FnctlDos` and `NioLib`; `ChecksumAsm` instantiates
`Checksum`. A definition whose name
begins a comment "A slip" is a plausible mistake in the definition after it; it
is used only to see that a property notices it.

### How state and actions correspond to the code

* **`FnsvcCall`**. `last_error`, `last_status`, `last_raw_error`,
  `last_response_len` are fnsvc.c's statics. `ReplyArrives` and
  `TransportFails` are the outcomes of `service_call()`, in which the service's
  side of the exchange is nondeterministic: any status, any length.
* **`FnsvcList`**. A page is requested and checked in one step (`PageArrives`,
  `PageLost`), because nothing but the exchange itself can be interleaved
  there; each entry is parsed in one step (`ParseEntry`, `EntryOutOfBounds`),
  because the callback runs there; the end of a page is `EndPage`. The
  directory changes (`DirInsert`, `DirDelete`) between any two steps. `ListCall`
  builds the request as far as its length: `pc` is `"overrun"` when it is longer than
  `req_buf`, and what the program does after that is undefined and not followed.
  A reply is
  what the parser can tell of it: its length, the flags and length in its header,
  and the entries in it. Names are numbers in the service's sort order.
* **`FnsvcResolve`**. One action: a call makes one exchange and nothing
  comes in between; the two strings are followed byte by byte as far as which
  string a byte of the caller's buffers came from. Every sum is cut to 16 bits where
  the code cuts it. `ret` is `Overrun` when the request was written past the end of
  `req_buf`, which again is not followed. A length that is read beyond the bytes a
  reply brought is any length.
* **`FnsvcDisk`**. One action per call and outcome. `disk` is the service's
  slots; a call that is lost may or may not have taken effect there. `belief` is
  what a caller may conclude from the results it has seen, and is how the
  meaning of the return value and of `fnsvc_disk_last_error()` is stated.
* **`FnsvcExchange`**. The next-state relation is that of either kind of call; a
  call for a path ends what can be said of the last disk call's diagnostics.
* **`FnctlState`**. A program's call is a sequence of key reads or writes, one
  step each, so two programs interleave between the URI and the path. The
  backends differ in two respects only (does `set_state` store the path, is
  there a copy in the program), and `Platform` says which one is modelled. The
  app store's own behaviour is external: a write fails with the old, the new or
  a partial value left, a read fails into an empty string.
* **`FnctlUnits`**. A call of the unit map is its checks (`BeginSlotCall`), on
  the Amiga the two key reads of `ensure_state()` if it is the program's first
  call (`ReadUri`, `ReadPath` of `FnctlState`, with `Ensure`), and one exchange
  (`ReadSlot`, `WriteSlot`). `Then` says where each call goes on once the copies are
  there. The key of a unit is its last digit (`UnitKey`). `mapped` is a ghost:
  what the last successful `set_unit_slot` set, until the unit is written again.
* **`FnctlDos`**. One action per call, since nothing else runs. A drive letter
  is free, another driver's, or a unit of FUJINET.SYS; an IOCTL of it ends with
  an error, with a signed answer or with an unsigned one (`Outcomes`), anew each
  time, so a drive that answers may fail to answer the next time. `Probes` is one
  pass over the letters. A write that fails may have taken effect. The backend
  passes any unit and slot on; `RefusedUnitSlot` is FUJINET.SYS refusing one it does
  not have, which is assumed of the driver: it is not in this repository. `known` is
  what programs may conclude from the results they have seen, from one program
  to the next, and is how the meaning of the return values is stated.
* **`NioLib`**. A reply is its status, its length, its version and the length of
  the data it claims; a run of a tool is its exit code, the status it names, and
  how far into the reply it looked. Bytes beyond the length are what the stack
  held.
* **`HttpBin`**. One action per service call of `run_case()` and per try of
  `read_body()`. An answer is chosen when the request is opened; the reading loop
  gets it in chunks of any size, and no bytes at any point are its end, as in the
  code. The commit is a write of no bytes, which sets `written` again. `handle` and
  `answer` are ghosts. When
  `pc` is `"case"`, `ok` is the verdict of the case before.
* **`IrqMon`**. One action per C statement that an interrupt can come between;
  a counter of 32 bits is read and written as two words, as the 16-bit compiler
  does. `Interrupt(k)` is `chain_irq()`, which the processor runs with
  interrupts disabled. A counter is read a second time to draw its total
  (`DrawWord`, `DrawOther`); `shown` is what is on the screen. `sampledAt`, a ghost,
  is the number of interrupts at the last sample, unless one disturbed it. `iflag` is what `_disable()` and `_enable()` leave, and
  DOS enables interrupts inside its get- and set-vector calls.
* **`IrqClock`**. The comparison of `bios_ticks()`, two words read one after the
  other, with `next_tick`, and the count's return to 0 after 1800B0h. `rounds` lets
  the loop come round twice between two ticks, since it is that much faster.
* **`ChecksumAsm`**. One action per instruction of a loop that changes a
  register the loop uses, over registers shared by the two functions, which are
  called one after another as the benchmark does.

## The runs

| run | checks | bounds, and why they are enough |
|---|---|---|
| `list` | types; parsing stays in the reply; diagnostics agree with the result; order and completeness relative to the changes | 4 names of 1, 2, 2 and 3 bytes (the last one too long for `list_name`), 54-byte buffer: a page holds one or two full entries or four compact ones, so a listing has up to four pages, an insertion or removal falls before, in and after the page in hand; replies cut in the header, in an entry's head, name and times; `MaxChanges` = 2 changes per call, since one explains a repetition and a second lets it hide |
| `list_live` | `FnsvcList` implements `DirListing`; a call returns | 3 names and no bound on changes, so that liveness is checked on the whole behaviour |
| `list_request` | *violated*: "= 6 bytes" is the room a request needs beside its URI | the smallest URI the test refuses and the three below it |
| `exchange` | types; beliefs are true; the two channels of diagnostics agree after restore_boot; requests of less than 2^16 bytes fit; a success copied the right bytes unless the reply's lengths wrap | disk calls: 2 slots and one out of range, a URI that fits, one too long and none, reply lengths at and around the header. Path calls: arguments that fit exactly, are one byte too long, and wrap to a sum that fits; buffers of 0, 1 and 2 bytes against strings of 0 and 3 (empty, cut), replies cut in each field, string lengths on both sides of each sum that wraps. The constraint `OneKind` keeps the records of the two kinds from being multiplied: a behaviour goes on from states in which one kind has nothing on record |
| `disk_short_reply` | *violated*: fnsvc.h's promise about `fnsvc_disk_last_error()`, because of a malformed restore_boot reply | two slots and one URI; valid arguments only: with others a refused argument, which leaves the last call's reason, would hide this case |
| `state` | types; the two keys settle on one pair; reads return it; the Amiga's copy is the program's own; the unit map answers what was set or a known fallback | 2 programs, 2 values, 2 units and one out of range, all four backends: a mixture needs two pairs and two writers, a wrong slot a second unit and a second program. Programs and values are interchangeable (`SYMMETRY`). The constraint `OneAtATime` keeps the state, the unit map and the raw error from being exercised in one behaviour: they share nothing but the copies, and the call that loads the copies, whichever it is, stays in |
| `dos` | types, and the drive kept is FUJINET.SYS's; what programs conclude is true; the DOS error agrees with the result; tools print what was received | 3 drive letters in every lettering (free, foreign, two units, so FUJINET.SYS may come first, last, twice or not at all); 2 states, 2 units; one error code, as codes are only carried; reply lengths at and next to every limit, data lengths at 1013 (what fits in a reply) and near 2^16 |
| `irq_mon` | no interrupt goes to a wrong handler; counters are exact; a rate is the number of interrupts between two undisturbed samples; a torn sample or total is off by one carry; handlers are restored | 2 vectors, one NULL; words of 4 values, so a counter carries between its words and wraps |
| `irq_hooked` | *violated*: "Hooks hardware IRQ vectors while running" | words of 2 values |
| `irq_clock` | *violated*: the display goes on | a day of 40 ticks, a sample every 18: more than two samples in a day, the last one near midnight; words of 8 values, so that the count carries between them |
| `http` | types and the body buffer; handles are closed; a pass means what it should; the body is assembled exactly; the program ends | the eight cases of the code; a buffer of 3 bytes, chunks of 2, 2 retries; bodies with the expected text at the start, across two chunks, across the buffer's end, beyond it, missing; a base URL that fits every path and one that does not |
| `checksum` | register widths; no read outside the buffer; D2 survives; the result is the sum with end-around carry; both versions implement the C function | words of 2 bits and buffers of up to 3 bytes, so the greatest length a word holds occurs; addresses of 4 bits with a buffer across the end; bytes 0, 1, 128, 255, whose sums carry, do not carry, and give 255 and 256 |

Deadlock is checked except in the IRQ monitor's runs, where the program ends. (The
HTTP client ends too; `Exit` is the step it repeats then.)

### Fairness

`list_live` assumes weak fairness of the client's own steps only: a call runs in
its caller's thread, and `fnctl_nio_call()` returns with an answer or with a
time-out. Nothing is assumed of the directory, the network or the caller.
`http` assumes weak fairness of the program's steps, every library call
returning: no answer is promised, and it is the bounded retries and the finite
answer that make the program end.
`IrqClock` assumes weak fairness of the timer and of the main loop: the timer ticks
and the program runs. That the loop is faster than the timer is not fairness but the
guard of `Tick` (`rounds`): it comes round twice between two ticks, so the count it
compares is not torn every time. The violation comes from neither: with the next
tick taken modulo the day the display goes on under the same specification.

## What the runs found

* `fnsvc_disk_last_error()` is documented (`include/common/fnsvc.h:45-47`) as
  belonging to the most recent disk call, but a malformed reply to restore_boot
  is a failure with `FN_DISK_ERR_NONE` (`fnsvc.c:390`); a refused argument, too,
  returns before it is touched (`fnsvc.c:325`).
* `fnsvc_list_directory()` asks for room for 6 bytes beside the URI and writes 8
  (`fnsvc.c:119-132`): a URI that leaves 6 or 7 overruns `req_buf`. With a buffer of
  512 bytes these are URIs of 505 and 506 bytes; fnctl keeps none of more than 255.
* The IRQ monitor hooks every vector but puts back only those that were not
  NULL (`irqmon.c:163`): such a vector leads into freed memory afterwards.
* Near midnight the IRQ monitor schedules a sample at a tick count that is
  never reached (`irqmon.c:246-250`), and the display stops.

Facts about the code that its properties are worded around, none of them against a
document: the sums of lengths of `fnsvc_resolve_path()` wrap (`fnsvc.c:213`, `249`,
`259`), so that arguments of 2^16 bytes together overrun `req_buf`
(`ResolveRequestFits` says that nothing less does), and a reply whose lengths add up to
2^16 passes the tests, so that bytes it did not bring are copied (`LengthWraps` in
`CopiesSound`); on a backend without a copy, a `get_unit_slot` whose read fails says
success and answers the identity (`linux/fnctl.c:113`); `fnctl_last_dos_error()`
after a call that sent nothing is about an earlier one (`msdos/fnctl.c:173`); an
HTTP case passes when `fn_info()` fails or knows no status (`fhttpbin.c:236`), and
commits what was written of a body even if that is not all of it (`:227`);
NIOREAD names status 0 when a reply with that status is too short.

The listing's own limits are not findings but what its guarantees are relative to:
an insertion may repeat a name and a removal may hide one, and the theorems say
that nothing else can.

## What is proved

Every safety property that a passing run checks, and both safety refinements, are
theorems: about the modules above with their constants arbitrary, under
assumptions that the modules name and TLC evaluates on the runs' instances. These
are weak: `CallAssumption` and `ListAssumption` (a directory with fewer names than
2^16, a buffer that holds a page), `ResolveAssumption` (lengths have 16 bits),
`DiskAssumption`, `StateAssumption` (the values, the empty string and
what a partial write leaves are told apart), `UnitsAssumption` (at most ten units,
as a key ends in one digit), `DosAssumption` (errors are not 0), `NioAssumption`,
`IrqAssumption`, `HttpAssumption` (bodies are sequences), `ChecksumAssumption` and
`AsmAssumption` (a length fits in a word and a word in an address).

* **The listing** (`FnsvcListProofs`): type correctness, `ParseWithinReply`,
  `OrderedUnlessInserted`, `CompleteUnlessDeleted`, and that `FnsvcList`
  implements `DirListing`. The inductive invariant `ListIInv` is needed because
  none of them is inductive: what is delivered later is already in `resp_buf`,
  and what is delivered after that depends on the index. It counts the page in
  hand as delivered (`Pending`), relates the index after it to the rank of every
  name given (`OrderInv`) and of every name still to come (`CoverInv`), both up
  to insertions and removals before that name, and frames the directory by the
  ghosts (`GhostInv`). A page keeps it because a sorted directory has exactly
  one run of names at an index; an insertion or removal keeps it because it
  shifts the ranks of later names by one and is its own excuse.
  `DiagnosticsAgree` needs one fact more: the return that ends a listing leaves
  the diagnostics alone, so the page in hand has cleared them (`ParseDiagInv`).
* **The disk calls and resolve** (`FnsvcExchangeProofs`): type correctness,
  `BeliefSound`, `RestoreDiagnosed`, which are inductive together (`DiskIInv`);
  `ResolveRequestsFit` and `ResolvedCopies`, for all 16-bit lengths, which need no
  strengthening, as a call carries nothing over. `ResolvedCopies` names its one
  exception, the reply whose lengths wrap. Its argument is in two lemmas: what the
  checks before the first copy let through (`FirstErrorNone`), and how long a copy is
  (`FittedLength`). `ExchangeInvariance` carries all of it over to programs that mix
  the two kinds of calls: each keeps the other's invariant because the diagnostics
  they share keep their types, and a path call ends the claim about them.
* **The state and the unit map** (`FnctlProofs`): type correctness,
  `SettledPair`, `ReadsSettled`, `OwnCopy`, `SlotAnswers`, for any number of
  programs, on each platform, and for all interleavings: the run's constraint
  `OneAtATime` has no part in them. The inductive invariant `FnctlIInv` says what a
  program in the middle of a call has in hand (`CallInv`); that the last writer finds its
  own URI in the store between its two writes (`WriteInv`); that what is settled is
  what its setter's copy and every half-read state of it were taken from
  (`OwnerInv`, `HalfReadInv`, `ExpectInv`); and that a slot that was set is in its
  key, and in the copy of the program that set it (`KeyInv`, `SetterInv`).
* **The MS-DOS backend and tools** (`MsDosProofs`): type correctness, which
  includes that the drive kept is FUJINET.SYS's, `DosKnowledge`, `DosErrorTold`
  and `PrintsReceived`. They are inductive together with the type of what is known.
  The argument is in the search: whichever letters answer, the one chosen gave a
  signed answer, which no other driver gives, so that a later IOCTL of it, a write
  as well, reaches FUJINET.SYS or fails; and in the 16-bit sum of `nio_disk_read_sector()`, which wraps only for lengths that
  another test refuses.
* **The IRQ monitor** (`IrqMonProofs`): type correctness, `ChainsToOriginal`,
  `CountExact`, `HandlersRestored` and the action properties `RateExact` and
  `SampleWithinCarry`, for any number of vectors and words of any width. The
  inductive invariant `IrqIInv` says where interrupts are disabled (`FlagInv`), how
  far hooking and unhooking have come (`HookInv`), that a counter halfway through
  its clearing has its first word cleared and nothing counted (`ClearInv`), of which
  value the word read first is, and how far the counter has moved since (`TornInv`), and
  that an undisturbed sample is the number of interrupts there were then
  (`SampledInv`). The arithmetic of two words
  comes down to the uniqueness of quotient and remainder (`UniqueQuotient`).
* **The HTTP client** (`HttpProofs`): type correctness, with the bound of the body
  buffer, `HandlesClosed`, `BodyExact`, `VerdictSound`, for bodies, buffers, chunks
  and tries of any size. The inductive invariant `HttpIInv` carries each part of a
  verdict from the step that settles it to the one that gives it: the answer
  (`AnswerInv`), the status (`StatusInv`), the body (`BodyInv`); and
  that nothing has passed before the first case (`CountInv`). `StoreExtends` is the
  lemma about sequences: storing what fits of a chunk after what fitted of the bytes
  before leaves what fits of both.
* **The checksum** (`ChecksumProofs`): the C function
  computes the sum modulo 255 (`FoldSum` is the lemma: folding a carry is adding
  modulo 255); the assembler versions keep their registers within their widths,
  read inside the buffer, preserve D2, return that sum and implement the C
  function. The inductive invariant `AsmIInv` adds where the end pointer is, how
  many rounds DBRA has left, that D2 is 0 inside the ADDX loop and on the stack
  meanwhile, and that the bytes added so far, the carry still to be added
  counted, come to their sum modulo 255.

Only model-checked: liveness (`ListReturns`, `Finishes`), since the proof system
does not reason about `ENABLED`, on which weak fairness rests. The four violated
properties are refuted by runs, and `IrqClock` has no other.

## Not modelled, and why

* What is printed, drawn or parsed from a command line.
* Clock, Wi-Fi and raw file test clients: one request and the printing of its
  reply, no state in between.
* The app-store test client: a fixed series of calls on two keys. Its one defect
  needs no model: it expects a key not to be there that it leaves behind
  (`astest.c:187`).
* The timing loop of `checksumbench.c`: two readings of a clock around a counted
  loop; only a printed figure depends on it.
* The Amiga's DOS-list programs: experiments run to find out what AmigaDOS does,
  so that a model would assume their answer. Most only print what they read.
* The image builder: it runs mkfs.fat and mcopy once each.
* Build files and the BBC line reader (one OS call).
* A callback that calls a service itself, and a directory of 2^16 names: see the
  hazards in `PROJECT.json` that carry a note. Strings of 2^16 bytes and more, whose
  lengths `strlen` would give and a cast cuts, are not followed either, nor is what a
  program does after it has written past a buffer.
* The listing is not composed with the other service calls: they share `diag` and a
  buffer, but nothing that outlives a call is read by the next.

## Plan

1. The safety half of the two liveness properties, which can be proved: a measure
   that every step of the HTTP client decreases (cases left, bytes left, tries
   left), and that a step of the listing either ends the page or gets further in it.
2. What an application may conclude from `DirListing` alone, proved of the abstract
   specification, so that it holds of every backend that implements it.
3. An abstract store for `FnctlState`, with a mixture as an explicit outcome of two
   writers, and the refinement.
4. The listing composed with the other service calls, with callbacks that make some.
