# A TLA+ model of libhw

libhw is a C library (with a Python binding) that talks to a microcontroller
through a debug probe: it reads and writes memory and registers, halts and runs
the core, programs flash, and knows the architectural state of Cortex-M parts
from tables generated out of Arm's manuals. This directory models the parts of
it that are hard to test, checks them with TLC, and proves with TLAPS every safety
property that the runs check, except for those of the manual extraction.

Paths below are relative to the repository.

## 1. Inventory

| Part | State it keeps | Operations | What is hard about it |
|---|---|---|---|
| Flash API, `core/hw.c` | none between calls; in a call: position, block, buffers, statistics | read, write, erase, mass erase, verify, update, patch | a failure between the erase of a block and its write; a wrong old image; sums that wrap; blocks of several sizes; a running core |
| Wrappers and registry, `core/hw.c`, `backends/hw_backends.c` | a context per connection | connect, close, memory, registers, run/halt/step/reset | what a missing operation answers (0 for halt, -1 for reset) |
| Mock backend | memory pages, flash, registers, halt flag | all operations | a full page table in the middle of a word, the flash window, the end of the address space |
| OpenOCD backend | a TCP connection, flash geometry once asked for | all, as TCL commands | timeouts, partial and late replies, a server that exits, error texts, polling for a halt |
| ST-Link backend | libstlink's handle | all, forwarded | non-uniform erase blocks, word-aligned reads |
| State API, `core/hw_state.c` | none; features are the caller's | identify, presence, read, query | failed reads of feature registers, a bounded wait for a core register transfer |
| Python binding, `utils/python/libhw` | `Hw._ctx`, `Flash._hw` | methods of Hw and Flash, snapshot, libhw-probe | use after close, a core that runs during a snapshot, exceptions in the `with` block |
| Library loading, `libhw/_ffi.py` | `_lib`, the one library object of the process | search, load, bind, `databases()` | threads between publication and binding; a bind that fails; stale builds; structs declared twice |
| Manual extraction, `tools/state/armpdf.py`, `profiles.py` | captured lines, absorbed and rejected rows | capture of tables, eight row profiles, balance check | rows that wrap, page breaks, footnotes and references inside a table; arrays printed in five ways; rows nobody misses |
| Review and gates, `tools/state_tables.py`, `state_prose_candidates.py`, `state_prose_sweep.py`, `tools/state/prose.py` | decisions people made, in `spec/rules` | seed, check, prose scan and classification, heading sweep | decisions of another issue of the manual, gates passed in any order, a manifest cut short |
| Cross-checks, `tools/state/cmsis.py`, register index of `importer.py` | none | compare a manifest with a CMSIS header and with the manual's own index | offsets through unions, arrays and fillers; bases defined out of order |
| Manifest pipeline, `tools/` | manifests in `spec/arm`, `.def` files in `generated` | import, overlay import, diff, generate | repeated and respelt registers, manuals that change, imports that fail |
| J-Link stub, old OpenOCD client, encoding check, generated data, tests | | | not modelled, see section 7 |

The composite flash calls are built in `core/hw.c` on primitives of a backend
(a table of function pointers). The state API uses `hw_read32`/`hw_write32` of
any backend. The Python objects own a C context and call everything through
it. The pipeline's `.def` files are compiled into the tables the state API and
the binding walk through. The C library has no threads: concurrency comes from
the target (a core that runs and halts in its own time), from the OpenOCD server
on the other side of a socket, from the threads of a Python program that share
`_ffi._lib`, and from the order in which programs and people use objects, commands
and files.

## 2. Modules

| Module | Models | Notes |
|---|---|---|
| `NorFlash` | the device: bytes are sets of bits, programming only clears, erasing sets whole blocks | constants `Base`, `Size`, `SectorStart`, `SectorEnd` |
| `FlashOps` | `core/hw.c` flash calls, one step per backend call | `pc` is the place in `hw_flash_update`/`hw_flash_patch`; `cur`, `want` are its buffers |
| `FlashContract` | what `include/hw.h` promises of the flash calls, without blocks, plans or steps | the abstract specification |
| `FlashRefinement` | the mapping of `FlashOps` to `FlashContract` | `ImplementsContract` |
| `FlashOpsProofs` | theorems about `FlashOps`, and the refinement of `FlashContract` | section 5 |
| `SectorMaps` | the block lookups of ST-Link, OpenOCD and the uniform fallback | shows the partition `NorFlash` assumes |
| `FlashRead` | the three read loops (core, ST-Link, OpenOCD) | addresses wrap at `Space` |
| `MockBackend` | `backends/mock/hw_mock.c` | shows the erase and program that `NorFlash` assumes |
| `BackendProofs` | theorems about `FlashRead`, `SectorMaps` and `MockBackend` | section 5 |
| `OpenocdTcl` | `backends/openocd/hw_openocd.c` and, as environment, the server and the core | the wire is a sequence of tokens, each marked with the command it answers; a `targets` table has `rows` of them, of which the caller's buffer takes `Room` |
| `OpenocdTclProofs` | theorems about `OpenocdTcl` | section 5 |
| `HwState` | `core/hw_state.c` and, as environment, the DCRSR/DCRDR port | a descriptor is a record of what the code looks at |
| `HwStateProofs` | theorems about `HwState` | section 5 |
| `PySession` | `libhw/core.py`, `state.py`, `cli.py` | several `Hw` objects; `alive` are the contexts not yet freed; `ReadOutcomes` is what a query of an element can end with, `BACKEND_UNSUPPORTED` for a register without a selector included; a loop over a database visits positions of `States` in ascending order |
| `PySessionProofs` | theorems about `PySession` | section 5 |
| `FfiLibrary` | `libhw/_ffi.py`: every thread's way through `lib()`, one step per binding; the ctypes structs and the C ABI's layout of them | `objects` are the loaded libraries, `_lib` the published one |
| `FfiLibraryProofs` | theorems about `FfiLibrary` | section 5 |
| `ManualTables` | `armpdf.py`, `profiles.py`, the balance and index checks of `importer.py`, `cmsis.py`, `state_cmsis_diff.py` | a manual is a list of registers; `Layout` prints it as pages of lines the way Arm's template does, and the tools see only the lines; a CMSIS `header` has each register as words, bytes, in a union or not at all, per-block ids, and a base the tool knows or not |
| `StateReview` | `state_tables.py`, `prose.py`, `state_prose_candidates.py`, `state_prose_sweep.py`, and what an import takes from them | people edit the rules files and change the manual between any two commands; `passed` are the commands that ended well since, `word` what a person last decided on each table, `crosscheck` whether the list of index tables is still in the file |
| `StateReviewProofs` | theorems about `StateReview` | section 5 |
| `StatePipeline` | `tools/state_import.py`, `state_gen.py`, `state_source_diff.py`, `tools/state/` | a manual is the rows `ManualTables` reads out of it; `at` and `row` are the import's place in tables and rows, `base` what an overlay knows of the architecture |
| `StatePipelineProofs` | theorems about `StatePipeline` | section 5 |

`MCx` modules give the constants of module `x` for TLC; `MCBackendEdges` those of
`FlashRead`, `SectorMaps` and `MockBackend`, a behaviour being of one of the three. `NorFlash` is shared by
`FlashOps`, `FlashContract` and `MockBackend`; `PySession` uses the outcome that
`HwState` models for a query, and the outcome that `FlashOps` models for a flash
call, as one step each. The pipeline is three modules in a row: `ManualTables` (text to
records), `StatePipeline` (records to manifests and `.def` files), `StateReview`
(whether a manifest may be trusted), each taking the outcome of the one before
as its input. `PROJECT.json` maps every definition to its lines.

Abstractions. A flash byte is a subset of `Bits` (one bit in the runs: blocks of
several bytes already mix bits that fall, rise and stay). Replies, register
names, features and images are members of small sets. Formatting, printing and
allocation failures are left out. A line of a manual is a record of what the
patterns tell apart (caption, header, address and name cells, footnote, prose), so
that the tools' control (which line is captured, absorbed, expanded, rejected) is
kept and column positions are not. `ManualTables` was also compared with the
Python code itself: each of the 4848 manuals of the run was rendered as text and
put through `extract_tables`, the profiles and the balance check, with the same
records and refusals (the headers were not). `Word`, `Space` stand for 2^32: sums wrap
there.

## 3. Runs

Most runs end with `CHECK_DEADLOCK FALSE`: a client may stop making calls, and
the bound `MaxCalls`/`MaxCommands` ends every behaviour. `review` and `library` have
no such bound and check deadlock.

| Run | Bounds | Shows |
|---|---|---|
| `flash_mixed` | blocks of 2, 1, 2 bytes, reported unit 2, every contents, 1 call, 2 faults; 94 000 states | what composite calls keep, where they do damage, what a patch leaves alone, exact statistics, halting, and the contract |
| `flash_top` | blocks of 4 and 2 bytes up to the top of the address space, unit 2, one silent fault | a 0 result means the image is there; a call on a sound backend succeeds; calls return |
| `backend_edges` | reads: all alignments at both ends of a 64-byte space, lengths to 20 with chunks of 8; blocks: F2/F4, F7 and uniform parts of real sizes, in KB; mock: 12 addresses, pages of 2, room for 2 pages, 3 calls; 95 000 states | reads deliver the right bytes by allowed accesses; every lookup is the partition of the flash that `NorFlash` assumes; mock writes store what they name and fail only on a full table, its erase is the widened one |
| `openocd` | 3 calls, 1 timeout, errors, exit at any moment, a `targets` table of 1 to 3 tokens of which the caller keeps 2; 703 000 states | replies match commands on connections without a timeout, right reads, registers only of a halted core, one stale reply per timeout, calls return |
| `state_query` | one descriptor of each kind, 3 calls, 1 failed access, wait of 3; 1.5 million states | verdicts are true of the target, denials except for unread registers, values are of this transfer, calls return |
| `session` | 2 objects, 3 calls, 1 failing C call, core runs and stops, one element of every kind of access, none included; 425 000 states | no freed context is used, snapshots are true, and complete for what a debugger can reach, the probe returns with its connection closed |
| `library` | 3 threads (symmetric), 2 entry points, every mix of missing, broken, good and stale files in four places; 57 000 states | the first place that can be loaded is taken; an entry point without a signature has one of three causes; structs are read where the library has them |
| `extraction` | 4848 manuals: every profile, with and without a header, one or two items in 14 printed forms, six kinds of gap inside and after an item, arrays of 3; each with five CMSIS headers (words and unions; bytes and ids per block; registers left out; a structure that is not in `STRUCT_BASE`; a base that cannot be resolved); 74 000 states | an accepted table is read exactly, except for the layouts section 4 lists; the index and the CMSIS comparison report every loss of a register that the header has in a structure the tool reads, beside the documented known differences |
| `review` | two issues of a manual, every order of the commands, of edits and of imports cut short, a table whose rows do not all parse, one or two decisions possible on each table (`Decisions`); 336 000 states, unbounded behaviours | when all gates have passed, everything the manual names is in the manifest or was decided on by a person; a checked decision is the one a person last made; what of a person's work a command undoes |
| `pipeline` | 3 commands, tables of up to 2 rows, manuals that do not import, debug tables in both manuals; 2.11 million states | manifests account for rows, a repeated id is only ever an alias, an overlay emits the architecture's state again only by decision or for debugging, the diff is wrong only about respelt registers |
| `openocd_halt`, `pipeline_diff` | | disagreements of code and documentation, section 4 |

Why the bounds are enough. The flash API keeps nothing between calls, and
`flash_mixed` and `flash_top` start from every contents and both core states, so
one call is as good as many; three blocks give a first, an inner and a last block and
ranges that start and end inside one. Two faults let a call fail, and one of its
successors. The OpenOCD channel's only memory between calls is what a timeout
left behind: three calls are the one that times out, the one that reads the late
reply, and the one after it. A snapshot needs an object, its halt or run, and the
snapshot; a diff of an overlay needs two imports and the diff. A row's parser looks at most two
lines ahead and a page break or reference acts on what follows it, so two items, with
gaps inside the first, between the two and after the second, meet every such
window. Three threads are the smallest number with which a library that was
published is replaced before anyone has bound it; two entry points tell a bind
that is under way from one that is done. Two issues of a manual that differ by a table and a
mention give decisions that are missing, stale and still right.

Fairness. `FlashOps`, `PySession`: the steps of a call are weakly
fair, because a call is an ordinary function call that keeps executing.
`OpenocdTcl`: the client's steps, the server's handling of a command it has received,
and a core that was told to halt and is halting. Nothing is assumed of the target's
program, of the server's exit or of the timing of replies. `HwState`: the steps
of a call, and nothing about the core: `CallsReturn` holds although a transfer
may never complete. The other modules have no liveness property.

Liveness of the OpenOCD backend has an exception that is part of the property:
`block_until_halted` (`hw_openocd.c:66`) has no bound, so that it polls forever
if the server refuses to halt the core, if a late reply keeps the exchange one
reply behind, or if the server lists so many targets that the state of this one is
behind the 255 bytes that `openocd_tcl_exec` copies (`:145`). `CallsReturn` there says that calls return in all other cases.

## 4. Where code and documentation disagree

Shown by a run:

* `openocd_halt`: `hw_board_halt` answers 0 when the backend has no `board_halt`,
  and the OpenOCD table has none, so update and patch program flash under a running
  core; `include/hw.h:232` says that they halt the target.
* `pipeline_diff`: `state_source_diff.py:50` imports an overlay without the
  architecture's addresses and reports respelt registers as removed and added.

Noted while modelling, without a run of their own:

* After a timed-out `recv` (200 ms, `hw_openocd.c:123`) the next exec takes the late
  reply for its own and returns 0, although the function "executes a TCL
  command and reads the response" (`:103`). `InStepUnlessLate` and `LagBounded` show that this is
  the only way out of step, and by how much.
* Extraction loses registers, without refusing the table, in these layouts
  (the exceptions of `TableIsRead`): the second line of a wrapped range is not
  on the very next line (`profiles.py:188`, the loop over two lines always ends after
  the first); a reference such as "Table B3-9 on page ..." inside a body ends the
  table for the rest of the page (`armpdf.py:253`); any row a profile other than
  `addr_name_type_reset` cannot read (`importer.py:162`); all rows of a profile that goes
  by columns if the header was not recognised, while the header of a later page
  becomes a register (`armpdf.py:267`, `profiles.py:278`); the last name of a core register list
  that prose follows (`profiles.py:312`); members of a stepped array
  (`profiles.py:218`). `EveryLossIsReported` shows that the CMSIS comparison reports each of them
  where the profile has addresses and the header the register, and the index those of which nothing was read.
* The index comparison only goes into the report (`importer.py:363`, `state_import.py:65`);
  `docs/architectural-state.md` says that the importer asserts it.
* `state_tables.py --seed` says "never clobber a reviewed decision" (`:59`) but writes only four
  keys: the hand-written `crosscheck_indexes` (`spec/rules/armv7m.tables.yaml:657`) is dropped, and the
  index is not compared any more; and the decision on a table that the manual at hand lacks is forgotten, also
  when a later issue has the table again. `CommandsKeepDecisions` has these two as its only exceptions.
* A passed `--check` does not mean that the import runs: a seeded table has no `profile`, and one that was
  only flipped to "keep" ends the import with a `KeyError` (`importer.py:158`); a kept table with rows that do
  not parse ends it with the balance error (`:162-169`). Both are part of `ImportRuns`.
* The CMSIS comparison passes over a structure that is not in `STRUCT_BASE` or whose base it cannot
  resolve, without a word (`cmsis.py:34-39`, `77-79`); a loss in it is hidden, and what was read of it is
  reported as missing from the header. `EveryLossIsReported` excludes it, and contains the known differences of
  `docs/architectural-state.md:159-165` (`KnownDifferences`).
* A `state_id` is a "stable, unique identifier used by generated code and CI checks" (`model.py:155`), but a
  register that the manual lists again in its component is written under the same id (`importer.py:271`).
  `test_no_duplicate_state_ids` holds only because the committed manifests have no such repeat.
  `RepeatsAreAliases` shows what the importer does keep.
* "A CPU overlay must not re-emit state the architecture already owns" (`test_state_completeness.py:204`), but
  the row-by-row rule spares debug tables: `DWT_CTRL` is in `cortex_m7_r0p2.def:79` and in `armv7m.def:599`. The test
  looks at entries of namespace arch only. `OverlayReemitsByDecision` shows that debug registers outside the
  snapshot and a person's decisions are the only cases.
* `Hw.snapshot` promises "every snapshot-marked element that the target implements" (`core.py:280`). The marked
  special registers without a DCRSR selector (IAPSR, EAPSR, IEPSR, BASEPRI_MAX, `armv7m.def:316-326`) are
  `BACKEND_UNSUPPORTED` on every target (`hw_state.c:175-182`) and left out (`core.py:289`). `SnapshotIsComplete` is
  about the others.
* A reply longer than the caller's buffer is cut without a word (`hw_openocd.c:145`), so that a poll can miss
  "halted" in a long `targets` table and never end.
* The importer takes `UNREVIEWED` for "skip" (`importer.py:133`, `141`); `state_tables.py` says it
  refuses. Only `--check` catches such a table, which is why `GatesAccountForManual` needs it.
* The prose gates exit 0 ("SKIP") when the manual is not the pinned one; a range of more than
  512 members and a list of more than 90 characters are dropped; `FILE_PHRASES` claims a
  register file is covered without looking at the manifest; a missing member of a known
  family passes. None of the gates compares the committed manifest with a fresh import.
* The loops over CPUs in the `Makefile` (lines 117, 129, 134) end with the status of the last
  CPU.
* `_lib` is published before it is bound (`_ffi.py:278`): until `_bind` is done other threads,
  and after a `_bind` that raised all later calls, use entry points whose results are cut to
  int. `LIBHW_LIBRARY` naming a missing file is skipped without a word; nothing
  compares a library's version with the declarations. `cli.py:82` calls into the library before
  its `try`, so that its handler for a missing library is not reached.

* A feature register that could not be read leaves its feature at 0 (and an unreadable CPUID
  all of them, `hw_state.c:247-250`), and a query
  then answers `CONFIG_DENIED` ("a feature/configuration register says it does
  not", `hw_state.h:56`). `DeniedUnlessUnread` shows this is the only way a
  denial is false. A query without features (`hw_state.c:299`) answers
  `CONFIG_CONFIRMED`; `VerdictsAreTrue` is about queries with features.
* A range whose last block ends at 2^32 always fails: `sb + ss` is 0
  (`hw.c:324`, `381`). It fails before it erases, see `SucceedsWithoutFaults`.
* `write_align` of the OpenOCD backend is the first block's size (`:610`); on
  parts with larger blocks a changed block is not rewritten whole, as the
  comment above it expects.
* `strtoul` reads an error text as 0 (`:241`); a failed poll is swallowed by
  `block_until_halted` (`:67`), so a reset may report success; `close` sends
  `resume` (`:206`) while the probe says that it leaves the target halted.
* A repeated register keeps the snapshot mark of its first entry
  (`importer.py:271`); `declare`d names and register files are looked up in
  `seen` by bare name (`:297`, `:322`) although table entries are in it by id; a
  reserved address of the architecture counts as an architectural register for
  an overlay (`state_import.py:39-42`).
* A snapshot of a running target silently has no core registers
  (`core.py:289`). A dropped `Hw` that was not closed leaks its context.
* ST-Link's `board_halted` and `board_reset` ignore the library's result
  (`hw_stlink.c:232`, `302`).

## 5. Proofs

Each theorem holds for every value of the constants that satisfies the named
assumptions of its module, and for any number of calls, faults and connections.
Where the second column names a property, the runs check the same definition.

| Theorem | States | Assumes besides the module's assumptions |
|---|---|---|
| `FlashOpsProofs`: `TypeCorrect` | `TypeOK` | |
| `SuccessAlways` | `SuccessMeansImage` | nothing: silent faults included |
| `RestSurvives` | `SuccessKeepsTheRest` | `~SilentFaults` |
| `DamageStaysInOneBlock` | `DamageInOneBlock` | `~SilentFaults` |
| `UpdateIsAPrefix` | `UpdatedUpToPos` | `~SilentFaults` |
| `HaltedWhileProgramming` | `HaltedForProgramming` | `HasHaltOp` |
| `IdenticalBlocksStay` | `IdenticalBlocksUntouched` | nothing: silent faults included |
| `ClearOnlyBlocksKeepNeighbours` | `ClearOnlyBlockNeverErased` | nothing: silent faults included |
| `FlashRefinesContract` | `ImplementsContract` | `~SilentFaults` |
| `PatchStatsExact` | `StatsExact` | `Base + Size < Word`: no block ends at 2^32 |
| `FaultlessCallsSucceed` | `SucceedsWithoutFaults` | `Aligned`: the reported write unit and the block bounds are multiples of the backend's unit |
| `OpenocdTclProofs`: `ChannelInStep` | `InStepUnlessLate` | `TableFits`: a `targets` reply and its terminator fit `temp_buf` |
| `ReadsReturnMemory` | `ReadReturnsMemory` | `TableFits` |
| `RegistersOfHaltedCore` | `RegisterAccessHalted` | `TableFits` |
| `LagIsBounded` | `LagBounded` | `TableFits` |
| `HwStateProofs`: `VerdictsHold` | `VerdictsAreTrue` | (`DatabaseAssumption`, in the module) |
| `DenialsHold` | `DeniedUnlessUnread` | |
| `ReadsReturnState` | `ValueIsState` | |
| `PySessionProofs`: `SessionTypes` | `TypeOK` | |
| `ContextsStayOwned` | `ContextsOwned` | |
| `SnapshotsAreTrue` | `SnapshotIsTrue` | |
| `SnapshotsAreComplete` | `SnapshotIsComplete` | |
| `StateReviewProofs`: `ChecksArePeoples` | `CheckedMeansDecided` | |
| `SweepSees` | `SweepSeesTornManifest` | |
| `DecisionsStay` | `CommandsKeepDecisions` | |
| `GatesAccount` | `GatesAccountForManual` | |
| `FfiLibraryProofs`: `CausesAreAll` | `UnboundHasACause` | |
| `FoundInOrder` | `LoadsWhatCan` | |
| `DeclarationsFit` | `ReadsWhatIsThere` | |
| `BackendProofs`: `ReadsAreExact` | `ReadIsExact` | |
| `BlocksPartition` | `LookupIsAPartition` | |
| `MockIsExact` | `WritesAreExact` | |
| `StatePipelineProofs`: `RowsAccountedFor` | `ManifestAccountsForRows` | |
| `RepeatsStayAliases` | `RepeatsAreAliases` | |
| `OverlaysReemitByDecision` | `OverlayReemitsByDecision` | |
| `DiffsOfUnchanged` | `DiffMissesOnlyAddresses` | |

The assumptions of the modules are facts of the code or of its data: `FfiAssumption`, that a
file that can be loaded exists and that the table of databases ends with an entry without a
name; `PartAssumption`, that a part is made of whole blocks and a part with a table has at most two
banks; `MockAssumption`, that flash and pages lie in the address space, which a word does not exceed;
`PipelineAssumption`, that rules, overrides and manuals have their types, that no rule gives a whole
table to the part, that every kept table names its component, that a register declared outside the tables is not emitted, and that the register files are
architectural and a component of their own. They hold of `spec/rules` as it stands; a rule
that broke one of them could emit an id twice or let an overlay re-emit state nobody decided on.

Few of the properties are inductive; the invariants that carry them stand in the modules or
their proofs, and TLC checked what they imply before it was proved.

**Flash API.** The properties speak of the end of a call or of its damage.
`ControlInv` adds what the loop knows: which call runs and that it passed its checks
(`CallInv`), that the position is the start of the range, of a block or the end of the
flash (`PosInv`), and that inside an iteration `[sb, se)` is the block of that
position and does not wrap (`BlockInv`). `DataInv` adds the buffers: `want` is the
image inside the range and the old contents around it (`WantInv`), a block
programmed in place holds a superset of its bits (`CurInv`), a block between
erase and write is blank (`BlankInv`), and bytes outside the range are intact
except in that block (`RestInv`). With a backend that lies about partial work
`DataInv` is false, which is why some theorems assume it does not; the final
verify makes `SuccessAlways` independent of it. What a patch may touch needs only that the
blocks it has yet to deal with are as they were (`PatchAhead`) and the reason it has to change the
current one (`PatchReason`), which a lying backend cannot disturb. The statistics count the blocks that end by the
position (`StatsInv`): the position only ever moves to the end of a block, so that the block it enters is a
new one. That sum wraps for a block that ends at 2^32, and the theorem says so. Success without
faults needs `ProgressInv`: everything behind the position is already the image. The
refinement has one lemma per kind of step: a backend call that changes bytes is a step of the
contract's `Work`, a return one of `Succeed` or `Fail`, everything else inside a call is a stutter.

**OpenOCD client.** The client's thirty-odd cases come in five shapes (`ClientShapes`: dial,
begin, continue, return, hang up). `ChannelInv` says what the channel can contain while no
receive has timed out on the connection: between two execs nothing at all; inside one, the
command is the last in the queue behind commands of closed connections (`Awaited`), or it is
lost with the server, or it ran and what was received and what is under way together are its
whole reply (`Reply`). `Reply` carries two facts on: the word "halted" in a reply is still true,
because only a command could start the core and none is queued, and the number in the reply
to a read is a value memory held since the call. The first is why a register access meets a halted core, also when the halt itself was refused; a
failed poll implies that the server is gone. `TableFits` is needed
because an exec whose buffer is full stops without a terminator (`hw_openocd.c:120-122`).
After timeouts `LagInv` takes over: behind every token on the way there is a terminator, no further
than a table is long (`EndsSoon`), so that an exec never fills its buffer without one and takes a whole
reply or is late; counting terminators in the stream and live commands in the queue gives `LagBounded`.

**State API.** `FeatureInv` ties the features to the target (a feature that is set is there; one
that is not is absent or unread), `TransferInv` ties DCRDR to the transfer this read started.
`DatabaseAssumption` states two facts of the tables without which a verdict
could be wrong: only the DWT's debug state has a requirement, and only core registers have a DCRSR selector.

**Binding.** `LoopInv` says what the loop of a snapshot can rely on (its features are the target's, the
present value of an element is among the recorded ones, a core halted at the start is halted),
`VisitedInv` that every wanted element already visited is in the snapshot as long as the
core has stayed halted. Together with `TypeOK` they give truth and completeness.

**Review.** A gate's name is in `passed` only while nothing it looked at has changed, so
`GatesInv` says of each gate what it saw: the check, that the tables of the file are those of the
manual and none is unreviewed, and `TablesDecided` that whatever is not unreviewed is what a person last said (`word`), which
seeding keeps because it copies or writes UNREVIEWED; the import, that the manifest is the kept tables' rows; the prose gate, that every candidate has a class; the
sweep, its headings. The prose part needs a least-number argument: a mention that is not in
`scan` has an earlier one with the same identity.

**Library.** What a caller holds is either published or replaced, so the inductive
invariant `IInv` speaks of the published object: it is bound, a bind of it raised, or some thread
is about to bind or binding it (`Published`). Two facts make this inductive: a bind under way has
done the entry points before the one it is at, so that it ends with all of them (`BoundSoFar`), and
whatever is published, bound or used is a loaded object (`Held`).
A candidate is usable if it is there and loads; that the search
takes the first one needs only that its places are tried in order. The two declarations of a struct agree
because the sizes of their members do, one by one, for both widths of a pointer (`DeclarationsFit`).

**Backends.** `ReadInv` says that the buffer holds the first `done` bytes of the range and
that every access made was allowed. The one hard step is the arithmetic of a window (`WindowFits`): it starts at the
word that holds the next byte, is cut to the chunk, and must end within the last word of the range; the
addresses wrap, which `ModuloShift` (reduce before or after adding) takes care of. The partition of a part with
a table follows from three facts of the table (`IsTable`: blocks are adjacent and fill the bank,
they do not overlap, and no block crosses a granule, so that a bank cut short by the size of
the part ends between blocks); that of a uniform part is division with remainder. OpenOCD's
list has one line for every such block, in both banks (`TableLines`). With `BlocksPartition` the geometry that the theorems on
the flash API assume is one the backends have. For the mock, `Write8Effect` is about one
byte (page found, made, or table full), and `Written` carries it along a write by induction
over its bytes, each of which has an address of its own as long as the write is not longer than the address space
(`OwnByte`). `ErasedBlocks` shows that the erased interval is the blocks the range touches.

**Pipeline.** `Imported(t, b, F, es, k)` says what an import of target t on base b has built from rows F and k prose
entries: the entry of each row, which is an exclusion, a repeat if an earlier row has its id, or the register itself, and then
the prose entries with new names. This is a description of the whole list by position, so the four
properties follow from it without induction; `PipelineInv` keeps it true row by row, together with `seen` being
the ids so far (`Built`) and every manifest on disk having been built that way (`OnDisk`). Two imports of the same rows on
bases that agree on a row give it the same entry, which is the diff.

The proofs changed the model where it could not be reasoned about. The import of
`StatePipeline` is now one step per row instead of a fold per table, and the search of `FfiLibrary` and the
loops of `PySession` and `StateReview` go over positions in ascending order instead of
filtering sequences. One attempt failed for a good reason: the report of a diff outlived a change of the manual and the
change back, and was then a report about other inputs; it takes four commands, one more than the run has. A
new manual now ends the life of the report, which is the output of one run of the tool.

Only model-checked: liveness (`CallsReturn` of four modules), which needs fairness and
ENABLED; and `TableIsRead` and `EveryLossIsReported`, which compare two folds over a manual, the one that prints
it and the one that reads it, so that a proof for every manual is an induction over data with the operators
of the folds as parameters. Recursive functions (the bytes of a write, the rows of the first tables) are within
reach: that they exist, and what they are, is proved with a least counterexample.

## 6. Plan

Done: the flash API and its device, the two backends with logic of their own,
the state API, the binding and its library, extraction, review and the pipeline;
thirty-six theorems, which cover every safety property of the runs but the two of
`ManualTables`. What is left, in this order:

1. model: the OpenOCD backend's flash commands as the backend of `FlashOps` in one composition;
2. model: the rest of the ST-Link backend as a client of libstlink with failures,
   the coverage report, the presence lookup of component bases;
3. proofs: the profile parser of `ManualTables` for one item at a time, as a first step
   towards `TableIsRead`.

## 7. Not modelled

The J-Link backend is a stub whose operations print and return constants;
`backends/openocd/hw.c` is an earlier client that nothing builds. Of the
tools, `state_encoding_check.py` compares numbers with an assembler's output and keeps
nothing; `generate.coverage` and the report's text count entries. Extraction starts from the text that
`pdftotext` gives: splitting lines into cells, access types, reset values and the spelling of
names are below the model's lines. Argument and result types of the ctypes signatures are
not modelled, only whether an entry point has been given one. The manifests, rules, `.def` tables and
reports are data. In `OpenocdTcl` SIGPIPE on a closed connection is not modelled (a send
fails or is lost), a `targets` reply always fits the receive buffer (`TableLen < Cap`; what the
caller gets of it is cut to `Room`) and is never refused. The write of a
manifest is atomic in `StatePipeline`; `StateReview` has the one that is cut short.

## 8. Running

    tlc -config FlashMixed.cfg MCFlashOps
    tlapm FlashOpsProofs.tla

and `tlapm` likewise on the other `*Proofs.tla`, a few minutes each at most.

`PROJECT.json` lists module and configuration of every run, and for every
property a mutated definition under which TLC finds it violated.
