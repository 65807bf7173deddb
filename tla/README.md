# linux-utilities: specification and verification

The repository is a collection of small Linux command line programs, each one C
file under `src/src/`, with the contracts they are held to under `src/docs/`.
They share no code, no files and no processes: each runs by itself, and what
makes one hard to get right is what happens around it (processes that fork and
die while they are looked at, system calls that fail half way, a buffer that
ends where nobody expected) or an algorithm that must be exact.

This directory holds TLA+ modules for those programs, TLC configurations that
check them on small instances, and proofs, checked by TLAPS, of the properties
that matter most.

    tlc -workers 4 -config aw_tree.cfg MCAgentwatch.tla
    tlapm AgentwatchProofs.tla

## 1. Inventory

### agentwatch (`src/src/agentwatch.c`) — modelled

Runs one command and supervises everything that descends from it.

* **State.** The locals of `supervise()`: the direct child's pid, nine booleans
  that are set and never reset (`terminating`, `killed`, `direct_done`, ...), the
  deadlines, the status of the direct child; the locals of one call of
  `signal_tree()` (the identities read from `/proc`, which of them are connected
  to the root); `first_interrupt`, written by a signal handler. Outside the
  program, the kernel's process table.
* **Operations.** Set-up and `fork`; the handshake with the child over a
  close-on-exec pipe; the main loop: drain `waitpid(-1, WNOHANG)`, decide, sweep,
  `poll`; the sweep: scan `/proc`, `kill` the group, look at each target again and
  `kill` it; the choice of the exit status.
* **Interactions.** With the command's processes, only through the kernel: they
  fork, exit, wait for each other, move to other groups and sessions, ignore
  SIGTERM. With unrelated processes, because pids are handed out again. With the
  signal handler and the clock.
* **Hard.** Every line of the sweep runs against a table that changes meanwhile;
  a pid means something else after it was freed; four reasons to terminate may
  come in any order and one status must win; any call may fail during clean-up,
  and the clean-up must still end.
* **Correct means.** ECHILD is the end of the whole tree; the command's own status
  is returned only when it is the command's own; nobody else's process is
  signalled; a live process of the tree is not missed; SIGKILL leaves the grace
  period; a termination ends; the status of a command that was forked follows one precedence.

### snslice (`src/src/snslice.c`) — modelled

Cuts an NDJSON or CSV stream into numbered chunk files at record boundaries.

* **State.** The CSV automaton, three counters (`record_bytes`, `chunk_bytes`,
  `chunk_records`), the active chunk and its number, the buffer, the output
  directory.
* **Operations.** One byte; the end of the buffer; open, write and close a chunk;
  abort (close and unlink the active chunk); the end of the input.
* **Hard.** The buffer may end anywhere, also between two quotes; two limits;
  each call may fail with a chunk half written; a number may be taken already.
* **Correct means.** The chunks are the input, in order, cut only between whole
  records and as soon as a limit is reached; a failed run keeps the finished
  chunks and publishes no other; nobody else's file is touched.

### sysdiff (`src/src/sysdiff.c`) — modelled

Compares two snapshots of `key=value` lines.

* **State.** Two arrays of entries, the byte count of the file being read, the two
  indices of the merge.
* **Operations.** Read a line within three limits; at the end of a file sort it and
  look for duplicates; merge; print, with escaping; flush.
* **Hard.** Limits that meet at one line and must let a CR through; errors after
  half of the work; output that must be unambiguous for values of any bytes.
* **Correct means.** A legal pair of files, and no other, gives exactly the
  difference, in order, each line standing for one record, and status 0 or 1.

### openunlink (`src/src/openunlink.c`) — modelled

Lists the files that one process holds open though their last name is gone.

* **State.** The directory `/proc/PID/fd` and a duplicate of its descriptor, with
  the booleans that say who has to close them; the retained numbers, at most
  `FD_RETAIN_CAP`; per descriptor two results of `fstatat` and the text of the link;
  whether anything was reported or advised.
* **Operations.** Open, duplicate, `fdopendir`, enumerate, `closedir`, sort, then for
  each number: `fstatat`, `readlink`, `fstatat`, verdict; flush, close, clean up.
* **Interactions.** The inspected process runs on: it opens, closes, reuses numbers,
  exits; others unlink and link its files; inodes are handed out again.
* **Hard.** Every verdict is put together from three calls between which everything
  may change; a handle with two possible owners; advisories that must reach the status.
* **Correct means.** What is reported was open and without a name at one moment; what
  was held all the time is reported, or an advisory or the status says that the scan
  saw less; each handle is closed once.

### pathaudit (`src/src/pathaudit.c`) — modelled

Audits the directories of PATH and the commands in them (`--path`), the search for
one command (`--command`), or given directories.

* **State.** The components, which are pieces of one buffer cut by NUL bytes;
  findings, winners and shadows, the last two with an open-addressing index;
  matches and `seen_match`.
* **Operations.** Load within three limits; rejoin fields that were cut at a colon of
  a name; classify; search; scan; sort; print.
* **Hard.** Separators put back and taken out again in place; an index that grows; the
  blame of a component that depends on the matches before it; one candidate that
  cannot be inspected.
* **Correct means.** The components are the fields; the first hit in PATH order
  wins, and each other realpath is reported once; each hazard that applies is
  printed, as often as it applies and in one order, whatever order `readdir` has;
  either everything was inspected or nothing is printed.

### treehash (`src/src/treehash.c`) — modelled

Hashes a directory tree, leaving out what `.gitignore` files exclude, and prints the
Merkle root with the list of files.

* **State.** The activations of `walk_dir()` with their directory streams; `ancestors`,
  an array of `TREEHASH_MAX_DEPTH` identities; the rules, a stack along the walk; the
  files hashed so far; the count, buffer and chaining value of one SHA-256; `errno`.
* **Operations.** Refuse or trim the operand; enter a directory, read its `.gitignore`,
  take its names one by one, leave it; hash a file as `read()` gives it; sort, hash
  the lines, reduce them to a root, print.
* **Hard.** Three stacks that each exit of a recursive function must pop alike; rules
  that override those above, in any order of `readdir`; padding at the edge of a
  block with pieces cut anywhere; an `errno` that must be zero before `readdir`;
  mounts that make cycles; a lone node in the reduction.
* **Correct means.** List and root are functions of the tree; the status is 0 exactly if
  the whole tree could be walked; nothing is left open; what is hashed is the content.

### Not modelled

`permguard` (`src/src/permguard.c`) makes one `lstat` per operand, looks up a fixed table
of mode bits and keeps nothing between operands but the worst status; its
tests go through the table, and a model would repeat it line by line.
`scripts/sandbox_exec.py` (time-out, SIGTERM, five seconds, SIGKILL) is Python around
bubblewrap; what matters in it is done by the subprocess module and the pid namespace. The Makefile, the installation and tool scripts, `repair_*.py`,
`commissioning/` and the tests are procedures that run once and keep no state a
model could say anything about. Of `jsoncarve` the repository holds only a
contract.

## 2. Modules

| module | models | state and actions |
|---|---|---|
| `ProcTree` | the kernel's process table, as agentwatch can see it | pids with parent, group, start time, pending SIGTERM/SIGKILL, zombie or not; `Spawn`, `Collect`, `Perish` (with reparenting to the nearest subreaper), `Signalled`, `Grouped`. External: taken from how agentwatch uses `/proc`, `kill` and `waitpid`. |
| `Agentwatch` | `supervise()`, `signal_tree()`, `scan_descendants()`, the child between `fork` and `execvp`, `wake_handler()` | `pc` is the place in `supervise()` or in the sweep; one action per step between two system calls whose result other processes can change; extends `ProcTree`. |
| `Lifecycle` | what agentwatch promises of a run, without processes, clock or procfs | phases start, run, term, kill, done; causes; the status, by one precedence once there is a child. |
| `Snslice` | `stream_slice()`, the chunk functions, `abort_cleanup()` | one action per byte and per system call. |
| `Records` | no code: the grammar of NDJSON and CSV records, stated with quantifiers and no automaton | the reference for `Snslice`. |
| `ChunkStream` | what snslice promises | consume, publish, fail, end. |
| `Sysdiff` | `read_line()`, `parse_snapshot()`, `emit_diff()`, `put_escaped_value()` | one action per line, per end of file, per step of the merge. |
| `Openunlink` | `run_scan()`, `enumerate_fds()`, `inspect_one()`, `cleanup_scan()`, `finish_status()` | one action per system call; `Process` is what the inspected process and the file system do between them. |
| `FdAudit` | what openunlink promises | a verdict per descriptor, true at one moment, and a status. |
| `ProbeTable` | the two indices of pathaudit | look up, place, rehash, grow, as operators over arrays. |
| `Pathaudit` | `path_components_load()`, `coalesce_inspection_path_fragments()`, the three modes, the scan and the tables | one action per component, per attempt to join, per name in a directory, per phase; what the file system answers is chosen when it is first asked. |
| `Treehash` | `main()`, `walk_dir()`, `load_gitignore()`, `hash_file_sha256()`, `add_file_entry()` | one action per name, per line of a `.gitignore`, per `read()`, per exit of `walk_dir()`, per phase of `main()`; extends the next three. |
| `IgnoreRules` | what a line of a `.gitignore` says, `match_rule()`, `is_path_ignored()` | operators over paths. |
| `MerkleRoot` | `compute_merkle_root()` | one level of the reduction; the reference splits at powers of two instead. |
| `Sha256Stream` | `sha256_init()`, `sha256_update()`, `sha256_final()` | count, buffer, and the blocks handed to `sha256_transform()`; the reference is the padding of FIPS 180-4. |
| `MCAgentwatch`, `MCSnslice`, `MCSysdiff`, `MCOpenunlink`, `MCPathaudit`, `MCTreehash` | instances for TLC | |
| `AgentwatchProofs`, `AgentwatchSweep`, `SnsliceProofs`, `SysdiffProofs`, `OpenunlinkProofs`, `PathauditProofs`, `Sha256StreamProofs`, `TreehashProofs` | theorems; of agentwatch, the second is about `signal_tree()` alone | |

How the state corresponds to the code:

* **Agentwatch.** `flags` holds the local booleans of `supervise()` that are true
  (`armed` is `cleanup_deadline != 0`). Times are kept relative: `elapsed` since
  `start` was read, `left` until `cleanup_deadline`, `lag` since `now` was read,
  because signal_tree() runs on a `now` that grows old; they saturate, so the time
  itself needs no bound. (The code keeps absolute deadlines and subtracts nothing; `Monus` is
  the distance to such a deadline, seen from the present.) `items` and `targets` are signal_tree()'s arrays. The
  history variables `rootBirth`, `sinceTerm` and `scanned` are read by properties
  and by the model of the world (which process *is* the direct child), never by
  the supervisor. A pid is freed only by `Collect` and may be given out again at
  once; `birth` is the start time, unique to a process.
* **Snslice.** `slice` is `io_buffer[slice_start .. i]`; `disk` is the output
  directory by chunk number, a file being absent, foreign or ours; `EndOfBuffer`
  may happen after any byte, which is what a 64 KiB buffer does to streams of any
  shape. A short `write` is retried by `write_all()`, so a write either completes
  or fails with the chunk incomplete, and the chunk is unlinked. The code ignores the
  result of `unlink()`: a chunk that cannot be removed is `Stuck`, under its number and with
  an unknown part of what it should hold; it is not one of the published chunks.
* **Sysdiff.** A line is a record of what the code tells apart; its length and its
  text are independent, so that every text meets every limit. `qsort` is any
  permutation that sorts. A key is a number in strcmp's order: the syntax of keys
  shows in the kind of line only.
* **Openunlink.** `table` is what each number leads to and `file` the kind and the link
  count of each inode; `steady` and `offered` are the numbers open throughout and at some time since
  the enumeration began, by which it decides what it may list (that is what `readdir`
  of `/proc` promises); `held` are those that led to one unlinked file all the time, and
  only properties read it. An inode that nothing
  holds may be used again, for another kind of file too.
* **Pathaudit.** A text is a sequence of fields and a field a number in the order of
  its bytes; `tied` says which separators are colons again, so that `CString` is
  what a pointer into the buffer reads; a component keeps the field its text begins at (`at`) and the
  number of fields it has come to be joined of. A realpath is a number. `fs` and `exe` are
  what `stat` and `try_command_match()` said so far, the choice being made at the first
  question: every file system that the run can tell apart is met.
* **Treehash.** A file system is a graph of inodes and a run is of one of them, `fs`. `stack`
  is the call stack of `walk_dir()`; a frame's `left` is what `readdir` has yet to
  give. `cand` is the directory or file in hand. `pc` is the place in `walk_dir()`
  or in `main()`; "return" is the place behind the recursive call. A name is an
  atom with a length and two places in bytewise order (`Order`), alone and with the slash behind it
  that it has within a path, since "a-" comes before "a/b" though "a" comes before "a-":
  so paths compare name by name as `strcmp()` compares them; "." and "..", passed over like `.git`, are left out. A byte of a file is its position,
  so a block shows which bytes it was filled with and whether one is stale; a digest
  is the term that was hashed. `stale` is `errno != 0`, which only an interrupted
  call leaves behind on a good path; `cut` says that a `.gitignore` was not read to its
  end unnoticed.

Hypotheses of the models, apart from the bounds of TLC's instances: start times
are unique; nobody but agentwatch itself sends signals to the tree other than
what `Exit` covers; the signal mask and the wake pipe make the sleep end at any
event, so `Sleep` has no lost wake-up to show; a scan that stops at 4096
identities or 65536 entries is the fault `limit`, which may end any scan early;
`add_ms` does not overflow; the file system does
not change under pathaudit, as its contract has it, nor under treehash, whose contract does not
say; of pathaudit, no realpath of an executable, a regular file, is a directory's; SHA-256 has no collisions.

## 3. Runs

| run | checks | instance |
|---|---|---|
| `aw_tree` | `NothingLeftBehind`, `SweepReachesRoot`, `SweepComplete`, `DirectStatusIsGenuine`, `RevalidationSparesStrangers` | three pids, four births: root, child and grandchild at the same time and one pid used again, by the tree or by an unrelated process; a deadline; no faults |
| `aw_faults` | `TypeOK`, `DirectStatusIsGenuine`, `ImplementsLifecycle` | two pids, three births, two different signals, every fault, at any time and any number of times |
| `aw_live` | `KillOnlyAfterGrace`, `CleanupIsBounded`, `InterruptIsHonoured`, `DeadlineIsHonoured` | two pids; a grace period of two ticks, so that one tick is not enough; failing pipe, fork, exec, setpgid, waitpid, calloc, opendir, kill |
| `aw_v_orphan` | refutes `SweepCoversDescendants` | as `aw_tree`, without unrelated processes |
| `aw_v_early` | refutes `EarlyInterruptIsHonoured` | one signal; failing pipe and fork |
| `sn_stream` | `TypeOK`, `SplitIsTimely`, `ForeignFilesAreKept`, `ImplementsChunkStream` | every stream of up to six bytes out of six classes, four configurations, a file in the way at chunk 1, 2 or nowhere, every fault |
| `sn_v_quotes` | refutes `QuotesEscapeInPairs` | CSV, one record per chunk |
| `sd_compare` | `TypeOK`, `DiffIsExact`, `LegalSnapshotsOnly`, `LinesReadBack` | three keys, four values, lines at and one past the limit with each ending, files of three and two lines, every fault |
| `ou_scan` | `TypeOK`, `ClosedOnce`, `HeldFilesAreReported`, `SilenceIsHonest`, `ImplementsFdAudit` | three descriptors, two inodes, two numbers retained, every call may fail |
| `pa_audit` | `TypeOK`, `SplitCoversPath`, `IndexIsFaithful`, `ShadowsAreExact`, `FindingsAreExact`, `RejectClosed` | the three modes, values of up to five fields over two absolute, one relative, one overlong and the empty field; two commands, three realpaths; limits of 4 fields, 7 and 11 bytes; tables of 2 slots that grow to 4 and are then refused |
| `pa_v_fields` | refutes `FieldsAreInspected` | `--path`, no faults |
| `th_walk` | `TypeOK`, `StacksInStep`, `ManifestIsExact`, `StatusIsHonest`, `RootCommits`, `DigestIsOfContent`, `OperandKeepsPlace` | fourteen small file systems and ten with one file of a size at the edge of a block; depth 3, paths of 18 bytes, pieces of 1, 7, 8, 55, 63 and 64 bytes; one failing call, interruptions at any time; nine operands and six other command lines |

Why the bounds are enough. The hazards of agentwatch need a process between two
others (three pids), a pid used twice (one more birth than pids) and one tick of
difference between two clocks; all of these occur in every run that needs them.
Six bytes hold two records, a quoted field with an escaped quote and a line feed
in it, and each limit reached inside a record and at its end; the record limit
of five is below the length of the stream. Three lines hold a duplicate with
something between, and one line more than the two entries allowed. Three descriptors
with two retained is a listing that is cut; two inodes let one be recycled while the
other is looked at. Three directories, two commands and three realpaths give each
command a winner and two shadows, which grows the index once and fills it, with all
keys of winners colliding; four fields make a join of more than two. The trees of `th_walk`
are chosen for what they bring together: a negated rule below an excluding one beside
another directory, each mark of a rule, a cycle and a directory under two names, a chain at the
depth limit and one past it, a long name where it just fits and where it does not, five
leaves (two levels with a lone node), a `.gitignore` that is a directory or a link. One
failing call reaches every exit, since the walk never goes on after one; sizes up to
128 in those pieces bring `count % 64` to every side of 55, 56 and 63.

Symmetry (of pids) is used in the runs for safety only, where no property names a
pid.

### Properties, by the question they answer

*agentwatch.* `NothingLeftBehind`: waitpid's ECHILD is taken to mean that nothing of
the command is left; it is so only because every orphan is adopted before its
parent is gone from the table. `SweepComplete`: a process that was there when the
scan began, and whose chain of parents never broke, gets the signal, whatever
group it moved to. `RevalidationSparesStrangers`: the second look at the start time
catches every pid freed and used again since the scan. `DirectStatusIsGenuine`: a
descendant that was given the direct child's old pid, adopted and reaped, does
not pass for the direct child. `KillOnlyAfterGrace`: though `now` is read before a sweep
that may take long. `CleanupIsBounded`: though the tree ignores SIGTERM, calls fail and
nothing may be reaped. `InterruptIsHonoured`: an interruption that is recorded once there is a child
and before the start has failed decides the status, over a deadline or a failure that was
noticed before it and over a start failure that comes after it. Of the interruptions it
leaves out the contract says something else than the code does (see "What the runs
found"). `TypeOK` has one line besides the types, `RecordedOnce`: a scan has one record
of a number, so none is left of an earlier scan. `ImplementsLifecycle`: all of it together
is a run of the abstract specification, which follows the code in those two cases.

*snslice.* `ImplementsChunkStream` is the refinement: the chunks on disk are the
input, and each is whole records by the grammar of `Records`, which knows no states.
`SplitIsTimely`: neither later nor earlier than the limits say.

*sysdiff.* `DiffIsExact` compares the output with a set difference of the *lines that
were read*, so it covers parsing, sorting, merging and the statuses at once.
`LegalSnapshotsOnly`: accepted exactly if nothing is wrong, and the diagnostic names
something that is. `LinesReadBack`: the escaping is injective on records.

*openunlink.* `ImplementsFdAudit`: each verdict was true at one moment between the first
and the last look at the descriptor, though no single call sees enough; and the status is
1 if and only if a file was reported or an advisory given, unless the scan failed (2). `HeldFilesAreReported`: what was open and unlinked from the
start to the end is not passed over, whatever happened to other descriptors, unless
the scan fails or says that the listing was cut. `SilenceIsHonest`: status 0 means that
nothing was. `ClosedOnce`: after any failure, each of the two handles has been closed
by exactly one of `closedir`, `close` and the clean-up.

*pathaudit.* `SplitCoversPath`: no field is lost or taken twice, and each component, read as
a C string, is itself, after any number of joins given up. `ShadowsAreExact` and
`FindingsAreExact` compare what is printed with a set defined from the file system alone,
with no order, table or flag. `IndexIsFaithful`: a probe ends and finds what is there, while
the table grows and keys collide. `RejectClosed`: a candidate that the code counts as not inspectable
is not passed over. Some failures it counts as no match instead: a loop of several links, a
`realpath` that fails for another reason than memory, permission or a loop, a name
that makes the candidate longer than `PATHAUDIT_MAX_ROOT_LENGTH`.

*treehash.* `StacksInStep`: on every exit of `walk_dir()`, ancestors, activations and open
streams agree, and unless the run is failing each rule belongs to an activation.
`ManifestIsExact` compares the list with the set of paths that are listed by a
definition that knows no walk, no stack and no order: the last rule of the
deepest directory decides. `StatusIsHonest` works both ways: 0 only if the tree could be walked
as a whole, 2 only for a reason. `RootCommits`: the reduction with its promoted lone
nodes is the tree of RFC 6962, so different lists have different roots.
`DigestIsOfContent`: however `read()` cuts a file. `OperandKeepsPlace`: trimming the operand
leaves the directory that it names, but for `/.`.

### What the runs found

* A descendant that left the group and lost its parent hangs under agentwatch, not
  under the direct child, so no sweep signals it (`aw_v_orphan`; agentwatch.c:323,
  contract lines 11 and 19).
* An interruption recorded before there is a child is forgotten if `pipe2` or `fork` fails
  next: the status is 127, where the contract's line 27 excepts "an interruption already
  recorded" from the precedence of a start failure (`aw_v_early`; agentwatch.c:606-620). A
  `prctl` or a clock that fails there gives 125 in the same way. The same line is departed from
  at the other end too: an interruption that arrives during the clean-up after a start failure
  gives `128+N`, where the status would stay 127, since it was not yet recorded (agentwatch.c:712;
  `Lifecycle` follows the code in both, and `InterruptIsHonoured` leaves both out).
* Quote, carriage return, quote is read as an escaped quote (`sn_v_quotes`;
  snslice.c:407, contract line 71). The properties of `sn_stream` leave out chunks
  in which such a sequence occurs (`SpacedQuotes`).
* A missing field of PATH is joined with the next when both together give ENOTDIR, and the
  next one is not looked at: with `/x` missing and a file called `/x:`, the directory `/y`
  of `/x:/y` is not audited (`pa_v_fields`; pathaudit.c:801, contract lines 60-64). With
  `--command` nothing at all is printed then, and the status is 0.

Seen while modelling, without a run of their own: the operand `/.` (and `/./` and the like) is
trimmed to nothing, which `main()` of treehash takes for `.`, so the current directory is hashed
instead of the root (treehash.c:870, contract lines 34 and 54; `DotOfRoot` is what
`OperandKeepsPlace` leaves out); after the direct child was reaped,
`kill(-child)` is still sent, and the number may by then name an unrelated group
(agentwatch.c:351, contract line 37); while the child has not reached `execvp`, the supervisor sits in
`read()` and no deadline is looked at (agentwatch.c:644, contract line 17), which is why
`DeadlineIsHonoured` is checked under `FairExecSpec`; `SCAN_INTERVAL_MS` is defined
(agentwatch.c:24) and used nowhere, though the contract (line 21) spaces scans by
50 milliseconds; a process reached by the group signal is signalled again by its
pid, though the contract (line 19) has duplicates suppressed; the parent
links of one scan are read at different moments, so a pid used again during the
scan can connect a stranger (contract line 37 asks for a chain of *observed*
identities; the property `RevalidationSparesStrangers` leaves this case out); if
the clock fails for good, `now` stays at `start` and neither SIGKILL nor the
two-second ceiling comes (contract line 23), which is why
`CleanupIsBounded` is checked without that fault. In sysdiff, a value that begins with
`-> ` makes a second literal separator with the blank before it, though the comment
at sysdiff.c:82 has a changed line keep exactly one; the line can still be read back
(`LinesReadBack`). The escape of a `>` behind ` -` (sysdiff.c:89) is not in
docs/sysdiff-snapshot-format-and-scope.md, whose lines 161-163 have every printable byte but
the backslash rendered literally. openunlink ends with status 1 after an advisory without a finding, where
docs/openunlink.md gives that to findings, and 0 to a run without one. In
pathaudit, the contract's line 89 keeps UNSAFE_OWNER from directories, and the code reports it for
them; an executable with two names in one directory is reported twice
("once per input"); and of several things that cannot be inspected, `--path` names
the one that `readdir` happens to give first. In treehash, a `.gitignore` that cannot be
read to its end, or not inspected, counts as ended there, or as none, and the run succeeds with rules
missing, where the contract's line 49 has an I/O error end it; `--help` and
`--version` do not look at whether their output could be written.

### Fairness

`Agentwatch!Fairness` is weak fairness of the supervisor and of time. The supervisor is
one thread; it blocks in `poll`, always with a time-out, and in the handshake's
`read()`, where its action is disabled until the child moves on. Nothing is assumed
of the command, of other processes or of the user: the command may run for ever,
ignore SIGTERM or never be reaped. `FairExecSpec` adds that the kernel finishes the
direct child's `setpgid` and `execvp`; without it `DeadlineIsHonoured` is false. The other programs have no liveness property: each step is
enabled by the one before and the input is finite.

## 4. Theorems

Each holds for every value of the constants that the assumptions of its module
allow: any set of pids, any number of births, any delays, faults and limits.

| theorem | says |
|---|---|
| `AgentwatchProofs!TypeCorrect` | `Spec => []TypeOK`, with `RecordedOnce` |
| `AgentwatchProofs!NormalReturnLeavesNothing` | `Spec => []NothingLeftBehind` |
| `AgentwatchProofs!StatusIsGenuine` | `Spec => []DirectStatusIsGenuine` |
| `AgentwatchProofs!GraceIsHonoured` | if the clock does not fail, `Spec => []KillOnlyAfterGrace` |
| `AgentwatchProofs!SupervisionIsALifecycle` | `Spec => ImplementsLifecycle` |
| `AgentwatchSweep!DirectChildIsReached` | without the faults kill, setpgid and calloc, `Spec => []SweepReachesRoot` |
| `AgentwatchSweep!SweepReachesTheAttached` | without the faults opendir, limit, stat, kill and setpgid, `Spec => []SweepComplete` |
| `AgentwatchSweep!StrangersAreSpared` | `Spec => RevalidationSparesStrangers` |
| `SnsliceProofs!TypesHold` | `Spec => []TypeOK` |
| `SnsliceProofs!ForeignFilesSurvive` | `Spec => ForeignFilesAreKept` |
| `SnsliceProofs!SlicingIsAChunkStream` | `Spec => ImplementsChunkStream` |
| `SnsliceProofs!ChunksEndInTime` | `Spec => []SplitIsTimely` |
| `SysdiffProofs!TypesHold` | `Spec => []TypeOK` |
| `SysdiffProofs!ComparisonIsExact` | `Spec => []DiffIsExact` |
| `SysdiffProofs!OnlyLegalSnapshots` | `Spec => []LegalSnapshotsOnly` |
| `SysdiffProofs!PrintedLinesReadBack` | `Spec => []LinesReadBack` |
| `OpenunlinkProofs!TypesHold` | `Spec => []TypeOK` |
| `OpenunlinkProofs!HandlesAreClosedOnce` | `Spec => []ClosedOnce` |
| `OpenunlinkProofs!NothingHeldIsPassedOver` | `Spec => []HeldFilesAreReported` |
| `OpenunlinkProofs!StatusZeroIsHonest` | `Spec => []SilenceIsHonest` |
| `OpenunlinkProofs!ScanIsAnAudit` | `Spec => ImplementsFdAudit` |
| `PathauditProofs!ComponentsCoverPath` | `Spec => []SplitCoversPath` |
| `PathauditProofs!ProbesAreFaithful` | `Spec => []IndexIsFaithful` |
| `PathauditProofs!TypesAreKept` | `Spec => []TypeOK` |
| `PathauditProofs!NothingUninspectedIsPassedOver` | `Spec => []RejectClosed` |
| `PathauditProofs!ShadowsAreExactlyThose` | `Spec => []ShadowsAreExact` |
| `PathauditProofs!FindingsAreExactlyThose` | `Spec => []FindingsAreExact` |
| `TreehashProofs!TypesHold` | `Spec => []TypeOK` |
| `TreehashProofs!WalkStaysInStep` | `Spec => []StacksInStep` |
| `TreehashProofs!ListIsOfTheTree` | `Spec => []ManifestIsExact` |
| `TreehashProofs!StatusTellsTheTruth` | `Spec => []StatusIsHonest` |
| `TreehashProofs!ContentIsHashed` | `Spec => []DigestIsOfContent` |
| `TreehashProofs!RootIsOfTheTree` | `Spec => []RootCommits` |
| `Sha256StreamProofs!UpdateReceives` | an update of any length keeps `Received` |
| `Sha256StreamProofs!FinalPads` | from `Received`, the end hands on the padded message |

*Nothing is left behind.* The inductive invariant `Base` is the types and `Ancestry`: each
process in the table has a parent that is alive, **older** and of the same tree, or
one of the two reapers, the supervisor for the command's own. Without "older" the
invariant would allow a ring of processes that are each other's parents; with
it, the oldest of the command's processes (there is one, since start times are
natural numbers: `LeastNatural`, from the library's well-founded induction) must be a
child of the supervisor, so no child means no process (`ChildlessMeansGone`). One
lemma per operation of the table shows that it keeps `Ancestry`; `Perish`, which
reparents, is the interesting one. `GoneInv` then says that once it is empty it
stays empty.

*One record of a number.* `RecordInv`: outside a scan there are no records, and during it none of
a number that is still to be read.

*The status is genuine.* `RootHeld`: until the direct child is reaped, its pid is in
use by the process that was forked, so the status taken at the first reaping of that pid
is its own. `FlagsInv`: a termination is always accompanied by a cause that wins over
the command's status.

*The grace period.* `GraceInv` bounds `sinceTerm` from below by what is left of
`cleanup_deadline` and by how old `now` is. The theorem excludes clock failure because
then `now` becomes `start`.

*Supervision is a lifecycle.* One lemma per branch of the loop shows that it is a step of
`Lifecycle` or a stutter of it. `FlagsInv` is what makes the mapping of the flags to a phase
one of its phases: that a deadline is armed only of a termination, that a kill follows
an armed deadline, that a cause is there before the first of them.

*Sweeps.* `RootInv`, `GroupedRoot` and `RootHit` follow the direct child: it is in its own group
from the handshake on, so `kill(-group)` reaches it unless it is a zombie, and what has reached it stays.
Three faults are excluded, and each is needed: without `setpgid` there is no group, a `kill` that
fails reaches nobody, and after a failing `calloc` nothing is signalled. `ReachInv` follows
everyone else who is linked to the direct child: `NothingIsAttachedAnew` (who is linked now, and was born
before the scan, has been since it began), so the scan has recorded each of the chain with its parent, and
`ConnectionFindsTheAttached` (the closure over the records finds whoever such a chain links).
A `calloc` may fail here: then there is no sweep to be over. `OriginInv` is about
strangers: a record that agrees with the process that holds the number now, twice, is a record of
one process, and a chain of records to the direct child is a chain of the command's own.

*Foreign files.* `Paced` counts: chunk numbers are used up no faster than bytes arrive,
so that a number is always one of the modelled files; `OwnChunk`: an open chunk is a
file of this run.

*Slicing is a chunk stream.* `FilesInOrder` ties the disk to the counters: no file under a number
to come is the run's own, so opening the next chunk starts with nothing, and `chunk_bytes` is
what the active chunk holds, so a chunk that is closed is not empty. `Shape` relates the
automaton to the grammar: what was consumed since the last chunk (`Rest`) is whole records and a
part of one, and `csv_state` says which part it is (`PartOfStream`, `PartOfRecord`, `PartOfField`:
START is carriage returns at the start of a field, QUOTED an opening quote and quotes in pairs,
ESCAPED_QUOTE a closed field). One lemma per level shows that a byte keeps this
(`FieldGoesOn`, `RecordGoesOn`, `StreamGoesOn`) or ends it (`PartEnds`, `RecordEnds`,
`StreamEnds`). The alternative, `SpacedQuotes`, is where the automaton and the grammar part: two
quotes with carriage returns between them, the finding of `sn_v_quotes`; `FieldGoesOn`
needs it at that one transition. `Records` states fields and records by the set of places
where they end (`Adjacent`): such a set is extended by a last place (`FieldsGrow`,
`RecordsGrow`), where a recursive definition would ask for an induction over the stream.

*Chunks end in time.* `SplitIsTimely` counts **all** ends of records that the grammar allows, so the
converse is needed as well: where a record may end, the automaton ends one. The grammar leaves it
open which commas and line feeds separate; that they cannot be chosen in two ways that matter is
shown by letting the automaton read along (`Reads`, the states it passes): after whatever a
field may be it is not inside quotes (`PlainIsRead`, `QuotedIsRead`, `DoubledIsRead`), so a chosen
separator finds it outside and begins anew (`SeparatorStarts`), and from one chosen place to the next
(`PlaceByPlace`) so does the last (`FieldsAreRead`, `RecordsAreRead`). This half
holds with carriage returns between quotes too; only the other, `StreamEnds`, excludes them.
`CutsGrow` puts both together: one more byte adds a cut exactly when the automaton sees an end.
The invariant `TInv` then follows the counters: `Counting`, `chunk_records` is the number of the
cuts of the active chunk, but for a record that is still to be written; `Filling`, while the
chunk goes on none of its cuts has reached a limit, and when it is closed before the end of the
input, the last one and no earlier one has; `Filled`, the same of the chunks published.

*sysdiff.* `Content`: the entries held of a file are those its lines state, in any order while it
is read (`OneMoreLine`), strictly increasing by key once it is closed (`SortKeeps`,
`SortedIsStrict`: neighbours that differ in a sorted array all differ). `Merging` says where the merge
is: `Apart`, everything passed on one side is below everything to come on the other,
without which passing `removed` could skip a key of the other side; and `Printed`, the output is
increasing, below every key to come, within the difference, and holds every difference
whose key is not to come any more. One lemma per way of going on (`PassRemoved`,
`PassAdded`, `PassBoth`) keeps both, for two arbitrary sequences; that a key names at most one
difference (`KeyNamesRecord`) is what makes one record per key enough. When neither side can
go on, nothing is to come, and the output is the difference. The files' lines, their number
and all the limits are arbitrary.

`OnlyLegalSnapshots` needs the program's counters to be tied to the lines. `Accounted` says that
`total` is the number of bytes of the lines read (`Bytes`, a set of places, so that no sum has
to be defined) and that the entries correspond to the lines that state one, one by
one (`Matches`); a line more keeps both (`MoreBytes`, `MoreEntries`). `BlameIsRight`: whichever
test of `read_line()` comes first, what it names is wrong with the file; `DuplicateIsWrong` and
`KeysAreApart` carry the comparison of neighbours back through the sort to the lines.

`PrintedLinesReadBack` reads a line as a reader of the output would. `Reading` is what is left
of it once the first characters of a value have been read (`EscapedInSteps` takes `FlattenSeq`
apart, place by place); the code at its front is found without knowing the value (`Token`,
`TokenIsCode`) and stands for one character (`CodeReadsBack`). Two values that print alike
therefore agree as long as neither has ended (`ReadAlike`). That one cannot end where the other
goes on is what the shielding of ` ->` is for (`NotInTheMiddle`): the other would hold
blank, hyphen and an unescaped `>`. Proving it for all values showed that a shielded `>` and
the escape of an unprintable byte were one code in an earlier form of `Chars`; the code prints
`3E` for the one and never for the other, and `Chars` tells them apart.

*openunlink.* `Owned` says at which place in the code which handle is open and who will close
it. `Kept` follows a number that was held all the time through the stations of the scan:
it is in the listing that is being read, then retained (or the listing was cut), then
still to be inspected, then the current one, with its first look already taken and
unlinked, and at last reported. The number of descriptors and the cap are arbitrary.

`ScanIsAnAudit` adds `Ascending`, that the retained numbers are increasing from the cursor on, so
that each is judged once, and `FairStatus`, that the status is what the skips and findings so far call
for; each call is then a verdict, a report or nothing, of `FdAudit`.

*pathaudit.* `SplitInv`: the components in hand are consecutive pieces of the list of fields
(`Cursor`), each piece's text pointer reads the fields it was joined of, and the separators within a piece,
and no other, are colons again (`JoinInv`), in every mode and on every way out of the
joining of fragments. `OneMorePiece` and `PiecesStay` are about the pieces alone.
`RejectInv` says that a failure to inspect is met in the phase in which it is recorded and ends the run:
`LookingIsLocal` and `FailKeepsReject` carry it over the many steps that look at one thing.
`TablesInv` is about the open-addressed tables, whatever the hash and the initial capacity are:
each entry is in the table once, no slot between its home and its place is
vacant (`Placed`), and at least half of the slots is (`Used`), so a probe ends, at the entry
or at a vacancy that proves its absence (`LookupFinds`, `LookupAnswers`). Insertion keeps this
(`PlacingKeepsTables`), and rehashing into a table of twice the size restores it
(`RehashMakesATable`, an induction over the entries placed). That a cycle of probes reaches every slot
(`ProbesReachEverySlot`) needs remainders to be unique. Of `Hash` it is assumed only that
its values are natural numbers.

`TypesInv` strengthens the types by what bounds the loops: the fields are at most `MaxCount`
once the value is read, there are fewer components than fields passed while it is being split, and a
directory that is being listed is one of the components. `AuditInv` is about the report of `--path`.
`History` is what each visited component showed of each command, and `Agrees` says that
`winners` and `shadows` are what such a history calls for: the winner of a command is its first
component's file, its shadows are the other files, each with the first component that shows it and
none twice (`Once`). A component adds to the history in whatever order `readdir` gives its entries. `ShadowBefore`
is a strict weak order, so sorting only permutes the shadows (`InPlace`) and what is
printed depends on the set of them. For that order to be increasing as the property
states it, two shadows of one command must not have a first component in common, which `Once` and
`Agrees` give.

`FindingsInv` is about the findings, in all three modes, and keeps accounts: `Tally` says that each finding
is in the buffer as often as something asks for it. A component that was inspected asks for what is due of it
(`Directs`), an executable that was found asks for what its permissions call for (`Trusts`), and a
directory with an unsafe owner asks once, for the first component that depends on it
(`Blames`). The last is what is hard: the code looks through the buffer for
the directory and replaces the finding by one with a smaller position, or leaves it, so what is in the
buffer has to be read back from it (`OwnersNoted`). That works only if nothing else
says UNSAFE_OWNER of that directory (`Stranger`). A component's own codes never do
(`NoOwnerIsDue`); an executable's may, hence the assumption that the directories blamed
are not the executables' realpaths, which are regular files. Whether a component is blamed depends in
a search for one command on the matches before it: `InspectedInv` ties the flag `seen_match`
to the components passed. What is asked for then grows by one
step at a time (`DirectsGrow`, `BlamesGrow`, `TrustsGrow`), nothing inspected is inspected
again with another outcome (`InspectionsStay`), and the sort permutes the buffer into order. At the end
the accounts are the reference's counts (`FindingsAreCounted`), and the lines of the findings lie behind those of the matches,
one for each (`FindingsArePrinted`).

*treehash.* The invariant of the stacks has five parts, each with a lemma for its step. `Control` says where
an activation exists and where a failure is on its way up (`ret`), without which
the rules could not be allowed to lag behind on failing exits; `FramesInStep`
relates activations, ancestors and streams; `RulesInStep` adds that the rules are
sorted by depth, so that popping those of one depth from the end leaves none of it.
`Hashed` uses the two theorems about the stream: `Received` says that the blocks handed on
are the message up to the last multiple of 64 bytes and the rest is in the buffer; it needs
that `q` and `r` are the quotient and remainder of `64 * q + r` (`DivModUnique`), and that
blocks of the message followed by the next ones are blocks of the message (`Joined`). The
file systems, the limits, the sizes of pieces and the number of failing calls are
arbitrary, as far as `TreesAssumption` and `BoundsAssumption` go: a tree has a root
directory, its entries lead to its inodes, no inode is called `Nothing`, and no two names,
with or without a slash, have one place in the order.

`ListIsOfTheTree` and `StatusTellsTheTruth` share an invariant, `WalkInv`, that holds the walk against
the references, which know no walk. At each step every path of the tree is either awaited
(`ToCome`: the path in hand, or a name that an activation on its way has yet to read, leads to it) or
settled: it is within the limits, and if it should be listed it is in the list (`NothingIsMissing`). Conversely
what is in the list is rightly there, once, and no longer awaited (`NothingIsAlien`), and what is entered or
opened should be (`Rightly`). For that the activations have to lie on one path
of the tree (`OnPath`), each gone past the name of the next, and the rules in memory have to be those of the
directories on this path up to the line being read, numbered by their places without a
gap (`RulesRead`): then `is_path_ignored()`, which goes through the rules from the last, decides as `Excluded`
does, which looks for a rule that no later one overrides. A step settles a path, or
all paths below one that is passed over, too long, excluded or no directory. `Blame` says that a
failure has a reason and `Started` where errno may be left over. The sort permutes the list because the
order of paths is total and strict on different paths (`PathBeforeIsTotal`, `PathBeforeIsTransitive`) and the
number of entries up to one is then a place that no other has (`PlacesGrow`, `PlacesAreFull`).
After a `.gitignore` that was cut short unnoticed nothing is promised of the list, in the
invariant as in the properties.

`RootIsOfTheTree` is about the reduction at the end. Its invariant, `Rooted`, says that every level
has the tree of the leaves, for any number of them; `PairingKeepsTheTree` shows that one pass keeps it.
The tree over the `m` nodes of the next level from the `i`-th on is the tree over the nodes of
this level from the `2i-1`-th on, `2m` of them or, at the right edge, `2m-1`: the greatest power of two
below either is twice the one below `m` (`SplitOfHalf`), so the split of the one is the split of the
other. A power of two is defined without exponents, as a number that nothing odd but 1
divides; that doubling and halving keep such numbers (`DoublingKeepsPowers`) then needs no
induction over the exponent.

Induction over data is done over sets here: the least element of a set of counterexamples
(`LeastNatural`, `EveryNatural`), and a recursive function is first shown to exist
(`EnteringIsPossible`, `RehashedIsEntered`, `BalancingIsPossible`).

Only model-checked: liveness and everything about fairness (beyond the prover).

## 5. What is left out of the modules

* agentwatch: option parsing, diagnostics, `add_ms`'s overflow, the wake pipe and the signal
  mask, the seam for the tests; a command that makes orphans faster than they are
  reaped (the number of births is bounded); the direct child moving to another group
  after `execvp`; resource limits other than as the fault `limit`.
* snslice: option parsing, the checks of the paths in `main()`, names of files
  (numbers stand for them), the content of a chunk that could not be removed, the second
  `close` of the input; being killed by a signal.
* sysdiff: the syntax of keys, blank and comment lines in detail, allocation sizes,
  the other commands of `main()`.
* openunlink: the parsing of the pid, `--help`, `--version`, the escaping of the target; the
  text of the link is a class only.
* pathaudit: the options, the check of the command's name, the escaping, the diagnostics' words;
  how a candidate fails, of which only the outcomes remain; sizes of arrays other than as
  the fault `memory`.
* treehash: the rounds of `sha256_transform()`, wildcards within a name (`*` alone is
  kept), escapes in patterns and diagnostics, the growth of arrays other than as a
  failing call, the check of `child_rel`, which is never longer than the path that was checked
  before it.

Of the hazards that the code has, a few have no property of their own and are kept here: option sums that
overflow in `add_ms` (agentwatch.c:186); a clock that fails while the tree is
being ended (agentwatch.c:668); a component of PATH that changes between the lookups
(pathaudit.c:1684), which the contract excludes.

## 6. Plan

1. `Permguard`, if a property is found that its table of mode bits does not already state.
2. Treehash with a file system that changes during the walk: a manifest then mixes two
   states, and what it still promises has to be found out first.

No module that has theorems uses RECURSIVE; constants carry named assumptions;
invariants are conjunctions of named parts, so that the proofs can go on from here.
