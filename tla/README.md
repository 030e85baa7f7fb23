# TLA+ models of fuser

fuser is a Rust library for FUSE filesystems: it mounts a filesystem, reads the
kernel's requests from `/dev/fuse`, calls the methods of a user's `Filesystem` and
writes the answers back. This directory holds TLA+ modules of the library and of the
examples that carry logic of their own, TLC configurations that check them on small
instances, and TLAPS proofs for all instances. `PROJECT.json` lists runs, mutants, the mapping of definitions to source
lines, findings, hazards and theorems. The models are of fuser on Linux.

## The system

| Part | State | Operations | Where |
|---|---|---|---|
| Session | filesystem, channel, Mount slot, ACL, negotiated capabilities | `new`, `from_fd`, `run`, `spawn`, `unmount`, drop | `src/src/session.rs` |
| BackgroundSession, SessionUnmounter | join handle, Mount, device; the shared slot | drop, `join`, `umount_and_join`, `unmount` | `src/src/session.rs` |
| Mount | mountpoint, back end, device | `new`, `umount`, drop | `src/src/mnt/` |
| Event loops, Channel | one thread and one (shared or cloned) device each | receive, dispatch, end | `src/src/session.rs`, `channel.rs` |
| Request dispatch | the parsed request | parse, ACL check, call, refuse | `src/src/request.rs`, `ll/request.rs` |
| Reply | request id, sender (`Option`) | answer, drop, move to another thread | `src/src/reply.rs` |
| KernelConfig, handshake | requested capabilities and limits | `add_capabilities`, six setters, the answer to INIT | `src/src/lib.rs`, `ll/request.rs` |
| Directory buffers and reply encoding | bytes and a limit | add, remaining capacity | `src/src/ll/reply.rs` |
| Notifier, PollNotifier | sender, capabilities, ABI | seven notifications | `src/src/notify.rs` |
| BackingId | weak device reference, id | open, wrap, into_raw, drop | `src/src/passthrough.rs` |
| Mounting, mount options | helper process, socket; option lists | mount, conflicts, escaping | `src/src/mnt/` |
| Time conversion | none | two functions | `src/src/time.rs` |
| TokioAdapter | runtime | spawns a task per request | `src/src/experimental.rs` |
| simple.rs | a data directory: a superblock, a file per inode, one per content | the whole `Filesystem` | `src/examples/simple.rs` |
| passthrough.rs, poll.rs, notify_inval_inode.rs | a cache of BackingIds; byte counts and poll handles; a lookup count | open and release; poll and a producer thread; lookup, forget and a clock thread | `src/examples/` |

How they interact. `Session::new` mounts and shakes hands with the kernel, which calls
`Filesystem::init`. `run` gives every event loop thread a channel and a reference to
the filesystem, joins the threads in order and calls `destroy`. `spawn` moves the
Session to a thread and the Mount to a `BackgroundSession`, whose drop unmounts, waits
for the connection to end and joins. An event loop reads a request, dispatches it and
hands the callback a `Reply`, which holds its own reference to the device and may
outlive the thread. The connection can end at any time, from outside.

What is hard: threads that end in any order, with errors, by panic or not at all; a
filesystem shared by reference counting whose `destroy` must run once and alone; an
unmount by path that races the outside world; a mutex held across the unmount; Replys
that travel between threads and devices; capabilities that depend on other capabilities
asked for in other calls; structures on the wire that change with what was negotiated; a
helper process that must clean up after a dead one; notifications that overtake answers;
and, in the large example, requests that are a dozen writes to disk each. What makes each part correct is stated below with its module.

## Modules

### Session (with FilesystemLifecycle, SessionProofs)

`FilesystemLifecycle` is the abstract promise to a `Filesystem`: init at most once,
callbacks only between a successful init and destroy, destroy at most once and alone,
nothing after it. `Session` is the code: `run` is where the thread that owns the
Session is, in `Session::new`, in the handshake, in `run()` (`start`, `join`,
`destroy`) or in the drops at its end (`release` drops the filesystem, `guard` the mount
guard, in the order Rust drops them on that path). `loop[t]` is each event loop, `refs`
the holders of the `Arc<FilesystemHolder>`, `destroyer`/`destroys` the call of
`Filesystem::destroy`. `mount` says who has the Mount: the shared slot, the BackgroundSession, or
whoever is unmounting with it; `step` is how far that unmount has come (the check of the
connection and the unmount by path are two steps). `bg`, `op` and `guard` are the holder
of the BackgroundSession. `conn`, `at` and `busy` are the kernel: the connection, what is
mounted at the path, whether somebody uses it. Kernel actions are unmounts and mounts
by others, use, aborts, and the teardown of an unmounted, unused filesystem.

One action is one step between points where other threads can interfere. A callback is
an action to enter and one to leave. The handshake is one action (see Negotiation).

Checked: `TypeOK` (which has destroy return at most once), `NoRefcountBug`,
`JoinedImpliesDestroyed`, `UnmountAfterDestroy` (but for the early return of `run()` with
zero threads, which drops the guard first), `ReplacementSafe`, `RefinesLifecycle`; and under fairness `DropReturns`, `JoinReturns`, `DestroyHappens`.

### Requests (with RequestContract, RequestsProofs, MCRequests)

`RequestContract` is what the kernel and the filesystem rely on per request: at most one
call, one final result, an answer only after a call and a refusal only without, nothing
for one-way requests; a caller goes without a result only when the connection ends or
the request was given up before any call. `Requests` is the code after the handshake:
event loops that read, refuse or dispatch, and Replys that are used, dropped, unwound or
moved away. The operations are told apart only by what dispatch does with them (`Ops`).
Devices are open `/dev/fuse` descriptions, one for all threads or one per thread
(`clone_fd`); one is closed when no thread and no Reply holds it. The kernel takes an
answer only on the device it gave the request to.

Checked: `TypeOK` (with at most one answer per request), `ReplyDeliverable`,
`NoAnswerWasted`, `RefinesContract`; under fairness `CallersAnswered`, `QueueServed`.

### Negotiation (with NegotiationProofs, MCNegotiation)

The handshake in detail: the INIT loop with its version checks, the KernelConfig that
`Filesystem::init` changes by any sequence of calls, and the answer. The capabilities
are seven representatives, one per way the code treats them. A refused call changes
nothing and suggests another value; `XxxFor(v)` is what the caller is left with.
`KernelFlags` is what the kernel reads in the answer (flags2 only under `FUSE_INIT_EXT`).
The build wraps on overflow in `max_pages`; the page size is 4096.

Checked: `Agreement`, `IdmapHonoured`, `OnlyProvided`, `LimitsFit`,
`SuggestionsNearest` (of `set_time_granularity` only that no valid value lies between the
argument and the suggestion; what its documentation says is `GranularityNearest`, see
Findings). The type invariant is proved.

### Wire (with Times, Listing, WireProofs, MCWire)

What a callback is called with. A step of the kernel lays a system call out as an
operation: a header and a sequence of structures, names and bytes, as the version and
the negotiated flags demand. The library parses it (`ll/request.rs`, with
`ArgumentIterator`) and dispatches it (`request.rs`), and the outcome is either a call
with its arguments or an errno. `asked.meant` is what the system call meant, written down
from the system call and not from the layout, so that parser and layout are checked
against a third thing. A request may also be laid out for other flags than were negotiated
(`mislaid`). `Times` is `time.rs` with its widths as parameters. `Listing` is `EntListBuf`
and the kernel's walk over a directory reply; Wire runs a listing with buffers of
changing sizes.

Checked: `CalledAsMeant`, `TimesSurvive`, `ListedOnce`.

### Mounting (with MountOptions, MCMounting)

`MountOptions` is `mount_options.rs`: conflicts, groups and escaping, with option values as
short strings over an ordinary character, comma, backslash and NUL, and what each reader
on the other side (the kernel, fusermount, libfuse, mount_fusefs) makes of the list, which
is external. `Mounting` is one process from `Session::new` to its death: mount(2), the
helper when that is not permitted, or libfuse; the socket over which the helper sends the
device; unmounting; and the helper as watcher, which acts when the socket closes. The
process can exit or be killed at every step, the filesystem can be unmounted or aborted from
outside, and another one be mounted.

Checked: `OptionsArrive`, and under fairness of the helper `AutoUnmountCleans`.

### Devices (Passthrough, PollFS, Notify, with DevicesProofs, MCDevices)

What a process does with `/dev/fuse` beside answering. `Passthrough` is `BackingId` with
the cache of `examples/passthrough.rs`: ids in the kernel, strong and weak references, raw
ids, and event loops whose devices end. `PollFS` is `PollNotifier` with `examples/poll.rs`:
a producer that notifies each handle once, and clients that poll, sleep and are woken, the
notification before or after the answer. `Notify` is `Notifier` with its gates and
`examples/notify_inval_inode.rs`: content replaced, the lookup count read and the cache
invalidated in three steps, between those of lookups in flight; a notification may fail,
and `--no-notify` turns them off: `StaleDropped` is about a process that notifies, and allows
for a failure. `Devices` composes them: a
process runs one of the three.

Checked: `BackingsSound`, `NotifiedAsMeant`, and under fairness `PollReturns`, `StaleDropped`.

### SimpleFS and SimpleAttrs (with SimpleFSProofs, SimpleFSTreeProofs, SimpleAttrsProofs and MC modules)

The large example, in two parts. `SimpleFS` is its namespace and storage. `disk` is the
data directory: the superblock, and an inode and a content per number. A handler is a
reply and the sequence of writes it makes in the code's order; an action carries out all
of them, or a prefix and then a torn or missing file when the process is killed. `clean`
says that it never was. The kernel's handles survive in `handles` and die with the mount.
Access checks are the action `Deny`, which every handler may take before its first write.

`SimpleAttrs` is one regular file: record, length of the content, handles, and every
request that reads or changes them, with the caller's ids and capabilities. A time in a
setattr is "now" or any of `SpecificTimes`, also one the clock has not reached. Three history
variables remember who changed the file since it was given privileges, when it was first read
since it or its times were changed, and whether one of the two requests that set record and
content apart was carried out (`skewed`, see Observations). `SizeIsLength` excepts what follows
these; `PrivilegesEarned` does not, it only takes no truncate with a modification time for a
change that strips privileges, since it does not (see Findings).

Checked: `LinkCountsExact`, `StorageExact`, `TreeAgrees`, `OpenFilesPinned`,
`NextInodeUnused`, `NoPanic`, `RefusedChangesNoName` (with the one refusal that comes after a
write stated in it: a whiteout rename without an owner); `SizeIsLength`, `PrivilegesEarned`,
`AtimeTells`, `FlagsEnforced`.

## Runs

| Run | Shows | Bounds |
|---|---|---|
| `session` | safety, the refinement, drop and join return, destroy happens | up to 2 event loops (0 included, which `run()` rejects) |
| `requests` | safety, the refinement, callers answered, queue served | 2 requests of every kind, 2 threads, all ACLs, shared and cloned devices |
| `negotiation` | what is agreed on | 18 kernels, 2 calls on the KernelConfig, arguments on both sides of every bound |
| `wire` | arguments, times and listings | every Linux operation, with and without `SETXATTR_EXT` and `ALLOW_IDMAP`, names of 1 to 3 bytes; seconds of 2 ns and a range of 4 s; 3 entries, buffers of 4 sizes |
| `mounting` | options arrive, auto_unmount cleans | both platforms, 3 back ends, root or not; lists of up to 2 options, values of up to 2 characters; one filesystem at a time at the mountpoint |
| `devices` | backing files, polls and notifications | 2 event loops, 1 inode, 2 ids, 3 handles; 2 files and 2 clients; 2 lookups in flight, kernels 7.43 to 7.45 |
| `simplefs` | names, counts, storage and handles agree | root and 3 inodes (2 once killed), 2 names, 2 handles, 2 mounts |
| `simple_attrs` | size, privileges, times and flags of a file | 3 callers, 2 modes, offsets and lengths up to 1, 1 handle, 2 ticks of the clock, and a time after them |

Bounds. Two event loops are one that panics or fails and one that is left behind, not
started, or already joined; more of them are left to the proofs of the safety properties. Two
requests on two threads give every race between a Reply and the end of a thread, a device
or the connection; more requests do not interact except through these. `Distinct` leaves
out choices of caller and ACL that change nothing: they are fixed before the first step, and
only a request of the kind "lookup" is treated differently for them. Two calls are
enough for every dependency between calls: `POSIX_ACL` then `ALLOW_IDMAP`, or the
threshold and `max_background` in either order. The proofs have no bounds.

A wire request is independent of every other; only the negotiated set is shared. The
scaled second and range have both ends, the epoch, and a fraction on each side. An entry
of each padded length against each buffer size puts the limit before, inside and after an
entry. Two characters are enough for an escape before a separator. Three inodes are a
directory, a file in it and one to move over them: every mix of a rename needs no more,
and after a kill two are left to save states. Two ticks are what relatime's day needs, with a
day of one; a time after both is one in the future at every moment. Privileges do not depend
on times, nor the access time on who reads, so that `TimesOrPrivileges` keeps to files that
vary in one or the other.

Deadlock is checked in the runs of `Session`, `Requests`, `Negotiation` and `SimpleAttrs`;
the first three have a step that stutters where everything has come to its end, and
only there. The others end where a bound on mounts, opens or lookups is used up, where a
process is gone, or, in Wire, when the request is served and the listing done.

Fairness. Weak fairness of each thread of the process: of the owner inside a call, of
each event loop, of an unmount under way, of the BackgroundSession inside drop or join,
and of whoever was given a Reply. This is the operating system's scheduling, and that
callbacks and destroy return; `Reply` documents that it must be used. Nothing is assumed of
the kernel or of the user: no INIT needs to come, no unmount to succeed, no file to be
closed, and a ready Session may never be run. Time is abstract: a bounded wait may end
whenever the connection is alive, and must end some time. In `Mounting` only the helper
is fair, once it has mounted: it is a process of its own that nobody stops, and nothing is
assumed of ours. In `Devices` the producer and the clock thread loop for ever, event loops serve
what was sent to them, and the kernel goes on with a call that was answered or woken.

### Findings

Four runs check what a comment says and the code does not do.

- `session_destroy_guarantee`: with several event loops, a panic in one makes `run()`
  return while others still use the filesystem; drop and `umount_and_join` return before
  destroy. `JoinedImpliesDestroyed` is what does hold, and `DestroyHappens` says that
  destroy comes later.
- `session_unmounter_after_spawn`: a SessionUnmounter made before `spawn()` returns Ok
  and does nothing.
- `negotiation_time_granularity`: `set_time_granularity` suggests the next lower power of ten,
  also where the next higher one is nearer (9 is answered with 1); lib.rs:488 says the nearest.
- `simple_attrs_capabilities`: a setattr with size and modification time writes back the record
  it read before truncating, and with it suid, sgid and file capabilities, which simple.rs:339
  says "have to go on every write, chown and truncate". Linux sends the two together when nfsd
  truncates a file.

### Observations

Met while modelling, and either visible in the models or left out of them as said.

Library.
- A handshake that fails early calls `destroy` on a filesystem without `init`, which
  lib.rs:634 says is "Called before any other filesystem method".
- The check of the connection and the unmount by path (mnt/mod.rs:208-212) are not atomic: a
  replacement mounted in between is unmounted. `ReplacementSafe` is what does hold.
- A WRITE whose data is shorter than announced panics in an assertion (ll/request.rs:1836)
  where other mislaid requests are refused. No kernel sends one.
- An entry that does not fit a whole readdir buffer gives an empty reply, which is the end
  of the directory. `ListedOnce` is about buffers with room for any one entry.
- An unmount that fails in fuse_pure.rs still closes the watcher's socket (line 85). The
  watcher finds the connection alive and leaves, so nobody unmounts when the process ends.
  `AutoUnmountCleans` excepts this case.
- A process whose `receive_fusermount_message` fails after the helper has mounted, without
  auto_unmount, leaves a dead mount; so do one whose wait for the helper fails (fuse_pure.rs:302)
  and libfuse3 when dup fails after its mount.
- mount(2) gets the plain type "fuse", so for root a Subtype only serves as the name.
- A BackingId whose own device has ended leaves its id open in the kernel until the
  connection ends (the exception in `BackingsSound`).

Examples.
- simple.rs: a setattr with size and times writes back the record it read before truncating,
  so the size is the old one too (see Findings); a copy_file_range of nothing beyond the end of
  the destination sets a size the content does not have. Both are in the model (`skewed`).
- simple.rs: with a modification time in the future no read makes the access time reach it, so
  that the file looks unread to who compares the two. `AtimeTells` says what holds then: the
  access time is not before the read.
- simple.rs: a setattr with mode and owner changes only the mode; one whose second time is
  refused has set the first.
- simple.rs, after a kill: link has written the name before the count, so a later unlink
  frees storage another name still has; a torn file makes the next access panic; handles that
  were open are counted for ever and leak their storage. The properties that these break are
  stated for a process that was not killed (`clean`); `NextInodeUnused` and `OpenFilesPinned`
  hold regardless.
- simple.rs: a whiteout rename without an owner is refused with EIO after the target's name was
  removed, its link count lowered and, if that was the last name, its storage freed (1844-1847).
  `RefusedChangesNoName` states the exception. The kernel sends an owner with every whiteout.
- simple.rs: offsets of readdir are indices, so entries are skipped or repeated when a
  directory changes during a listing.
- poll.rs: the producer's `continue` leaves `t` where it is, so one file gets the round's
  remaining bytes.

## Proofs

All theorems are proved by TLAPS from the named assumptions of the modules, for every
value of the constants.

- `SessionProofs` (any `MaxThreads \in Nat`): `TypeCorrect`, `RefcountCorrect`,
  `JoinCorrect`, `GuardCorrect`, `ReplacementCorrect`, `Refinement`. The properties are
  not inductive: that run() has the last reference when all are joined needs who holds a
  reference in every state of every thread, that joined threads have ended, and that the
  filesystem is in the holder as long as anybody holds a reference before destroy. The
  inductive invariant says this, and where the Mount may be in each state of the owner
  and of the BackgroundSession. `Invariance` proves it action by action.
- `RequestsProofs` (any sets of requests and of threads, a thread at least):
  `RequestsTypeCorrect`, `ReplyDelivery`, `AnswersCount`, `ContractRefined`. The invariant
  ties each request to the one thread that has it (`Exclusive`), each Reply to the
  device its request was read from, and says that a request is untouched before it is read.
- `NegotiationProofs` (any kernels within the assumption, any arguments, any number of
  calls): `NegotiationTypeCorrect`, `AgreementHolds`, `IdmapIsHonoured`,
  `OnlyProvidedHolds`, `LimitsFitTogether`, `SuggestionsAreNearest`. The properties are about the answer; the
  invariant says of the requested capabilities, after every call, what they say of the
  answer at the end. `NegotiationAssumption` is about kernels: those before 7.23 offer no
  later capability, and readahead stays below 65536 pages (it wraps `max_pages` otherwise).
- `WireProofs` (any names, any data, any directories, any widths and alignment; ids, handles and
  flags from the sets the run has): `MeantCorrect` (`CalledAsMeant`), `SurviveCorrect`
  (`TimesSurvive`), `ListedCorrect` (`ListedOnce`), and of the two functions of `time.rs` alone
  `RoundTrip` and `WithinTheWidth`. These two hold for any range of seconds and any number of nanoseconds in
  one from 2 on, from the uniqueness of quotient and rest (`DurationParts`) and the one place on
  the line of nanoseconds a timespec has (`PlaceOnTheLine`). A request is
  made, served and forgotten in one step, so the invariant is the property itself; the work is in
  the step. `Fetched`, `FetchedName` and `ParsedOne` show that a message which is a structure, names
  and data is taken apart into what it was put together from: the fields are told apart by their
  names (`StructsDistinct`), a name ends at the first 0 because it has none. `Understood` says of an
  opcode that what `op::parse` makes of the kernel's layout is read, through the accessors, as
  what was asked, or refused for the reason it must be; one lemma for each opcode. The flags of
  SETATTR's `valid` do not disturb each other (`ValidBits`), and its times come back (`TimeSent`, from
  `PlaceOnTheLine`). `MislaidRejected` is the case INIT's extension makes possible: sent with the
  extension where none was agreed on, the value has not the length announced; sent without it where
  it was, the first byte of the name is taken for flags and is not 0. `Served` follows `dispatch`.
  `WireAssumption` says that names are not empty and have no zero byte, as the kernel guarantees,
  and that no user has the id FUSE_INVALID_UIDGID. For a listing, the invariant (`ListedTo`) is that
  what the kernel has got is the directory up to the offset it goes on from. `Chained` says how
  the entries of a buffer follow each other, each with room for its padding and no two at the same
  place; every round of the filesystem's loop keeps it (`FillChained`), and the kernel's walk over such
  a buffer finds just the entries that were pushed (`WalkFinds`). Both loops are recursive functions;
  that they are functions at all (`FilledExists`, `WalkedExists`) and what holds after each round
  (`UpTo`) follows from the least number for which it would fail. The hypothesis `Roomy` is that
  every size the kernel asks for has room for any one entry (see Observations for what happens
  otherwise); the run's sizes have.
- `DevicesProofs`. `NotificationsMeant` (any kernels, any version of fuser, any version with
  epochs): what INIT offered is part of the invariant, since the gates decide on it.
  `ForgetsCorrect` (any finite set of lookups in flight): the kernel never sends more forgets than
  `notify_inval_inode.rs` has counted, which its `forget` asserts. `BackingsCorrect` (any event
  loops, inodes, ids and handles): `BackingInv` adds who keeps the Arcs: an open that is being
  answered, or that the kernel has, keeps its handle until its RELEASE is served, on the id that
  `by_inode` has for its inode; and ids are owned, raw or in an Arc, one at a time.
- `SimpleAttrsProofs` (any callers, modes, sizes and extended attributes): `SizeCorrect`,
  `PrivilegesCorrect`, `AtimeCorrect`, `FlagsCorrect`, `TypeCorrect`. The invariant is the
  three state properties together, the types, and that the first read is not in the future
  (`LookedPast`): relatime moves the access time to the clock, so never to before that read. Times
  are any integers, since callers set them. A truncate with a modification time keeps the
  privileges that were there and gives none (`Keeps`). The proof goes handler by handler, and
  shows the action property `FlagsEnforced` of each along the way.
- `SimpleFSProofs` (any names, any number of inodes, handles and mounts): `Invariance`,
  `PinnedCorrect`, `PanicsCorrect`, `NextInodeCorrect`, `RefusedCorrect`. A request is a
  sequence of writes that a kill may cut anywhere, so the argument is about sequences of writes.
  The invariant (`Inv`) says that every inode number has a kind which its record and its content
  agree on, that nothing on disk is beyond the superblock, that no directory names itself, that
  handles are counted, and, while no process was killed, that no file is torn and every inode
  has both its files or neither (`Whole`). Each handler is shown to be `Ordered` (every
  write leaves a file fit for its inode, and those that use the new number come after the
  superblock) and `Balanced` (both files of an inode are removed or made, or neither).
  `WrittenDisk` and `InterruptedDisk` say once and for all what such a sequence leaves, when it
  is carried out and when it is cut; `WholeWritten` what it leaves of `Whole`. `OpenFilesPinned`
  and `NoPanic` are parts of the invariant, `NextInodeUnused` follows from it, and
  `RefusedChangesNoName` from the writes of the refusing handlers, of which the whiteout rename
  without an owner takes one name from one directory (`ReplacedUnlists`). What the proofs assume
  of the contents (`ContentsAssumption`) is that an absent, a torn and an opaque file, a record and a
  directory can be told apart, as the code tells them apart by opening and decoding them.
- `SimpleFSTreeProofs` (any names, any number of inodes, handles and mounts): `TreeInvariance`,
  and from it `LinkCountsCorrect`, `StorageCorrect` and `TreeCorrect`. The properties relate an inode to
  every directory that might name it, and none is inductive alone. `TreeInv` says, while no process was
  killed, that the disk is `Tidy`: each inode is `Shaped` (a record and a content of its kind, or
  neither), `Held` (its count of handles is the kernel's, and it is there only while
  something refers to it), `Counted` (its link count is the number of its names; a
  directory has one and counts 2, or none, counts 0 and is empty) and `Agrees` with its names (each entry
  has its kind; a directory's "." is itself and its ".." where it is named). `After` says
  what a sequence of writes leaves in a file; `NamesOf` what an edit of one directory changes in the names
  of each inode (`Edited`, `NameGained`, `NameLost`). Then one lemma for each kind of change an inode
  can undergo (`GoneSound`, `HandleSound`, ...) and one for each handler. Rename is taken apart
  as the code does it: what it replaces, the whiteout, the move, and the ".." of what was moved;
  an exchange is two such moves. The hypothesis `Room` is that there are no more places for a name
  than the link count, a u32, has values: the code adds to it unchecked. The run's instance satisfies it.

Only model-checked:

- liveness (`DropReturns`, `JoinReturns`, `DestroyHappens`, `CallersAnswered`, `QueueServed`,
  `AutoUnmountCleans`, `PollReturns`, and the part of `StaleDropped` beyond `ForgetsCounted`), which
  is out of the prover's reach under fairness;
- `OptionsArrive`: it is about strings put together from a list of options and taken apart again by
  four readers, with escapes that are read from the left, and it is stated for lists with at most one name
  and one subtype whose values contain no keyword. The run has every way of mounting with every
  option and every pair that could run together.

## Not modelled

The bytes of fixed structures, attributes in replies, buffer alignment, logging,
platforms other than Linux (but for the BSD way of mounting), the macOS and CUSE
operations, and the parts listed as not modelled in `PROJECT.json`. In `Session` mounting
succeeds or fails as one step (`Mounting` has the steps), `Filesystem::init` and `destroy`
do not panic, and no BackgroundSession is dropped in a callback, which its documentation
forbids. In `Requests` a FORGET always parses, and the Mount and notifiers hold no device:
they only keep devices open for longer. In `Mounting` lists have at most one FSName and one
Subtype (of several, the first counts on one way and the last on another). `SimpleFS` and
`SimpleAttrs` serve one request at a time, as the example does with its default of one
thread. The default methods of `Filesystem`, the flags types and `TokioAdapter` have no
state that the models do not have already. `notify_inval_entry.rs`, `ioctl.rs`, `hello.rs`
and `null.rs` are smaller relatives of what is modelled.

## Plan

1. `Mounting`: the invariant behind `AutoUnmountCleans`, that whenever the process is gone
   a watcher holds the duty or nothing is mounted; and `OptionsArrive` for lists of any length.
2. `Wire`: the theorems for any set of ids in place of two.
3. `SimpleFS`: what survives a kill of the properties that now need `clean`, as a weaker
   invariant in place of none.
