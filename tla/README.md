# A TLA+ verification of juju-utils

juju-utils is a Go library of small, independent utilities. The ones that carry
logic worth a model are concurrent (goroutines that meet on channels, locks and
condition variables), or touch a shared filesystem or store in several steps
that may fail or be interrupted. This project models those, checks them with
TLC on small instances, and proves with TLAPS, for every size, every safety
property that the passing runs check; liveness is model-checked only. The smaller
tools around them (tree copies, archives, a limiter, HTTP error handling,
processes) are modelled too, one module each, and share a run.

## Inventory

| component | state | operations | what is hard | what makes it correct |
|---|---|---|---|---|
| `parallel.Try` (`parallel/try.go`) | the channels `start`, `result`, `limiter`, `close`, the tomb, the loop's `nrunning` and `err`, `endResult` | `Start`, `Close`, `Kill`, `Result`/`Wait`, the loop, the goroutine of each function | selects with several ready cases, a late success, `Kill` racing a result, slots that are not given back | at most `maxParallel` functions run; each value is reported or closed, once; the result is the right one and final; everybody gets an answer |
| `parallel.Run` (`parallel/parallel.go`) | `running`, the channels `work` and `results`, each runner's errors | `Do`, `Wait`, the runners | `Do` calls competing for runners, the number of runners at its limit | each function runs once, at most `max` at a time; `Wait` comes after the last with all the errors |
| `fslock` (`fslock/fslock.go`) | directories on disk | `Lock`, `LockWithTimeout`, `LockWithFunc`, `Unlock`, `BreakLock`, `IsLocked`, `IsLockHeld` | processes interleave between filesystem operations, crash, and operations fail half way | mutual exclusion; no lock is stuck on behalf of nobody; a timeout ends |
| `voyeur` (`voyeur/value.go`) | the value, its version, `closed`; an RWMutex and a condition variable; each watcher's version, value and `closed` | `Set`, `Close`, `Watch`, `Next`, `Watcher.Close` | broadcasts after the unlock, initialisation on first use, writers that keep readers out | no lost wake-up, no deadlock, value and version belong together |
| `filestorage` (`filestorage/wrapper.go`) | documents and raw files in two stores | `Add`, `SetFile`, `Remove`, `Get`, `List`, `Metadata`, `Close` | the second of two stores fails; clients interleave between the stores | what was added is found until removed; a failed `Add` is invisible |
| `Attempt` (`attempt.go`) | `last`, `end`, `force`, `count`, the clock | `Start`, `Next`, `HasNext` | any timing of the calls, sleeps that return late, zero and negative durations | `HasNext` keeps its promise; attempts are spaced; enough attempts |
| `apt.GetInstall` (`apt/apt.go`) | an `Attempt`, the last error | the retry loop | the command may end in any way at any attempt | bounded retries, of exit status 100 only; the right result |
| `tailer` (`tailer/tailer.go`) | read position, look-ahead buffer, buffered writer, tomb | the polling loop, `readLine`, `SeekLastLines`, `Stop` | the file grows while it is read; buffer boundaries; read and write errors | every filtered line once, in order, whole |
| files (`file.go`, `trivial.go`, `symlink/symlink.go`) | files and links on disk | `AtomicWriteFile`, `WriteYaml`, `ReadYaml`, `CopyFile`, `symlink.Replace` | failures and crashes half way, callers of the same path | old content or new content, nothing else; nothing left behind |
| `fs.Copy`, `tar`, `zip` | a tree that is read, a tree or archive that is written | `Copy`; `TarFiles`, `UntarFiles`, `FindFile`; `Extract` | permissions, umask, entries that are in the way, a failure at any entry | the copy is the original; nothing else is touched; a failure has a cause |
| `Limiter` (`limiter.go`) | a channel | `Acquire`, `AcquireWait`, `Release` | at its limits, used by the wrong caller | never more out than the limit |
| `jsonhttp` | the wrapped writer's `headerWritten` | `HandleErrors`, `HandleJSON` | a handler that writes and then fails | errors are reported once, and never after output |
| `filestorage` metadata (`filestorage/metadata.go`) | the id and file information | `SetID`, `SetFileInfo`, `SetStored` | any order of calls with any values | accepted calls never contradict each other; a checksum has a format |
| `exec` (`exec/exec.go`) | the process | `Run`, `Wait`, `Process` | kill, exit and wait in any order, twice | no exit code that is not the process's |
| HTTP client (`http.go`) | the shared client and its mutex | `GetHTTPClient` | goroutines that ask at once | one client |
| `debugstatus`, `registry`, `timeit`, `hash`, `keyvalues`, `size`, `featureflag`, `proxy`, `set`, passwords, UUIDs, platform helpers | little or none | see `PROJECT.json` | | not modelled: see the end |

The components are used independently of each other. The calls between them that
matter are `fslock` → `utils.ReplaceFile`, `apt` → `Attempt` (modelled:
`AptInstall` extends `Attempt`) and `tar` → `symlink.New`.

## Modules

Each component has a module of its own, an `MC` module that gives it finite
instances, and one `.cfg` per question. Definitions marked as a mutant are wrong
variants of the definition that follows them; nothing uses them except the
mutation checks listed in `PROJECT.json`, which replace the definition by its
mutant and expect the property to fail.

**Try.** One action per channel operation: `StartCall`, `TakeSlot`,
`StartStopped`, `StartClosed`, `SendStart` are `Start`; `FnReturn`, `Release`,
`DeliverSuccess`, `DeliverError`, `Discard` the goroutine that runs the
function; `LoopDying`, `LoopClose` the rest of the loop's select;
`LoopSetResult`, `LoopKill`, `LoopDone` the goroutine around it. A rendezvous on
an unbuffered channel is one step of both sides. The tomb is external and
modelled by the three facts the code relies on: the first reason that is not nil
stays, `Kill` closes dying, `Done` closes dead. A function is identified with
the value it returns.

**Run**, **WorkPool.** `Run` models the channel `work` with its queues of parked
senders and receivers, because the first select of `Do` succeeds only if a
runner is already parked. `WorkPool` is the abstract specification; `Run`
implements it with the mapping `accepted` = the functions whose `Do` has
returned, `done` = the ones that completed, `report` = what `Wait` returned.
The runner started by `Do(f)` is called `f`.

**FSLock**, **Mutex.** One action per filesystem operation of each process. A
directory is a record of its existence and its two files. Every operation may
fail, `MaxFaults` times in all, and a process may crash, `MaxCrashes` times, at
any point; a process that comes back has a new nonce and is another process.
`BreakLock` is the three phases of `os.RemoveAll`: list, unlink each file by its
path, remove the directory. `holders` is what the callers believe: the processes
whose lock call returned nil and whose Unlock has neither released the lock nor
returned `ErrLockNotHeld`; `misled` are those to whom Unlock returned that only
because its read of the lock failed, so that their lock is still there; `broken`
remembers that `BreakLock` was called. `Mutex` is the abstract specification, implemented until
the first `BreakLock` (the mapping shows no holders after it). Writing the files of a temporary directory is one step, since no
other process knows its name. The deadline of `LockWithTimeout` is a Boolean
that turns true at any time.

**Voyeur.** The write-locked section of a method is one step; asking for the
write lock (which keeps new readers out, as Go's RWMutex does), the section, and
the broadcast are separate ones. `sync.Cond.Wait` is three: join the list, give
up the read lock, wake and take it again. Next copies the version and the value in
two steps, under the read lock. The nth `Set` stores `Vals[n]`, so that
a value says which version it belongs to; the code never looks at a value.

**FileStorage.** One action per store call. The stores are external and behave
as `interfaces.go` says: `AddFile` fails if there is a file, `SetStored` and
`RemoveMetadata` if there is no document. A failing call has no effect. The
history variables `removeCalled`, `storedFailed` and `raced` remember what the
callers did to an id, and `missed` what `Get` did not find; no guard reads them.
`Close` closes both stores whatever happens to the first. The contracts do not
say what a closed store answers, so nobody closes under a call.

**Attempt**, **AptInstall.** The clock advances between any two steps; `Next` is
two steps when it sleeps. `AptInstall` extends `Attempt` with the loop of
`GetInstall`; a command ends with success, exit status 100, another status, or
an error that is not an exit.

**Tailer.** First `SeekLastLines`, one step per block that it reads (its inner
loop over the lines of a block is the set `accepted`), then the goroutine of the
Tailer, one step per operation on the file or the writer; another process appends
in between. What the loop leaves in the writer's buffer when it ends with an error
is lost; without an error nothing is. `bufio.Reader` and `bufio.Writer` are external: the reader gets any
number of bytes that fits, the writer passes on any part of its buffer when that
overflows. `misplaced` remembers that one of the two `Seek`s failed whose error
the code ignores; the properties say nothing about a Tailer after that.

**AtomicFile**, **Register.** The disk maps names to inodes, and an inode has its
blocks and whether its permissions have been set; a caller's file descriptor
stays with the inode when the name is taken over. One action per filesystem
operation or block, each of which may fail, and a caller may die before each.
`Register` is the abstract specification of `AtomicWriteFile`; the mapping shows
the file at the path as its writer if it is whole and has its permissions, and as
a mixture otherwise, so that a step that publishes anything else is not a step of
`Register`. The sibling of `WriteYaml` has one name for all callers, as in the
code.

**Tree**, **FsCopy**, **Tar**, **Zip.** A tree maps paths to nodes with a type,
permissions and contents; `Tree` has what the kernel allows (`root` or not), and
`os.MkdirAll` and `os.RemoveAll`. Each tool takes one entry per step, in any order
where the code reads a directory, and one operation may fail. `FsCopy` creates
directories with the changed mode and sets it again at the end; `Tar` opens an
entry before it looks at it, writes to the archive and to the hash, and its
archive is then extracted by `UntarFiles`; `fileList` is the argument of `TarFiles`,
and `asked` what it asks for: what is listed and all that is below it. `Zip` makes the parents of an entry and
replaces what is in its way. An entry's name may begin with "..": the code joins it
to the target as it is, and so does `Joined`. `CopyInit`, `TarInit` and `ZipInit` admit any tree
(`IsTree`: only directories have entries, paths are sequences of names) with the
restrictions that their comments name; `MCTools` picks small ones among them.

**Limiter, JsonHttp, Metadata, Exec, HttpClient** are what their first comments
say. The history variables of `Metadata`, `named` and `accepted`, collect the
arguments of the calls that were not refused. `MCTools` is the sum of these and the tree tools: in each behaviour one of
them runs and the others stay in their initial states.

## Runs

| run | instance | shows |
|---|---|---|
| try | 2 functions, limit 1, 2 errors, a combineErrors that drops one | limit kept, each value owned by exactly one, `Close` waits, right result; `Kill` completes though no function returns, `Close` completes and every `Start` returns if the functions do |
| run_pool | 3 functions, 2 runners | implements `WorkPool`; `Do` and `Wait` return |
| fslock | 2 processes, one of which breaks locks, 1 fault, 1 crash, timeouts and `LockWithFunc` | mutual exclusion on disk and `Mutex` implemented until the first `BreakLock`; the recorded holder took the lock and thinks it has it, unless a failing read told it otherwise; timeouts end and a free lock is taken throughout |
| voyeur_watch | 2 watchers, 2 mutators, 3 calls | no lost wake-up, consistent values, no starvation |
| filestorage_concurrent | 2 clients, 2 ids, 2 faults | added files are found, also by a `Get` between whose two calls others run, failed ones hidden; every raw file without metadata comes from a failed `SetStored` or from overlapping calls |
| attempts | 64 strategies, negative fields included, 7 ticks, 5 attempts | the properties of `Attempt`, and of `GetInstall` retrying over it |
| tailer_tail | files of up to 5 bytes over two letters and the newline, buffers of 1 and 2 bytes, 1 fault | `SeekLastLines` against its reference `LastLines`; every accepted line copied once and whole; `Stop` and lines arrive |
| files | 3 calls of any of the five functions on the same paths, contents of 1 and 2 blocks, 2 failures or deaths | `AtomicWriteFile` implements `Register` and removes its temporary file; readers get whole files; a missing link is being replaced |
| tools | trees of up to 3 entries with every combination of types and five sets of permissions; archives of up to 2 entries, also with names that lead up from the target, over six trees; 3 users of a limiter of 0, 1 or 2; 1 request; 2 values of each field; 3 exit codes; 3 goroutines | the properties of the tools |

Five bytes give `Tailer` lines longer than every buffer, lines across blocks,
empty lines and unterminated ones; its filter has to see a whole line to decide.
Two functions for one slot are enough for `Try` to have one that runs and one
that waits for its slot, arrives late or is turned away, and three for `Run` to
have one more than runners. Three calls on the same path let two writers race
under a reader, and two blocks are enough to see a mixture. A directory in a
directory with an entry, and two entries side by side, have every relation of
parent, child and sibling that the tools distinguish. Two
processes meet in every pair of operations of `fslock`; more of them are covered
by the proofs. The bounds on calls, faults and crashes are named constants in the
guards of the actions they bound. `CHECK_DEADLOCK FALSE` appears where every
caller may simply be done (a bound on calls reached, a sequence of attempts
over).

The violation runs state what a comment says and the code does not do; each has
its finding, with the comment quoted, in `PROJECT.json`: `fslock_stolen`
(`Unlock` after a `BreakLock` moves somebody else's lock), `filestorage_orphan` (a
`Remove` overlaps an `Add` that has stored its document and not yet its file: in the
end there is a raw file without metadata, without any failure), `files_yaml` (two overlapping
`WriteYaml` publish a mixture).

### Other differences between comments and code

Noticed while modelling; they have no run of their own.

* `try.go:159`: "No more functions will be started if Start is called". Both
  selects of `Start` choose at random among ready cases, so a `Start` after `Close`
  may still take a slot and meet the loop.
* `try.go:189`: "If there were no errors or combineErrors returned nil,
  ErrStopped is returned". `loop` makes that so for a killed Try only: a closed
  one whose functions left no error ends with a nil value and a nil error.
* `parallel.go:49`: `Do` may block while fewer than the maximum number of
  functions run, when it found no parked runner and all runners exist.
* `fslock.go:165`: `LockWithTimeout` may succeed after its deadline: the deadline
  is looked at only after a failed attempt.
* `fslock.go:195`: an `Unlock` that cannot read the lock returns `ErrLockNotHeld`
  although the lock is held and stays.
* `fslock.go:218`: a `BreakLock` that meets another process's lock, or fails half
  way, may leave a lock directory without its held file: nobody holds it, nobody
  gets it, and only another `BreakLock` removes it.
* `value.go:110`: the loop of `Next` can go round more than the "maximum of two
  times" of its comment, since `Watcher.Close` of another watcher wakes it.
* `value.go:96`: `Next` returns true once on a closed value that has a version the
  watcher has not seen.
* `wrapper.go:88`: an `Add` whose `SetStored` fails removes the document and leaves
  the raw file.
* `trivial.go:29`: the sibling that a dead or failed `WriteYaml` has left is not
  truncated, so a shorter value written next keeps the tail of the longer one.
* `symlink.go:14`: "atomic replacement": there is no link between the removal and
  the rename, nor after a crash or a failing rename there.
* `copy.go:80`: the comment speaks of write permission, the bits 0500 are read and
  search: the copy of a directory that its owner cannot write to fails if it has
  entries. "We'll make the permissions match at the end" sets the changed mode.
* `file.go:82`: `CopyFile` does not close its destination.
* `jsonhttp.go:117`: "If it returns a nil value, the original error is returned as
  a JSON string" is not done. An error whose response cannot be marshalled, and an
  error after `Flush` on a writer that cannot flush, are answered 200 without a
  body.
* `http.go:63`: `GetNonValidatingHTTPClient` "returns a new http.Client": all calls
  after the first return the same one (`ClientShared`), as `TestInsecureClientCached`
  wants it. `http.go:56` says the same of `GetValidatingHTTPClient`, which returns
  `http.DefaultClient`.
* `zip.go:48`: files are extracted "into the (external, OS-specific) target path".
  `sourceRoot` and links are checked for leading out of it; the names of entries are
  not, and one that begins with ".." is written outside of `targetRoot` (`zip.go:88`).
* `limiter.go:22`: with a maximum of zero, `Release` succeeds if somebody waits,
  though nothing was acquired.
* `status.go:128`: the closure `Rename` returns keeps the first key it is given.
* `attempt.go:17`: `Min`, a "minimum number of retries", counts attempts.

### Fairness

Weak fairness of the steps of a goroutine or process that is in the middle of a
call: Go's scheduler runs a goroutine that can run, and the operating system a
process. Nothing is assumed to *call* a method. That the functions given to
`Try` and `Run` return is assumed only where a property is about it (the
hypothesis `FunctionsReturn` in `TryCompletes`; `LiveSpec` of `Run`). A select with several ready cases gets no strong fairness, with one
exception: the select of the Tailer comes just after its timer was set to a
second, so a dying tomb is ready before the timer (`SF` of `LoopDying`). `Stop` is
not heard during a poll: that it returns needs the file to stop growing for a
moment, which the bound on its length stands for. The clock advances (`Expire` in
FSLock, `Pass` in AptInstall). A crashed process has no enabled step, so fairness
asks nothing of it.

## Proofs

**TryProofs**, for any functions, limit, errors and `combineErrors`:

* `TryTypeCorrect`. The combined error has its type only because a function
  delivers after it has returned (`TypeInv`).
* `ValueOwnedHolds`, `ResultReportedHolds`. `FnInv` ties the goroutine of a
  function to its `Start` and to what became of its value, `LoopInv` what `loop()`
  returned to `endResult` and the tomb's reason at each stage of the goroutine
  around it. In particular the reason stays nil until that goroutine's `Kill`,
  so that a `Kill` of a caller cannot hide the result. Without a success or an
  error the result is `ErrStopped`, or nil and nil if the Try was closed.
* `CloseWaitsForAllHolds`. `CountInv`: before anything kills the Try, `nrunning`
  is the number of functions started and not heard of. After a kill it is not,
  since results are discarded without the loop.
* `ParallelBoundedHolds`. `SlotInv`: free slots plus the callers and goroutines
  that hold one never exceed the limit. It is an inequality because a `Start` that
  is turned away in its second select keeps its slot.

**FSLockProofs**, for any processes, faults and crashes:

* `TypeCorrect`: the type invariant.
* `HeldIsHolderHolds`, with any number of breakers: the recorded process took the
  lock and thinks it has it, or was misled by a failing read. Inductive with
  `Prepared`: a process about to rename has its own nonce in its temporary
  directory.
* `HolderOnDiskHolds`, `UnlockedOwnHolds`, until `BreakLock` is first called. The
  invariant `MutexInv` adds to these that whoever is about to rename in `Unlock`
  still holds the lock (`UnlockerHolds`, which is what `BreakLock` would destroy),
  and that the directory about to be renamed exists (`TempExists`).
* `MutexImplemented`: the refinement of `Mutex`, from `MutexInv`.

**RunProofs**, for any functions and any limit: `RunTypeCorrect`, and
`WorkPoolImplemented`, the refinement of `WorkPool`. `RunInv` has one part per
worry:

* `StartInv`, `CountInv`: a call of `Do` starts its runner once, so `r.running` is
  the number of runners, and the counter of `Wait` is the number of runners it has
  not heard from. That a function finds a place among the `Max` when it changes
  hands (`RoomForOne`) follows, since whoever takes it is not running anything.
* `QueueInv`: nobody is queued twice on the channel or queued without being parked,
  so that a function is handed over once.
* `TaskInv`: a function whose `Do` has returned has run or is with exactly one
  runner.
* `ErrInv`: the error of a failed function is with `Wait`, or with a runner that
  `Wait` still counts. With `CountInv` this gives that the last report completes
  the list.
* `ClosedInv`: no `Do` is in progress once `Wait` has closed the channel.

**ToolsProofs**, about `Attempt`, for every strategy, clock and number of attempts:
`AttemptInv` records what each return value of `Next` and `HasNext` says of
`force`, `count` and the clock; type correctness, `EnoughAttempts`,
`HasNextKept`, `StopsForGood` and `Spaced` follow from it. That `now + sleep`
never decreases while `last` stays is what makes a `false` final.
`AptUsesAttempt` shows that `GetInstall` is a client like any other, so that
these hold of it; `InstallReportedHolds` adds `InstallInv`, which relates the
number of attempts to the exit statuses seen.

**AtomicFileProofs**, for any callers, faults and deaths:

* The types come in parts that are proved one by one (`AtTyped`, `DataTyped`,
  `ProcTyped`, `FdOpen`).
* `TempRemovedHolds`, `RegisterImplemented`. `OwnNames` says that the temporary
  name of a caller leads to its own file or to none, `TempWritten` what that file
  holds at each stage of an AtomicWriteFile, `FileStored` that "file" leads only to
  what a call that has returned nil has written. So the rename is the one step that
  the abstract register sees.
* `LinkExplainedHolds`, from `LinkInv`: a Replace that has made its link still has
  it when it gets to the rename.
* `ReadsWholeHolds`. `ReadInv` follows the descriptor of a reader: it is on a file
  that was complete before it got its name, so what has been read is the beginning
  of one version. For WriteYaml this needs that nobody opened the `.preparing` file
  of another (`disturbed`): the run `files_yaml` shows what happens otherwise.

**FileStorageProofs**, for any clients, identifiers and faults: `TypeCorrect`;
`AddedIsFoundHolds` and `GetServedHolds` from `StorageInv`: an id that was not
generated has left no trace (`Fresh`), it is added once (`AddedOnce`), and between
two store calls of one method the file stays unless Remove is called (`FileThere`).
`OrphanExplainedHolds` needs the property at all times, not only when all calls
have returned, and what the calls that can lead to an orphan know (`OrphanInv`);
`RaceSeen` shows that the history variable `raced` misses no overlap.

**ToolsProofs**, about the small tools: `LimiterBounded` for every limit and any
users, `ErrorReported` for every handler, `InfoAgrees` for any sequence of calls,
`ExitReported` for any exit codes and output, `ClientShared` for any number of
goroutines: each is nearly inductive, and `LimiterInv`, `HttpInv`, `MetadataInv`,
`ExecInv` and `ClientInv` add the types and what the stages of a call know.

**ToolsProofs**, about `Voyeur`, for any watchers, mutators and calls: `VoyeurInv`
says that the value is the one of its version, that a watcher's value is the one of
its own version, that nothing is set while a watcher has the read lock, so that the
version it has copied is still the current one when it copies the value (`Guarded`),
and that whoever sleeps although there is something to report has a
broadcast coming; `NoLostWakeupHolds` and `CurrentIsVersionHolds` follow.

**TreeProofs** rests on lemmas about paths (`Within`, parents, common prefixes) and
about what `Put`, `MkdirAll` and `Removed` leave of a tree. That a directory can be
reached is a statement about all of its prefixes, so none of them needs an induction
over paths.

`CopyFaithfulHolds` is about `fs.Copy` of any tree into any tree. The recursion is
the stack, so `CopyInv` needs no induction over the tree:

* `StackInv`: the directories on the stack are the prefixes of one path of `src`,
  and what is left of one are entries of it; `OpenInv`: they have been made, with
  the umask.
* `CopiedInv`: an entry has been copied, or some prefix of its path is left on the
  stack. Entering a directory replaces that prefix by the one that is longer by one
  name (`Above`). When the stack is empty nothing is left, so all is copied.
* `LeftInv`: what is left has not been made by this copy; with `OpenInv` it
  gives `Explained`: an entry that cannot be copied is one that the property
  names, since the directories above it let the owner do at least what those of
  `src` let him.

`ZipExtractedHolds` is about `Extract` of an archive into a tree, with the
restrictions listed below. That every target is a path of the tree, also for a name
that leads up, is `JoinedPath` and `TargetPath`. `ZipInv` says of every moment what
the property says of the end:

* `EntriesInv`: the target stays a tree, whatever is replaced in it.
* `ExtractedInv`: until an error, an entry extracted so far is there, unless one of
  those after it *so far* has replaced it. It is the count of entries in this
  hypothesis that makes it inductive.
* `KeptInv`: what no selected entry has to replace is as it was, after an error too.
  The hard case is a `RemoveAll` that fails half way: what it has removed is below
  an entry's target. If the entry is a directory, it is removed only where something
  else than a directory is in its place, and that has nothing below it.
* `NewInv`: what is new is a target or a directory above one.

`TarRoundTripHolds` is about `TarFiles` of any list of files of a tree, all below
the stripped prefix, and `UntarFiles` of the result. `TarInv` has a part for each
stage:

* `SourceInv`, `ArchiveInv`: the sum is that of the archive, which has an entry of
  the source at each place and the trailer at the end. All names lose the same
  prefix, so that two entries have the same name only if they are the same file;
  hence what `FindFile` finds under a name is that file's.
* `AskedInv`: what is asked for has been archived, or it or a directory above it is
  left on the stack, and nothing else is archived or left. When the stack is empty
  the archive holds exactly what was asked for.
* `WalkInv`: what a directory holds comes after it in the archive or is still on the
  stack. When the walk is over, an entry whose name is there once has its directory
  before it, if that is listed at all.
* `UntarInv`: what has been extracted is there and is not lost to a later entry: a
  second entry of the same name is the same file, and a directory that exists is
  left alone.
* `PlainInv`: if nothing hinders the extraction (`hinders`), everything in the target
  came from the archive and its directories let their owner create entries, so the
  next entry can be extracted.

**TailerProofs**, for any file, buffer sizes, filter, lines asked for and faults:

* `SeeksRight`: `SeekLastLines` stops at the start of the last `n` lines that the
  filter accepts. `SeekInv`: either no delimiter has been seen yet, or the buffer
  holds the bytes from `offset` to the first delimiter `d` after it, and `found` is
  the number of accepted lines that start at `d` or later. `BlockAccepted` and
  `BlockCount` relate the lines of a block to those of the file: a line that crosses
  a block's start is counted with the block in which it begins.
* `TailsOnce`: what has been passed on, with what the writer holds, is the sequence
  of accepted lines up to the start of the line being read (`TailInv`, `Reading`).
  What is read ahead and what is set aside of an unterminated line is the file from
  there on, so neither growth nor a step back loses or repeats a line. Between two
  polls, and after a loop that ended without an error, the writer's buffer is empty.

What these say of sequences that grow would take induction over them. `Tailer`
therefore defines accepted lines by sets of positions (the nth position of a set is
the one with n - 1 below it), and where an induction is left it is over naturals, by
a least counterexample (`LeastExists`, from `WFMin` of `WellFoundedInduction`).

The assumptions are the `ASSUME`s of the component modules: the bounds are
naturals, the marker values are not processes, functions or goroutines, strategies
have integer fields, the umask leaves the owner's permissions, the target of
`Extract` is not the root of the tree, the empty id is not an id. The initial conditions of the tree tools
restrict what they are called for: no link of the source of `tar` leads over more
than two links or through another link, there are no special files in it, and it is
extracted into an empty directory. In the tree that `zip` extracts to no link leads
to a directory, a link of the archive leads out of the target or to a name that
nothing has, and a name begins with fewer ".."s than the target's path has parts:
the tree has to hold what it leads to (`IsEntry`).

Every invariant used in a proof was first checked by TLC on the instance of the
component's run. What is model-checked only:

* Liveness: `TryCompletes`, `LocksProgress`, both `CallsReturn`, `InstallEnds`,
  `StopReturns`, `LinesArrive`. Fairness is out of the prover's reach.
* The types of `Voyeur`. That `Vals[version]` exists takes counting the calls of
  `Set` in progress; `VoyeurInv` does without.

## Plan

Every component with control of its own is modelled, and every safety property of
the runs is proved. When the code changes, the order of work is: the module, its
run, the invariant of the proof as an invariant of the run, the proof. What would
add most to what is here:

1. A `zip` target in which a link leads to a directory, which `Tree` does not follow.
2. Liveness proofs, for a prover that has fairness.
3. A contract for the errors that the Tailer's `Seek` and step back ignore
   (`tailer.go:204`), after which `misplaced` could go.

## Not modelled

* `set`: every method is the set operation it is named for.
* `debugstatus`: `Check` runs its checkers one after the other; the rest formats.
* `registry`, `timeit`, `hash`, `featureflag`, `proxy`: a map, a stack, a writer,
  variables, each filled and read by one goroutine.
* `keyvalues`, `size`, the proxy functions of `apt`, quoting and gzip in
  `trivial.go`: parsing and formatting without state.
* `UniqueDirectory` looks for a name and creates nothing.
* What the code leaves to its callers: a file that is truncated while it is tailed
  (`tailer.go:97`), `Wait` called twice or `Do` after it (`parallel.go:72`), `Run` or
  `Wait` of a `RunParams` while a `Wait` of it is blocked (`exec.go:141`), a wall
  clock that is set back (`attempt.go:45`).
* Passwords, UUIDs, platform and Windows code, generated `z*.go` files, logging and
  message texts.
