# Lunaris Core: a verification project

Lunaris Core is a System-V-like userland for Linux: some two hundred commands, a
curses library, games, an init and a handful of services, most of them imported
from BSD and adapted. The repository holds no tests; its documentation is the manual pages
and the comments. This directory models, checks and proves the parts of
it whose correctness depends on *order*: clocks, signals, processes, files shared between
programs.

Paths below are relative to the repository, whose sources live in its directory `src/`.

## 1. Inventory

| part | state it keeps | operations | what is hard |
|------|----------------|------------|--------------|
| `src/usr.sbin/cron`: `cron.c`, `job.c` | three minute clocks, job queue | sleep, wake, classify the clock change, queue and run jobs | the clock jumps; the daemon wakes late; restarts |
| `src/usr.sbin/cron`: `database.c`, `user.c` | the loaded crontabs and their modification times | reload, keep, free | files change while they are being loaded; one-second time stamps |
| `src/usr.sbin/cron`: `crontab.c` | temporary file, the user's crontab | install, delete, list, edit | signals between two steps, concurrent editors, every call can fail |
| `src/usr.sbin/cron`: `do_command.c`, `popen.c` | a tree of processes and pipes per job | fork, feed, read output, mail, wait | who holds which pipe end; who waits for whom |
| `src/usr.sbin/cron`: `misc.c` (`acquire_daemonlock`) | the pid file and its lock | lock, rewrite, close in children, remove | start and stop of several daemons |
| `src/usr.sbin/cron`: `entry.c`, `env.c` | the bit fields of an entry | parse a crontab line | ranges, steps, names, `*` flags, Sunday as 0 and 7 |
| `src/usr.bin/at` (`at.c`, `atrun.c`) | spool of job files named after their time | create, scan, run | the scan cannot work on Linux (section 6) |
| `src/sbin/init/daemon.c` | supervised command, pid file, logger, watched directory | take the pid file, wait for a path, start, restart, pass signals on, stop | signals against fork and wait; files that appear while they are looked for |
| `src/sbin/init`: `syslog.c`, `uevent.c`, ... | a descriptor | read, write, end | nothing between two messages |
| `src/usr.bin/tftp`: `tftp.c`, `tftpsubs.c` | block number, two buffers, retransmission count | send, receive, retransmit, read ahead, write behind | lost, duplicated and late packets; an alarm between any two steps; two servers for one request |
| `src/usr.bin/timeout` | the child, four signal flags, one timer | wait, kill, kill again | signals between fork and sigsuspend; its own signal comes back to it |
| `src/usr.bin/make` | job table, token pool | start, reap, abort | parallel jobs |
| `src/usr.bin/ex` | edit buffer in a block cache and a temporary file | read, change, preserve, recover | crash between two writes |
| `src/usr.bin/telnet` | option state per peer | negotiate | negotiation loops |
| shells, text tools, curses, games, `ls`, `cp`, `pax`, ... | none shared | sequential | imported; sequential programs over their input |

### How the parts of cron interact

`main()` in `cron.c` sleeps to the next minute (`cron_sleep()`), compares the clock with its
*virtual time*, selects entries of the database (`find_jobs()`), queues them (`job_add()`), forks a
process for each (`job_runqueue()`, `do_command()`), serves SIGHUP and SIGCHLD, and reloads the
database (`load_database()`). `crontab(1)` never talks to the daemon: it replaces files in the spool
directory and touches the directory; time stamps are the only message. Starts of cron exclude each
other with `flock()` on the pid file. A job is a tree of processes joined by pipes, with the mailer
at its end.

### What makes each part correct

| part | properties |
|------|-----------|
| scheduling loop | each fixed-time job exactly once per minute of virtual time; wildcard jobs never left out; virtual time catches up |
| waiting | the loop never spins, wakes in the first second of the minute, forgets no dead child |
| database | its early return never hides a change; the last change is what ends up loaded |
| `crontab(1)` | the spool holds only whole, valid crontabs, but for I/O errors the code does not notice; an edit is never dropped |
| jobs | every child is waited for, all output is mailed, nobody waits for ever; command and input are split as documented |
| daemon lock | a daemon at work holds its lock; a dead daemon's lock is free; one daemon |
| crontab lines | a field stands for the numbers it names; an entry runs in the minutes the manual says, and in no other |
| `daemon(8)` | no start before the whole path is there; never two commands; no tight loop of restarts; SIGTERM ends it; the pid file is there while it works, unless a child failed before its `exec` |
| `timeout(1)` | the right status; the second signal not too early; the command is dead in the end |
| `tftp` | a put that ends well has left the whole file; a retransmission has the right data; what is written is a beginning of the file |

## 2. Modules

The order is the order of importance: the scheduling loop first, then what it depends on.

| module | models | extends / composes |
|--------|--------|--------------------|
| `CronPromise` | the abstract specification: a clock that visits minutes one at a time and deals with each job due | |
| `CronClock` | `cron.c` `main()`, `find_jobs()`, `set_time()`, `job.c`, in minutes | shown to implement `CronPromise` |
| `CronClockProofs` | proofs about `CronClock`, and about the two scales together | `MCCronTime`, instance of `CronSleepProofs` |
| `CronSleep` | `cron_sleep()`, the loop around it, signal handlers, reaper, in seconds | |
| `CronSleepProofs` | proofs | `CronSleep` |
| `Crontab` | `crontab.c`: install, delete, edit by several processes | |
| `CronDatabase` | `load_database()`, `process_crontab()` | |
| `CronSpool` | `Crontab`, `CronDatabase` and the administrator over one spool | `Crontab`, instance of `CronDatabase` |
| `CronSpoolProofs` | proofs about `crontab(1)` alone and with the daemon | `CronSpool` |
| `CronField` | `get_list()`, `get_range()`, `get_number()`, `set_element()` on one field | |
| `CronEntry` | `load_entry()` over the memory of an entry, and the test in `find_jobs()` | |
| `CronLock` | `acquire_daemonlock()`, the fork in `main()`, `quit()` | |
| `CronLockProofs` | proofs | `CronLock` |
| `CronInput` | the split of a command at `%` and the translation of its input | |
| `CronJob` | `child_process()` with its processes and pipes, `cron_popen()`, `cron_pclose()` | |
| `InitDaemon` | `sbin/init/daemon.c` `main()`, `await()`, `handler()`, the pid file | |
| `Timeout` | `timeout.c` `main()` from `fork()` on, `sig_handler()`, `set_interval()` | |
| `TimeoutProofs` | proofs | `Timeout` |
| `Tftp` | `sendfile()`, `recvfile()`, `timer()`, `readit()`, `read_ahead()`, `writeit()`, `write_behind()` | |
| `TftpProofs` | proofs | `Tftp` |
| `MCCronClock`, `MCTftp` | the constants TLC needs | the module they name |
| `MCCronTime` | the two scales of time in `main()`, one at a time | `MCCronClock`, instance of `CronSleep` |
| `MCCrontabLine` | the three readers of a crontab line, one at a time, and the texts they read | instances of `CronField`, `CronEntry`, `CronInput` |
| `MCCommands` | the three programs that run a command for somebody, one at a time | `InitDaemon`, instances of `Timeout`, `CronJob` |
| `CrontabLineProofs` | proofs about the three readers | `MCCrontabLine` |
| `CommandsProofs` | proofs about `InitDaemon` and `CronJob`; the theorems about the three programs, for `MCCommands` | `MCCommands`, instance of `TimeoutProofs` |

### State and actions against the code

**CronClock.** `clockTime`, `timeRunning`, `virtualTime` are `main()`'s variables of these names, in
minutes; `queue` is the list from `jhead` to `jtail` with, for each entry, the minute it was queued
for; `pc` is the place in the loop, with a point wherever the loop reads the clock again or another
process could see a difference. `WakeUp` is the inner do-while; `wakeupKind` the chain of
conditions; `Normal`, `Small`/`SmallStep`, `Medium`/`MediumStep`, `Negative`, `Large` the cases,
one step per turn of the catch-up loops; `RunQueue` the final `job_runqueue()`. The environment
ticks (`Tick`), sets the clock (`SetClock`) and kills the daemon (`Crash`; `Start` is `main()` up to
the loop, `run_reboot_jobs()` included). `runs`, `lost`, `first`, `awake` are history: how often a job
was started or dropped, from which minute on cron is answerable, and whether it has been awake.
When virtual time is moved back (a jump of more than three hours, or a restart in an earlier minute)
the counts start afresh: the code runs those jobs again on purpose.

**CronSleep.** One step per statement of `cron_sleep()` that a signal or the clock can come between.
`sleep()` is three steps: a signal just before it does not shorten it, one during it does.

**Crontab, CronDatabase, CronSpool.** A text is a version number with its time stamp and the bits
`whole` and `valid`. One step per system call another process can observe; every error return and
the signal handler `die()` are actions. `WriteTemp` copies and checks: an I/O error there is noticed by
nobody, since `rewind()` clears the indicator just before `ferror()` asks for it and a failed read looks
like the end of the file, so that the temporary file may be cut short (`whole` false) and the check may
find in it whatever it likes. `Flaky` are the processes this can happen to, and the history bit `lost`
says that it has happened. `load_database()` looks at the directory, at `/etc/crontab`
and at each file in separate steps. Two operations carry the same time stamp only if `SameSecond`.

**CronField, CronEntry.** A field is a sequence of tokens (number, name, star, comma, dash, slash,
junk), its numbers of any size: `atoi` takes them modulo the range of an `int`, into which the code
looks for the field's limits only afterwards. The reference next to it reads the same text by the
grammar and shares no step with the parser. `CronEntry` keeps the bits of all five fields in one
memory laid out as in `structs.h`, since `bit_nclear()` and `bit_nset()` are called with one bit too
many.

**CronLock.** `path` is the file the name stands for, `text` and `lock` belong to files and survive
`unlink()`; `fd` says what each process has open. A lock belongs to the open file and is gone with
the last copy of its descriptor (`Close`).

**CronJob.** M is the job's process, C the command, F the feeder, S the mailer, B what the command
leaves in the background; `rd` and `wr` say who holds which end of which pipe, so that end of file
and a broken pipe follow from who closed what.

**InitDaemon.** `restart`, `killed` and `pid` are the members of `command`; the signal handler is an
action (`Hangup`, `Terminate`) that may come between any two steps of the loop, so that `fork()` and
the assignment to `command.pid` are two steps, and so are `wait()` and the test behind it. `kids`
numbers the processes forked; a signal that reaches one before its `exec` runs our own handler there
and does nothing. The logger's process is forked at `logger_start` and fails (`LoggerFails`) or not
(`LoggerExec`) while the supervisor goes on. `await()` calls itself for the parent directory: `level`
is the name it is at. A watch on a directory reports the names that appear in it; one `read()`
returns all events and only the first is looked at; `inotify_rm_watch()` leaves an event without a
name (`"ignored"`). `ExecFails` and `LoggerFails` remove the pid file, since a child that could not
execute leaves through `err()`, and so `exit()`, with the `atexit()` function of its parent; `broken`
remembers it. `quiet`, `told`, `late`, `termed`, `broken` are history.

**Timeout.** `flags` are `sig_chld`, `sig_alrm`, `sig_term`, `sig_ign`; before `sigprocmask()` a signal
runs its handler at once (`Raise`), afterwards it is pending and `sigsuspend()` delivers one
(`Suspend`). `setpgid()` returns 0, and so `killpg()` reaches timeout itself. `since` and `hasty` record
the distance between the first signal to the command and the second.

**Tftp.** One transfer. `io` is the state of `tftpsubs.c`: two buffers, `current`, `nextone`,
`newline`, `prevchar`. A packet keeps its block number modulo `Word`, while `block` is an `int` and
is not reduced. `timer` is the handler with its `longjmp()`: it may come when `recvfrom()` has
returned and `alarm(0)` has not been called. On Linux `setjmp()` does not save the signal mask, so
that `timer` leaves SIGALRM blocked (`masked`), in this transfer and in those after it, one of which
a transfer may start as. The server is not in the repository and is modelled from how the client uses
it (`"external"` in the map); every request it hears starts a process of its own.

**MCCrontabLine, MCCommands, MCCronTime.** Each puts several programs, which share no state, or the
two scales of one, into one run: a variable (`reader`, `program`, `scale`) says which one is looked
at, and the others stay in an initial state.

## 3. Runs

| run | result | what it shows |
|-----|--------|---------------|
| `clock` | pass | in minutes, two arbitrary clock changes among the ticks: `FixedJobsOnce`, `WildcardJobsServed`, `VirtualTimeSteps`; in seconds, signals and clock changes between any two steps of the wait: `NoZombieForgotten`, `NoBusyWait`, `WakesOnTime` |
| `clock_live` | pass | the same with a crash and failing `malloc()` and `fork()`: `ImplementsPromise`, `CatchesUp` |
| `spool` | pass | two `crontab` processes, one of them with unnoticed I/O errors, administrator, daemon: `SpoolAlwaysValid`, `EditNeverDropped`, `EarlyReturnSound`, `EventuallyLoaded` |
| `spool_second` | violation of `EarlyReturnSound` | an installation in the second of the daemon's `stat()` is missed for good |
| `lines` | pass | `FieldRight` over every field text within the bounds, `RunsWhenMeant` over every combination of field forms, `CommandSplit` over every command text of six characters |
| `entry_option` | violation of `CommandWhole` | `-q` eats the first character of the command |
| `lock` | pass | `DaemonHoldsLock`, `LockGivenUp` with signals to every process |
| `lock_two` | violation of `AtMostOneDaemon` | `quit()` unlinks the pid file under a start that has it open: two daemons |
| `tftp` | pass | put and get, binary and netascii, over a network that loses, delays and reorders, with a server that repeats itself and is started twice: `SentWhole`, `BlockStable`, `WrittenRight` |
| `tftp_timeout` | violation of `TotalTimeout` | after its first alarm `tftp` hears no other: if the server falls silent the transfer never ends |
| `commands` | pass | `daemon(8)`: `AwaitSound`, `OneCommand`, `AtMostOneMore`, `PidFileHeld`, `RestartsSpaced`, `TermHeeded`, `AwaitEnds`; `timeout(1)`: `StatusRight`, `GraceOfTimer`, `TimesOut`; cron's job: `AllChildrenReaped`, `OutputMailed`, `JobEnds` |
| `timeout_kill` | violation of `GraceKept` | after a SIGTERM from outside SIGKILL follows at once, whatever `-k` says |

Each passing run also checks a type invariant (`AllTypeOK` for the three programs of `commands`,
`TypeOK` and `SleepTypeOK` for the two scales of `clock`), except `clock_live`, which has that of
`clock`, and `lock`, for which types are part of the theorem `LockInvariant`.

### Bounds, and why they are enough

- `SmallMax` and `LargeMin` (5 and 180 minutes in the code) are scaled to 2 and 3 or 4: the cases of
  `main()` depend only on the order of the difference and the two limits, and each interval keeps a
  member. `Horizon` exceeds `LargeMin` so that a large change fits both ways. The theorems hold for
  every value. Two clock changes are needed for one to come while another is being caught up with.
- `CronSleep` (`clock`) scales the minute to 4 seconds and the limit of 65 to 7; as in the code the limit
  exceeds a minute and the one second added, with room for a clock set back a little; the
  clock has 11 seconds, nearly three minutes, so that it can be set back by more than the limit.
- `CronSpool`: two `crontab` processes race for one user. An installation takes three stamps, and one
  more if the directory is touched: seven let two installations overlap or follow each other, or one
  be followed by an edit of `/etc/crontab` and a deletion, with the daemon's load in between. One process
  is in `Flaky`, so that every case is also met with only one of the two touched by I/O errors; the
  theorem has any set.
- `lines`, `CronField`: every text of four tokens and every list of two ranges with steps; numbers include
  0, both ends' neighbours and one next to `IntMax` (99 for `INT_MAX`) so that a step overflows, and two
  (`Wide`) that no `int` holds: one wraps to a value in the field, one to -1.
- `lines`, `CronEntry`: the real field limits and memory layout. `CronInput`: every text of six
  characters of each kind the code tells apart.
- `CronJob`: a pipe of capacity one blocks its writer after each unit, which is the case that can
  deadlock; a larger pipe only blocks later.
- `CronLock`: two starts and two files; in `lock_two` three starts, which the violation needs.
- `InitDaemon` (`commands`): `Grace` of 1 for 5 seconds, since only `<` and `>=` matter; three starts,
  so that a start follows one that followed a signal; two signals, so that one can come on each side
  of `fork()`; paths of none, one and two names, two equal names among them, and one other file
  that appears in the directory watched. The theorems hold for every value.
- `Timeout` (`commands`): durations 0 (no timer) and 1, one signal from outside, one stop. In
  `timeout_kill` the durations are 0 and 2, so that there is time between the two signals.
- `Tftp`: `SEGSIZE` 2 and `Word` 3, so that the longer file has, in netascii, as many blocks as there
  are block numbers, and a newline that is cut in two by a block's end; two tries; two server processes
  and three packets under way, so that an old packet, or one of the other process, can overtake; three
  places in the client's socket, so that `synchnet()` finds packets to throw away. `MaxResend` bounds the
  states only: nothing that is checked there depends on how often a server repeats itself, and the
  theorems hold for every value. `tftp_timeout` needs one server and no repetition.

### Fairness

- `CronClock` (`LiveSpec`): the daemon's own steps and the ticking of the clock. Nothing in the
  daemon's loop waits for anything but the clock. The clock is not set to or from the last minute
  of the horizon, so that a minute follows every change, as one always does.
- `CronSpool`: the daemon calls `load_database()` in every turn of its loop. Nothing is assumed of
  the users.
- `CronLock`: a forked parent exits, and a forked job closes its descriptor; no call between can block.
- `CronJob`: every process runs when it can, and the user's command ends once its input does, as
  do the processes it leaves behind; the mailer reads. A command that never ends keeps its job, in
  the code as in the model. Nothing is assumed of output, of redirection or of failures.

- `InitDaemon`: the daemon's own steps. Nothing is assumed of the command but that it dies of SIGTERM.
- `Timeout`: the steps of `main()` and of the timer it set. Nothing is assumed of the command, which
  may ignore every signal that can be ignored.
- `Tftp` (`FairSpec`, only in `tftp_timeout`): the client's steps and the alarm it set, if it is not
  blocked. Nothing is assumed of network and server.

`CHECK_DEADLOCK FALSE` stands where the system may stop: a parsed line, a finished job, transfer or
command, a cron that is stopped and not started again.

## 4. Proofs

Every invariant that a run checks is also proved, for every value of the constants. TLC came first: each
inductive invariant below was checked on the small instance of its run before it was proved.

**`CronClockProofs`**, for every set of entries, `Due`, limits and horizon, from `ClockConstants`
(wildcard and `@reboot` entries are entries, `@reboot` is due in no minute, `0 < SmallMax < LargeMin`):

- `TypeCorrect`, `FixedJobsOnceCorrect`, `VirtualTimeStepsCorrect`, `ImplementsPromiseCorrect`.
- The inductive invariant is `LoopInv`: types, an empty queue outside the catch-up loops and the
  final `job_runqueue()`, and a minute still to go inside a catch-up loop. Without the first part
  `job_add()` could refuse a job because its entry is still queued for an earlier minute; without the
  second a loop could run past the clock. The lemma `Accounting` reduces every step to one of four
  effects on virtual time and on what has been handled (keep, advance, resynchronise, restart), and
  the three properties follow from these four, not from the fourteen actions.
- `EachScaleImplemented`: the specification of the run `clock` implements `CronClock` and
  `CronSleep`. With it `AllSleepTypes`, `AllZombiesNoted`, `AllNoBusyWait` and `AllWakesOnTime` state
  for it what `CronSleepProofs` proves of the wait.
- `WildcardJobsServedCorrect`, from `WildInv`: the property speaks of the end of a turn, the invariant
  says from which place in the turn on it is so.

**`CronSleepProofs`**, for every length of a minute, every limit, horizon and number of jobs and
clock changes, from `CronSleepConstants`, which each theorem assumes and TLC evaluates in
`MCCronTime` (the limit is more than a minute and a second, as the 65 of the code is; the horizon
holds a minute):

- `SleepTypeCorrect`, `NoZombieForgottenCorrect`, `NoBusyWaitCorrect`, `WakesOnTimeCorrect`.
- In `SleepInv`, `Reckoning` is the equation that `cron_sleep()` lives by: what remains to be waited is
  the distance of `t1` from the second to wake at, however the clock was set meanwhile. `Punctual` adds
  the seconds lost outside `sleep()`, and `Decided` that no signal and no tick comes between the test
  of the loop and the call behind it that could undo the test.

**`CronSpoolProofs`**, for any number of users, processes, texts and time stamps, from `CrontabConstants`
and `SpoolConstants` (the name of `/etc/crontab` is no user's):

- `CrontabTypeCorrect`, and `SpoolAlwaysValidCorrect` from `InstallInv`: between the check of a temporary
  file and its `rename()` nobody else writes it. Any of the processes may have I/O errors (`Flaky`); what
  they cut short without a word is marked `lost` and excepted by name, and all else in the spool is whole
  and has passed the check.
- `EditNeverDroppedCorrect` and `EarlyReturnSoundCorrect` under the hypothesis that no two operations
  carry the same stamp (`SameSecond = FALSE`); run `spool_second` shows that without it a change is
  missed. `StampInv`: every text anywhere was stamped in the past and its stamp tells it from all
  others (`Stamped`), in an edit an equal stamp means an unchanged copy (`Editing`), and what was
  loaded differs from the disk only where a stamp newer than the database's says so (`Faithful`).

**`CronLockProofs`**, for any number of starts, files and signals, from `CronLockConstants`:

- `DaemonHoldsLockCorrect`, from the inductive invariant `LockInv`: a process past `flock()` has its
  start's locked file open, parent, daemon and job take turns, and a daemon at work has its pid in
  the file it holds. The turns are needed to see that no other process of the same start writes its
  pid over the daemon's; `CloseKeeps` is the fact that a lock goes only with the last descriptor.
- `OneDaemonCorrect` and `PidFileCorrect` under the assumption that no process is sent SIGINT or
  SIGTERM (`Signalled = {}`): then the name keeps standing for one file (`OneFile`). Run `lock_two`
  shows that without the assumption the statement is false.

**`TimeoutProofs`**, for any durations and any number of signals and stops, from `TimeoutConstants`:

- `TimeoutInvariant`. Its types come in three parts, one for each kind of value. `Progress`, which
  `StatusRight` needs: nothing is pending before the timer is set, and a status is looked at only if
  `wait()` gave one. `Alone`, which `GraceOfTimer` needs: if no signal comes from outside, the alarm is
  running, pending or noticed and only one of these, and after the first signal to the command the time
  passed and the time left make up the second duration.

**`CrontabLineProofs`**, for fields, lines and commands of any length and any bounds of a field, from
`LineConstants` (the assumptions of `CronField` and `CronEntry`: a field lies below `INT_MAX`, texts are
made of the tokens the modules name, the numbers of a date are those of its field; the numbers in a
text are not bounded):

- `LineTypeCorrect`, `FieldRightCorrect`, `RunsWhenMeantCorrect`, `CommandSplitCorrect`, from
  `LineInvariant`. `LineInv` has a part for each reader, since only one is looked at and the others
  stay alone.
- `FieldInv`, for `get_list()`. `PiecesRead`: the bits set so far are the numbers of the ranges
  between the commas passed, and the next token is one behind a comma. A turn of the loop adds
  exactly one pair of neighbouring commas (`OnePieceMore`), `RangeRead` says what `get_range()` does
  with what stands between them, and `Multiples` that counting up in steps reaches the numbers the
  step names. What a number wraps to is part of `get_range()`, and so of the type correctness of
  every text; that the bits are those the text names is stated of texts whose numbers an `int` holds,
  for which `atoi` is the identity.
- `EntryInv`, for `load_entry()`. `FieldsRead`, `StarsRead` and `SpecialRead` say which bits and flags the
  fields already read have left. `get_list()` clears one bit too many, and for the hours that bit is the
  first of the days of the month. It does no harm because all that is cleared or set for a field lies
  behind the bits of the fields read before it (`BitsApart`, from the places of the five bit strings in
  `Layout`): the order of the fields in the line and in the structure is part of the argument.
- `InputInv`, for `child_process()`. The loop that splits the command writes into the buffer it
  reads; the one that translates the input reads what the first has left behind. `SplitRead` and
  `FeedRead` say that what was written is the text read so far without the backslashes that escape a
  percent sign, and that the rest of the buffer is still the text. "Without" is stated with a
  function that counts the characters kept upwards (`Counts`): a step extends it by one element or
  changes its last, and the lemma `CountsRank` shows that the reference definition counts the same
  way. `need_newline` is part of the invariant only for input without `\\`, as in the property
  itself: a second backslash is written without setting it.
- Where an argument needs induction over a text, it takes a least counterexample instead: `Least` and
  `Greatest` follow from `NatLessThanWellFounded` and `WFMin`, which have no operator as a parameter.

**`CommandsProofs`**, for every set of paths, every `Grace`, any number of starts, signals and other
files, pipes of any capacity and any amount of input and output, from `InitDaemonConstants` (a path
is a sequence of names; there is at least one start) and `CommandsConstants` (the assumptions of
`Timeout` and `CronJob`):

- About `InitDaemon`: `DaemonTypeCorrect`, `AwaitSoundCorrect`, `OneCommandCorrect`,
  `AtMostOneMoreCorrect`, `PidFileHeldCorrect`, `RestartsSpacedCorrect`.
- The inductive invariant (`DaemonInvariant`) has a part for each of them. `Family`: the processes are
  numbered without a gap and only the last may be alive, and only until `wait()` has returned it; this
  is what `OneCommand` needs, and also what keeps `command.pid` within its type. `Arriving`: an unread
  event with a name of the path stands for a name that is there; without it a `Read` of the last
  name's event says nothing about the disk. It needs the names to differ, and `EventAppended` is the
  step that uses this. `Stopping`: after SIGTERM `command.restart` is 0, and a start after it is
  behind the last test. `Signalled`: `killed` is not left over from an earlier command. `File`: where
  the pid file stands from the lock on, for a supervisor none of whose children, logger or command, has
  failed before its `exec`. Each part is inductive with `TypeOK`, and `TypeOK` with
  `Family` and `Arriving`.
- About `CronJob`: `JobTypeCorrect`, `AllChildrenReapedCorrect` and `OutputMailedCorrect`, from
  `JobInvariant`. `Counted` is what `children` is at each point of `child_process()`; `Awaited`, that
  in the last loop it is not below the number of children still to come, in whatever order they die;
  `Conserved`, that what the command wrote was passed on, or is the character just read, or is in the
  pipe. `Bystanders` is the lemma that the other processes leave all three alone.
- About `MCCommands`: `EachProgramImplemented`, that the specification of the run implements those of the
  three programs, since a step of one leaves the variables of the others alone. With it
  `AllTypeCorrect`, `AllStatusRight`, `AllGraceOfTimer`, `AllReaped`, `AllMailed` and `AllDaemon` state
  for the run's own specification what is proved about each program.

**`TftpProofs`**, for every file, block size, range of block numbers, number of tries, of server processes
and of packets, and every network that loses, delays and reorders, from `TftpConstants` (files are
sequences of characters; sizes and limits are not 0):

- `TftpTypeCorrect`, `TftpSentWholeCorrect`, `TftpBlockStableCorrect`, `TftpWrittenRightCorrect`, in octet
  and in netascii mode.
- The inductive invariant is `TransferInv`. `Reading`: of the two buffers the current one holds the
  block under way and the other the next, or the news that it could not be read; in particular
  `read_ahead()` finds no free buffer before `readit()` frees one, which is why a retransmission is
  right. `Writing`: at most one block is received and not written. `Putting` and `Getting`: no server
  is ahead of the client, what a server has is what travels up to its block, and a packet is about a
  block that was really sent or received. This is what makes an old acknowledgement harmless, also
  one from the other of two processes that serve the same request. `Putting` holds only as long as
  the block fits into the packet (`block < Word`): behind that the server takes block 65536 for block
  0. It is enough, since then no answer has the client's number any more and the client cannot report
  success. Nor does it hold, or `Reading`, once a read has failed in netascii mode (`Cut`): there
  `getc()`'s error counts as the end of the file, and what is sent from then on is not the file. The
  properties leave that case out for the same reason.
- Blocks are cut out of what travels (`task.wire`), not of the file. `Place(k)` is where the first *k*
  characters of the file end on the wire: *k*, and one more for each that takes two places. `ReadTo` and
  `WroteTo` say what `newline` and `prevchar` must be when a block's end cuts such a character in two:
  the reader still owes its second half, and the writer has written a `cr` that the next character may
  overwrite. Without them neither loop could go on in the next block.
- The loops of `read_ahead()` and `write_behind()` are recursive functions in the model. That the
  reader's makes the next block of the wire (`LoopReads`), that the writer's undoes it
  (`LoopWrites`), and that the reference `Netascii` puts each character at its place (`Flattened`) is
  shown by induction over the turns. The library's induction theorems take an operator, which the
  provers cannot instantiate; `Induction` states the same for a set of numbers, from the least
  element of its complement, and the steps apply it to the set of the turns for which the claim
  holds.
- The lemmas `SegmentRead` and `Blocks` say that blocks taken one after the other make up what travels and
  that a short one is the last: block *n* and the first *n* blocks are both subsequences of it.

Only model-checked:

- Liveness (`CatchesUp`, `EventuallyLoaded`, `LockGivenUp`, `TermHeeded`, `AwaitEnds`, `TimesOut`,
  `JobEnds`), which is out of the prover's reach.

## 5. Differences between code and documentation

Five have runs (section 3) and are findings in `PROJECT.json`. The others were met while modelling;
paths without a directory are in `src/usr.sbin/cron`.

| code | what it does | what is said of it |
|------|--------------|--------------------|
| `cron.c:224` | a catch-up loop cut short by a tick is resumed as a small difference, which runs wildcard jobs again | `cron.c:202` "run wildcard jobs once" |
| `crontab.c:465` | an edit saved in the second of the installed crontab's stamp is dropped | `crontab.1:85` "the modified crontab will be installed automatically" |
| `database.c:68` | only the larger stamp is compared: a removed `/etc/crontab` can go unnoticed | `cron.8:52` on the modification times |
| `entry.c:433` | text behind a range is skipped up to a blank: `*5` parses as `*` | `entry.c:412` `list = range {"," range}` |
| `crontab.c:563` | `rewind()` clears the error indicator that the next line asks for, and a failed read counts as the end of the file: a write or read error is not noticed, and what there is of the crontab is checked and installed. `SpoolAlwaysValid` excepts such texts | `crontab.c:566` "error while writing new crontab to %s" |
| `entry.c:547` | `atoi()` takes a number modulo 2^32: `4294967297` is accepted as 1 | `crontab.5:94` "allowed values" |
| `entry.c:483` | ranges and lists of names are accepted; `FieldRight` does not ask for it | `crontab.5:129` "Ranges or lists of names are not allowed" |
| `entry.c:582` | month 0 is refused | `crontab.5:104` "month 0-12" |
| `entry.c:197` | a day field `*/2` counts as unrestricted, so that both day fields have to match: the entry runs less often than the manual says. `RunsWhenMeant` takes the manual's rule and excepts these days | `crontab.5:143` "If both fields are restricted (ie, aren't *), the command will be run when either field matches"; `cron.c:302` |
| `entry.c:185` | `0 */2` is scheduled as a wildcard | `cron.8:67` "granularity greater than one hour" |
| `misc.c:315` | a refused start prints an uninitialized pid if the file is empty | `misc.c:312` "otherpid unknown" |
| `do_command.c:339` | an input that ends in a backslash gets no newline; two backslashes before `%` still escape it | `do_command.c:296`, `318` |
| `do_command.c:447` | if `safe_p()` refuses MAILTO the unopened stream is written to | `do_command.c:440` "only write to mail pipe if we ARE mailing" |
| `sbin/init/daemon.c:116` | one `read()` may return several events, and only the first is compared: a name that appears together with another file is waited for until it appears again | `daemon.c:114` "Otherwise, wait for a matching create/move-into event." |
| `sbin/init/daemon.c:119` | of a path `a/a` the unread event of the first name is taken for the second | `daemon.c:93` "Now wait for the correct leaf name to arrive in our working dir." |
| `sbin/init/daemon.c:222`, `438` | a logger or command that fails before its `exec` leaves through `err()`, and so `exit()`, which removes the supervisor's pid file | `daemon.c:373` "Don't delete pidfile in atexit() handler." |
| `sbin/init/daemon.c:428` | `command.pid` is unsigned: after a failed `fork()` it is all ones until `err()` ends, and a signal then goes to every process; between `wait()` and the next `fork()` it names a process that is gone | `daemon.c:135` "to our child process" |
| `usr.bin/timeout/timeout.c:331` | a second signal from outside sets the timer to 0, which cancels the kill of `-k` | `timeout.1:73` |
| `usr.bin/timeout/timeout.c:305` | if the command is only stopped, `wait()` blocks with SIGALRM blocked: the limit does not count | |
| `usr.bin/timeout/timeout.c:293` | a command that ends before `sigprocmask()` sets `sig_chld` without waking `sigsuspend()`: with a duration of 0 timeout waits for ever | |
| `usr.bin/timeout/timeout.c:345` | the last `wait()` takes any child for the command | |
| `usr.bin/tftp/tftp.c:117`, `218`, `440` | `setjmp()` does not save the signal mask on Linux and the handler leaves by `longjmp()`: the first alarm is the last (run `tftp_timeout`) | `tftp.1:148` "Set the total transmission timeout, in seconds." |
| `usr.bin/tftp/tftp.c:129`, `230` | every packet that is not the one waited for starts the alarm anew, and only an alarm that goes off is counted: even with alarms the total is that of silence, not of the transfer | `tftp.1:148` |
| `usr.bin/tftp/tftp.c:154`, `255` | the block number of a packet has 16 bits, the counter has not: no transfer gets past block 65535 | |
| `usr.bin/tftp/tftpsubs.c:152` | in netascii a read error counts as the end of the file | |

The model does what the code does: the properties are stated so that they hold in spite of these, and
say so in their comments.

## 6. Not modelled

- `env.c`, `pw_dup.c`, logging, permissions and user ids of cron: sequential code over one process's
  own memory, or single system calls.
- `list_cmd()` and `parse_args()` of `crontab(1)`, the option parsing of `daemon(8)` and `timeout(1)`,
  the command interpreter, tracing and statistics of `tftp`: they change nothing others see.
- Of cron, outside the models' data: the `int` products of minutes and seconds, which overflow in 2038
  (`cron.c:362`); the unchecked `pipe()` (`do_command.c:97`); `load_user()` without memory, which leaves
  a user without jobs until the next change (`database.c:248`); the question of `crontab -e` that is
  asked without end at end of file (`crontab.c:479`). Of two editors the last one wins (`crontab.c:376`).
- `at` and `atrun`: `atrun.c:92` calls `read()` on the spool directory and takes what it gets for old
  directory entries. Linux refuses this with `EISDIR`, so that on the system this repository is for no job
  is ever found; a model of the scan would be of code that cannot run.
- `syslog.c`, `uevent.c`, `stop.c`, `pivot.c`, `seal.c` of `sbin/init`: they read or write one descriptor
  in a loop and keep nothing between two messages.
- The rest of Lunaris, which is nearly all of it: of some 616,000 lines of C the four shells, `make`,
  `ex`, `yacc`, curses, the games and the file and text utilities are imported, sequential programs
  over their own input, whose correctness is what they compute. The map therefore covers less than
  one line in a hundred, and a project in TLA+ will not cover much more: what can go wrong by order,
  failure or timing sits in the few thousand lines of the daemons and of the commands that run
  others, and these are modelled.

## 7. Plan

1. Models: preserve and recover of `ex`; job slots of `make`; option negotiation of `telnet`.
2. Proofs: of what the runs check only liveness is left, which stays with TLC.
