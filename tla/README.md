# Senbit in TLA+

Senbit is a small Linux distribution written in Rust: an init process that
installs the system or starts it, a console login that also serves the power
commands, a few native commands, and the tools that build the images. This
directory holds TLA+ models of it, the TLC configurations that check them and
TLAPS proofs about them. File names below are relative to the repository.

## 1. The system

### Components

| Component | State it keeps | Operations | Hard because | What makes it correct |
|---|---|---|---|---|
| **senbit-init, start-up** `src/main.rs`, `src/filesystem`, `src/kernel` | none of its own: the disks and the marker `etc/senbit-release` are its memory | mount the pseudo file systems, probe every partition, start or install, panic screen, reboot | crash anywhere; a decision from one file; no other process to help PID 1 | one installation at most, never lost, PID 1 always gets somewhere |
| **installer** `src/installation` | the answers given so far; tables, file systems and files on the disks; the page cache | 16 steps with prompts, mkfs, copies, GRUB; every error ends in a panic and a reboot | cancel, error or power cut at each step; multi-step disk changes; checks that come late | nothing is erased unasked; what is reported done is whole and bootable |
| **start of the installed system** `src/system` | mount tree, keymap, network configuration | mount, check fstab and version, network, switch_root, exec systemd | depends on everything the installer wrote, possibly partly | a completed installation lacks nothing; every failure reaches the panic screen |
| **log writer of senbit-init** `src/system/log` | `system.log` and five older generations in `/var/log/senbit`, one in `/run/log` | append, rotate at 10 MiB | power cut between renames | order kept, the newest generations kept |
| **power events of senbit-login** `components/senbit-login` (`events.rs`, `power.rs`) | the socket, its path, one connection at a time | bind, accept, read, clean up, systemctl, answer | clients that hang or leave; the process dying with its login thread; systemd stopping it | ok means queued; nobody waits for ever; the service comes back |
| **console login of senbit-login** (`login.rs`, `accounts.rs`, `session.rs`, `shell.rs`, `console.rs`) | terminal settings; the account picked | menu, password, session, delay after a failure | accounts change between menu and check; echo off when it dies | the shell belongs to an account that was verified; echo always returns |
| **power commands** `tools/cmdtool/.../{reboot,halt,poweroff,shutdown}` | a delay | connect, write a word, read the answer; `-f` calls reboot(2) | the service may be away, or dying because of the request | the exit status tells what happens |
| **sudo** `tools/cmdtool/.../sudo` | `/run/sudo/<uid>` | check, ask, update, invalidate, run | the wall clock jumps; two runs at once | a timestamp is honoured for five minutes and no longer |
| **log command** `tools/cmdtool/.../log` | offsets of followed files | show, follow, clear, rotate, stats | files cleared, rotated or growing under it | follow shows what is appended; a rotation drops no newer generation than `--keep` says |
| **build of the images** `devtool/src/build`, `devtool/src/cache.rs` | `build/.state/cache.json`, the outputs of each part, BusyBox's `.config`, the archive, the ISO | update and patch sources, compare fingerprints, compile, record, assemble, publish | a developer who edits meanwhile; steps that fail or are interrupted; an output, its record and its configuration written at different moments | what is skipped and what is shipped is current |
| **rest of the build side** `devtool` (get, install, run_vm), `tools/cmdtool/src/main.rs`, `tools/grub`, `tools/fonts`, `tools/keymaps`, `scripts` | downloaded sources | fetch, build, run QEMU | network | one-shot commands |

### How they interact

The kernel starts senbit-init from the initramfs, of the ISO or of the disk.
senbit-init either runs the installer, which copies the running system to a
partition and then reboots, or mounts the installed root and execs systemd.
systemd starts senbit-login on the console; the shells it starts run the
commands. The power commands talk to senbit-login over `/run/senbit.sock`, and
senbit-login asks systemd for the transition. Between two boots the only thing
passed on is what is on the disks: whatever of the page cache was not written is
gone after a power cut, and also after the reboot(2) of the panic screen.

## 2. Modules

| Module | What it models |
|---|---|
| `InitState` | the variables senbit-init's phases share: the disks, the page cache of the mounted root, where PID 1 is, the panic screen; what a reset leaves |
| `Installer` (extends `InitState`) | `install_system()`, one action per step, and the ways a step fails |
| `SystemStart` (extends `InitState`) | `start_system()`, one action per step |
| `Machine` (extends `Installer`, `SystemStart`) | firmware, `main()`, the panic screen, systemd's shutdown, power cuts; the properties |
| `SystemLife` | the abstract promise: one installation, never lost, and only one that exists is started |
| `MCMachine` | instances of `Machine` |
| `MachineProofs`, `MachineLifeProofs` | theorems about `Machine` |
| `PowerEvents` | the power commands, senbit-login's event thread, systemd's restarts and transitions |
| `MCPowerEvents` | instances of `PowerEvents` |
| `PowerService` | the abstract promise of the power commands: orders that are never taken back, answers that are true and final |
| `PowerEventsProofs` | theorems about `PowerEvents` |
| `LogStore` | `system.log` and its generations: senbit-init's writer and rotation, the log command's rotate and clear |
| `MCLogStore` | instances of `LogStore` |
| `LogHistory` | the abstract promise of the log: one history, in chapters that grow at the end and go as a whole |
| `LogStoreProofs` | theorems about `LogStore` |
| `ConsoleState` | what accounts, login and sudo share: the account files, owners and modes, the terminal's echo, sudo's timestamps, the clock; what a restart leaves |
| `Users` (extends `ConsoleState`) | `setup_users()` and the three passes of `set_sys_perms()` |
| `Login` (extends `ConsoleState`) | `login::run()` and the restarts of its unit |
| `Sudo` (extends `ConsoleState`) | `sudo`, `sudo -v`, `sudo -k`, one action per system call that another process can come before |
| `Console` (extends `Users`, `Login`, `Sudo`) | the three together, with root editing accounts, a clock that is set, and power cycles; the properties |
| `MCConsole`, `ConsoleProofs` | instances of and theorems about `Console` |
| `Build` | `devtool build`: cache, parts, images, and the developer |
| `MCBuild`, `BuildProofs` | instances of and theorems about `Build` |

### Machine: state and code

* `pc` is where PID 1 is in `main()`, `install_system()` or `start_system()`; one
  value per step the code can fail or be stopped at. `Panic` is the chain of
  `?` and `kpanic!()` that every error takes.
* `table`, `fs`, `flag`, `files`, `netconf`, `loader` are on the disks. A disk has
  two partition slots, which is what both automatic layouts create. Files are
  groups, as fine as what looks at them: "applets" (sh, ip, ifup), "systemd" (the
  executable), "fstab" (the path) and "mounts" (what is in it), "release" (the
  marker) and "version" (what is in it), "users", "settings", "interfaces", "boot", "perms", and
  "system" for the rest of the root file system, which nothing tests before systemd
  runs; "data" is what another system had there. `start_system()` tests exactly what
  the code does: `HasFstab` is one path, `HasSystemd` one executable, `NetworkReady` the
  applets. `netconf` is the stanza, the one file whose contents matter in detail.
* `dirty` is the part of the root that is only in the page cache. `Reset` keeps
  any part of it that `Survivors` allows; `Unmount` and systemd's shutdown keep
  all of it.
* `device`, `root`, `esp` are the answers and results inside `install_system()`.
* `consent` and `completed` are history: what the user agreed to lose in this
  installation, and the roots for which `install_system()` returned Ok (until
  the user agrees to erase them again).
* `ProbeMayMiss` lets `detect_installation()` pass over a partition that cannot be
  mounted at that moment (`filesystem/disk.rs:24`).

Wiping the partition table does not wipe the partitions: `CreatePartitions` lets
a new partition that starts where an old one did keep what the old one held,
until it is formatted. Without this the hazard that a stale marker comes back
would not exist in the model.

### PowerEvents: state and code

* `client[c]` is a command from its start to its exit; it can hang anywhere and be
  interrupted. `word[c]` is what it writes; "junk" is what `parse_action()` refuses.
  The four commands have the same `send_event()`; the map names shutdown's.
* `backlog`, `current`, `phase`, `outcome` are the listener's queue and the locals of
  `serve()`, `handle_client()` and `power::request()`.
* `path` is `/run/senbit.sock`: `cleanup_runtime()` removes it while the listener
  stays, and a process that dies leaves it behind.
* `jobs` are the transitions systemd has queued, `service` the state of the unit.
  systemd is external: of its answer the code sees systemctl's exit status
  (`power.rs:66-78`). The build masks logind and has no D-Bus
  (`devtool/src/build/systemd.rs:42-52`), so nothing keeps a second, different
  transition out: `StopServices` queues it beside the first, both commands may
  be told ok, and the machine does one of them. A systemctl that fails may have
  queued it all the same.
* `ForceDown` is `-f`: reboot(2) at once, past the socket, systemd and the delay that
  was asked for ("shutdown -f +5" does not wait). It ends whatever was going on.

### LogStore: state and code

* A line is its number, a file the set of its lines: `lines[0]` is `system.log`,
  `lines[g]` is `system.log.g`, `exists` says which of them there are. Sizes are
  counted in lines.
* `stage` separates the two users of the files: senbit-init writes between
  `init_logs()` and the exec of systemd, the log command runs in the session after
  it. senbit-login writes to `/dev/kmsg` and not here.
* `writer` and `index` are where `LogWriter::write()` is, one action per system call
  of `rotate_if_needed()`. `step`, `at` and `keep` are the same for each `log rotate`,
  with `exists()` and what follows it as two steps. `crossed` is
  history: the rotations that have run beside another one.
* `Restart` cuts both anywhere and may lose the newest lines, wherever they are;
  renames reach the medium in order, as a journal has them.

### Console: state and code

* `stage` is the installer's progress from the root account to the last pass, then
  "running"; "unfinished" is a root whose passes a power cut has ended and
  that the live medium starts all the same (see `half_installed`).
* `owner` and `mode` are those of the files that the passes treat differently: the
  root directory, `/home`, the homes, passwd, shadow, BusyBox and sudo. A path is
  the sequence of its names, since `chown_recursive()` looks at each of them.
* `phase`, `menu`, `picked` are the locals of `login::run()`. `menu` keeps (uid, home,
  shell) as they were read, and only the hash is read again.
* `echo` is the ECHO flag of the console. The login and every sudo save what they
  find and restore it; `spoilt` remembers a prompt that was killed, could not be
  written, or overlapped another, until the terminal is reset.
* `sudo[s]` is one process, `stamp[u]` is `/run/sudo/<uid>`: `there`, `private` (root's and
  0600), `full` (not the empty file between truncation and write), `now`. `age` is
  history: how long ago in real time it was read from the clock, -1 once the
  clock has been set back.
* `earned` and `revoked` are history: who has given root's password since boot, and
  who has taken it back with `sudo -k` and not given it since.

Two pairs of system calls are one step: the clock is read and the file opened;
chown and chmod. A shell exits only when none of its sudos is between two of the
short steps. Removing an entry of passwd stands for a shell like nologin. A user's own
stty is left out.

### Build: state and code

* A part's sources are a version (`head`) and a local change (`edit`); its output is
  what it was made from, or `Half` when a step was cut. `Fingerprint(c)` is what the
  code of that part looks at, no more: git's commit and whether there are changes
  for kernel and BusyBox, the status of the whole repository for senbit, the files
  for the login, the pinned version for the others.
* `disk` is `cache.json`, `entries` what devtool has read of it; `fp` and `hash` are the
  fingerprint and the hash it holds from the check to the record.
* `stage` and `at` are where the build is: sources, check, (BusyBox: prepare,) compile,
  record, (record config,) then the root file system and the ISO.
* `dotconfig` is BusyBox's `.config`, which outlives the build that copied it.
* The developer may `Edit`, `Checkout`, `EditConfig` at any moment, BusyBox may publish
  a `Release`. `Stop` is any `?`, a failing command, or a kill.
* `mixed`, `leftover` and `steady` are history: parts whose output is not the one their
  fingerprint stands for (see "What the properties leave out"); a BusyBox `.config` that no
  record speaks of; the parts this build has checked and nobody has edited since.

One devtool runs at a time. A compilation reads the sources at one moment. The
version file moves with the checkout of a pinned part (when it does not, the
check fails, which is a `Stop`). The repository's own commits do not move the
submodules it names. Only Parted has a patch, as in `third_party/patches`.

## 3. What is checked

| Run | Question | Bounds |
|---|---|---|
| `one_disk` | one installation (`OneInstallation`), never lost (`InstallationKept`), bootable once completed (`CompletedStaysBootable`), kept from starting by a static stanza or a second interface only (`CompletedFailsOnNetworkOnly`), systemd started only on a root that has what `start_system()` looked at (`StartedIsUsable`), as abstract as `SystemLife` (`ImplementsLife`) | one disk, four earlier layouts, both firmwares, one interface, two modes, three boots, countdown 1, one group split off by a reset |
| `two_disks` | no erasure without consent (`NoUnconsentedErase`), completed is whole (`CompletedIsWhole`) and starts (`CompletedBoots`), with probes that miss | two interchangeable disks, two layouts, two boots, one interface, DHCP |
| `pid1_settles` | PID 1 gets somewhere (`PanicEnds`, `BootSettles`) and never goes round (`EveryBootEnds`) | one disk, two boots, countdown 2 |
| `half_installed` | does only a completed installation start? No | one disk, two boots |
| `second_nic` | does a completed installation boot? Not with two interfaces | one disk, two interfaces, two boots |
| `power_events` | `OkMeansQueued`, `OnlyWhatWasAsked`, no connection dropped or overtaken (`NobodyIsForgotten`, `AnswerComesCloser`), as abstract as `PowerService` (`ImplementsService`), `EveryRequestEnds`, `ServiceComesBack` | two commands, any words, one crash of the service |
| `power_socket` | does the thread serve until the process exits? Not after a failed systemctl | one command |
| `power_answer` | does the command get its answer before the service is stopped? Not always | one command |
| `log_store` | `Ordered`, `Bounded`, `KeepsTheNewest`, as abstract as `LogHistory` (`ImplementsHistory`) | two generations of senbit-init, two lines per file, six lines, two `log rotate` that may overlap and keep one, two or three |
| `console` | accounts (`InstalledPermissions`, `HomesKeepTheirOwner`, `CreatedMayLogIn`), sudo (`RootOnlyAfterPassword`, `FiveMinutes`, `RevokedStaysRevoked`), login (`LockTakesEffect`, `EchoReturns`, `ConsoleComesBack`) | one user with three kinds of home and two shells, two sudos, timeout 1, clock to 2, one edit, one crash or power cycle |
| `build` | `SkippedIsCurrent`, `ShippedIsCurrent` | BusyBox, Parted, senbit and the tools: one part of each kind; two versions, one local change, two configurations; two changes by the developer, one interruption; any number of builds |
| `build_stale` | is BusyBox made anew from another configuration? Not when a build failed in between | BusyBox, a developer who waits for the end of each build |

Why the bounds are enough. Three boots are an installation that is cut short, a
second attempt and a start. Two slots are what a layout has; the second disk
adds a root away from the selected disk and a marker elsewhere. `MaxSplit` = 1
lets a reset, or a copy that is cut, lose or keep any single group out of order
(`FewApart`), which is enough to part the marker from its contents; 0 means all or nothing. `Countdown` is 5 in
the code and only its end matters. With a timeout of 1 and a clock to 2 a
timestamp is fresh, expires at exactly the timeout, is past it, and lies in the
future. Two sudos overlap; a third adds nobody to overlap with. Two changes are a
version left and come back to; one interruption falls in every step. Two commands are enough to have one served,
one waiting behind it and two different transitions asked for. `MaxBoots`,
`MaxSplit` and `MaxCrashes` only bound the exploration: the theorems hold for
every value. Six lines of two per file fill two generations and the log; with
`--keep` 1, 2 and 3 against two generations, a limit is smaller than, equal to and larger
than senbit-init's, as the shipped 3 is smaller than its 5. In `build` one
interruption is checked by the run; two were checked once (20 million states) and
show nothing more.

What the properties leave out, since there the code does otherwise:

* `StartedIsUsable` says nothing of the group "system", of fstab's contents, of the
  accounts, settings, boot files and last permissions: a root that is partly copied
  or partly flushed gets to systemd without them.
* `OkMeansQueued` is not "the machine does it": of two different transitions that were
  both told ok, the machine does one.
* `KeepsTheNewest` allows a rotation the lines of its own last generation, so the shipped
  `--keep` 3 may delete generation 3 and leave 4 and 5, a hole in the history that
  `LogHistory` allows too (a chapter goes as a whole). It is not said of a `log rotate` that ran
  beside another one: nothing serialises them, and one can rename an almost empty
  log over the generation the other has just made. `Ordered`, `Bounded` and
  `ImplementsHistory` hold for those too.
* `SkippedIsCurrent` and `ShippedIsCurrent` leave out what `Doubtful` names, three causes
  and no other, after which sources that come back to what is on record are skipped
  with another output in place: (1) a step was stopped after it had replaced the
  output and before the record (`cache.rs:41`; `busybox.rs:419-423` claims
  otherwise); (2) the sources were edited between the check and the compilation;
  (3) BusyBox was compiled with a `.config` left behind (`build_stale`, or half copied). The first
  two are `mixed`, and the next undisturbed compilation of the part clears it; the third is
  `leftover`, which a reset clears. When any one of them is not
  left out, TLC finds a counterexample. `ShippedIsCurrent` also leaves out parts edited after their check
  and an ISO made of a cut archive (`Half`), which the code publishes.
* `NoUnconsentedErase` is about partitions: that `install_uefi()` (`uefi.rs:278-300`) writes
  GRUB over the ESP's EFI/BOOT/BOOTX64.EFI, another system's perhaps, is not seen.
* `CreatedMayLogIn` excepts a user whose home is `/`, which the installer makes 0700 and
  the ownership pass gives to root: nobody but root can start a shell then.
* `FiveMinutes` measures from the last clock reading that was not followed by a step
  back (set back, the clock makes an old timestamp serve again); `RevokedStaysRevoked`
  grants a sudo past its check when `-k` comes; `EchoReturns` speaks of prompts that do
  not overlap and are not killed.

`CHECK_DEADLOCK FALSE` stands in the runs of `PowerEvents` only, where the machine
ends powered off.

Fairness. `Machine` has weak fairness on `main()`, `start_system()` and the
countdown, which need no input; none on the installer, which waits for the user,
on the power supply or on the firmware. `PowerEvents` has weak fairness on the
event thread (its reads time out after five seconds), on the start of the
service (`Restart=always`, `StartLimitIntervalSec=0`) and on systemd carrying out
what it has queued; none on the commands. `Console` has weak fairness on systemd's
stop and start of the unit and on the steps of the login that wait for nobody
(menu drawn, shell started or not, delay over); none on the user. `Build` has no
liveness: a compilation may fail for ever.

### Where the code and its documents differ

* `half_installed`: `detect_installation()` asks for a file that the installer writes
  early. An installation cut short after it is started at every later boot,
  live medium or not, and panics or, cut after the network step, runs on what is
  there; only erasing the partition by hand brings
  the installer back. `docs/SYSTEMD.md` describes live media as leading to the
  installer. `SystemLife` states what does hold: a cut-short installation is final; and
  `StartedIsUsable` what it can lack when it gets to systemd.
* `second_nic`: the installer configures one interface, the boot wants all. The
  same happens with a static interface, whose stanza has no address (the
  README announces static networking as planned).
* `power_socket`, `power_answer`: see the comments quoted in `PowerEvents`.
* `build_stale`: `reset_if_config_changed()` compares with the configuration of the
  last build that succeeded, its comment with the one last used. Configuration x is
  built; y is tried and make fails, with y's `.config` in place; back at x nothing
  is removed, since x is on record: y's configuration is compiled, recorded as x
  and skipped from then on.
* Not in a run. `cache.rs:39` has `is_fresh()` true for the last successful build;
  a newer version that was compiled over its output and interrupted before the
  record is then shipped as the old one, when the sources come back (`mixed`).
  `perms.rs:446` says that BusyBox is deliberately not made SUID, but bin/su and
  bin/ping are links to it, and `is_file()` and chmod follow links.
  `user.rs:117` gives the home to the user; the ownership pass then takes every home
  outside a directory called home back to root, and a home of "/" leaves the root
  directory 0700. sudo's `main.rs:363` says "Always restore terminal echo", but an
  error of the flush before it, a kill, or two prompts that overlap leave it off.
  `log rotate --keep` (README: "Number of rotated generations to keep") looks at the
  generations 1 to `--keep`, 3 by default, while senbit-init makes five: those
  above stay, and since the one at `--keep` is deleted, the history gets a hole.
  No behaviour is involved in these: `shutdown -c` is listed as
  cancelling a scheduled shutdown and only prints a line; the README speaks of
  MBR on BIOS while `create_legacy_partitions()` labels the disk gpt;
  `docs/SYSTEMD.md` has the answer before systemctl, the code after it; the login
  reads `/etc/default/locale`, the installer writes `/etc/locale.conf`.

## 4. What is proved

For any disks, interfaces, modes, earlier layouts, bounds, commands and crashes.

`MachineProofs`. `TypeCorrect`: `TypeOK` is inductive only with `Chosen`, which says
what the answers given so far are at each step (a root from the formatting on,
a disk while it is partitioned). `CompletedWhole`: a completed root keeps all its
files. This is inductive with `Progress`, which says, for each step of the
installer, which groups are in the page cache or on the medium by then; so at
`Unmount` all of them are.

`MachineLifeProofs`. `EraseNeedsConsent` rests on `Consented`: from the question on, what
the next steps can erase is in `consent`. The other theorems assume
`~ProbeMayMiss`, as their statements say; with a probe that misses they are false, since a
second installation can be started. Their invariant is `LifeInv`: while the
installer runs no partition has the marker on its medium (`Fresh`), what is only
in the page cache belongs to an installation on a machine without a marker
(`Volatile`), a start concerns a marked root (`Started`), and `OneInstallation`.
`InstallationIsKept` and `MachineImplementsLife` follow step by step.
`CompletedBootable` adds `LoaderInv` (past the GRUB step, and for a completed root,
some disk's GRUB reads the root). `NetworkIsTheOnlyGap` needs no such assumption and
adds `StanzaInv`: past the network step and for a completed root there is a stanza, and
by its type it names an interface of the machine (`StanzaStays`: only two steps of the
installer touch it). What is left for `NetworkReady` to miss is a static stanza or another
interface. `OneInterfaceBoots` draws the conclusion: with one interface and DHCP,
`CompletedBoots` holds, and `second_nic` shows that it does not without.

`SystemdHasItsRoot` is the other side of `half_installed`: an installation that was cut
short is started, but `start_system()` lets it through to systemd only with the applets,
the executable, an fstab, the version and every interface configured, whatever else is
missing.
`Checked` says what has been seen by each step, and that a boot that has not been through
the installer has nothing in the page cache, so what was seen is on the medium.

`BootsAreFinite` proves `EveryBootEnds` for any countdown: `Remaining`, the number of steps
ahead, the seconds of the panic screen included, falls with every step of senbit-init
from whatever state. It is the provable half of `PanicEnds` and `BootSettles`; the other
half is that a step is always possible, which is ENABLED and stays with TLC.

`PowerEventsProofs`. `PowerTypeCorrect`, `OkIsReliable` and `NothingUnasked` come from one
invariant: `Serving` says what `handle_client()` knows at each of its steps,
above all that an outcome "ok" in the answer phase means that systemd has queued
what the served command asked for; no queued job is taken back. It also says that
nothing is served on a machine that is off, so that a forced end stays visible.

`ConnectionsAreKept` adds `Queue`: a command has an open connection exactly when the thread
serves it or it is in the backlog, where it is once; this needs `Serving`, since a path
that is live must belong to a process that runs. `NobodyIsOvertaken` turns that into a
place for each command (`Situated`) and shows that `Distance` falls: a step of the thread either
brings the served command on or takes the first of the backlog, which moves everybody
up; crashes and hang-ups answer everyone at once. With fairness of the thread this
is why `EveryRequestEnds` holds. `PowerImplementsService` maps each action: queueing is
`Accept` or nothing, an answer `Agree` or `Refuse`, every end of the service `Fail`,
systemd's stop `Obey`, and all else is hidden (`Hidden`).

`LogStoreProofs`. `LogTypeCorrect`, `GenerationsOrdered` and `LogBounded` hold for any
`--keep` and any number of `log rotate` processes, overlapping ones included. They
rest on `Past`: a missing file holds nothing, what the files hold was logged
before what is being written, and when a line is appended the log has room for
it; `RenameUp` is the one fact about rename(2) that all rotations share.
`NewestAreKept` is `KeepsTheNewest` and `LogImplementsHistory` the refinement, for any `--keep`,
any `ROTATED_LOGS` and any number of rotations. The first rests on `Room`: the number a rotation
renames to next is free, since its loop goes down from its last generation and what it
has passed moved up; senbit-init and the command never meet, and of two commands
that do, `crossed` remembers both. The second maps each step: a rename moves a chapter or
overwrites one, which goes as a whole; an append adds the newest line; `log clear` is
the loss of a chapter, a power cut that of the newest lines.

`ConsoleProofs`. For any users, homes, passwords, timeout, clock and number of sudos.
`ConsoleTypes` needs `LoginInv`: what is picked at each phase, and that the numbers the
installer allocates are 0 and 1000. `PermissionsAreInstalled` and
`HomesStayTheirUsers` come from `PermsInv`, which says which passes are done at each
stage, above all that no path the later passes touch is a home. `CreatedUsersMayLogIn` comes from
`Enrolled`: before the first edit every account has a usable hash, root is there from its
step on, and only a home of `/` closes the root directory. `PasswordComesFirst`,
`TimestampsExpire` and `RevocationHolds` come from `StampInv`: whoever is past the
check has earned it or has seen a timestamp that somebody earned; an age grows
with the difference to the clock unless the clock went back; no timestamp and no
linked writer is left of a user who revoked. `TerminalEchoes` rests on `EchoKept`: while
a prompt is open, the echo it has saved is on. `LocksTakeEffect` is a step property.

`BuildProofs`. For any parts, versions, configurations and bounds. `SkipsAreSound` rests
on `CacheInv`: while a build runs, `entries` is what is on disk (`Reading`); BusyBox's two
records will agree (`Chosen`); `.config` is the recorded one or that of the build under way
unless it was left behind (`Configured`); an output that is there and not `mixed` is one its
record stands for (`Sound`, with `Matches`), and one just made is one of the fingerprint
held (`Made`). A fresh part thus matches the fingerprint of the sources, which is to show
them. The three causes of `Doubtful` were found with it: without them no strengthening
is inductive.
`ImagesAreCurrent` adds `ShipInv`: every part checked and not edited since is up to date
once it is built (`Uptodate`), and at the ISO the archive is that of the outputs
(`Packed`), since the root file system comes after every part and right before it.

Assumptions on constants: the sentinels are no disks, partitions or stanzas
(`SentinelAssumption`, `ClientAssumption`), layouts are well formed
(`LayoutAssumption`), bounds are naturals (`BoundAssumption`, `CrashAssumption`),
a file holds at least one line and generations and `--keep` are positive
(`SizeAssumption`, `SlotAssumption`), `ProbeMayMiss` is a Boolean
(`ProbeAssumption`), passwords are not the words for a locked or missing one, no home
is one of the system's files and root is not a normal name (`PasswordAssumption`,
`HomeAssumption`, `NameAssumption`, with `AnswerAssumption`, `TimeAssumption`), and parts
are parts (`PartsAssumption`, `FilesAssumption`).

Every invariant, action property and refinement that a passing run checks is proved.
Only model-checked: the liveness properties (`PanicEnds`, `BootSettles`,
`EveryRequestEnds`, `ServiceComesBack`, `ConsoleComesBack`), since liveness under fairness
needs ENABLED, which is out of the prover's reach. For the first three the part that
needs no fairness is proved, that every step leads closer (`BootsAreFinite`,
`NobodyIsOvertaken`). The five violations are TLC's alone.

## 5. What is not modelled, and why

* The contents of files other than the network stanza, and prompts' validation.
* What fdisk can do beyond deleting, creating, flagging and relabelling.
* A root of an installed system that its own user changes later (packages, hand
  edits): `systemd` runs and shuts down cleanly, or loses power.
* A probe whose unmount fails, and file systems damaged by hardware.
* reboot(2) failing, in which case PID 1 exits.
* A PID 1 other than systemd. What the page cache holds when `-f` turns the machine
  off: `Machine` and `LogStore` have that as a power cut.
* The components marked so in `PROJECT.json`; the plan follows.

## 6. Plan

Done: 1. `InitState`, `Installer`, `SystemStart`, `Machine`, `SystemLife` with their
proofs. 2. `PowerEvents` with its proofs. 3. `LogStore` with its proofs. 4. `Users`,
`Login`, `Sudo`, `Console` with their proofs. 5. `Build` with its proofs.

Next, in this order:

* In `LogStore`: `log follow`, with a process that appends to the log during a session.
* In `PowerEvents`: the delay of `shutdown` with its arithmetic modulo 2^64.
* In `Build`: a second devtool on the same cache file, which nothing locks.
* Proofs: that every step of the login and of systemd brings the console closer to a menu,
  as `BootsAreFinite` does for the boot.
