-------------------------------- MODULE Build --------------------------------
(***************************************************************************)
(* devtool build: each part is compiled unless the build cache says that   *)
(* its sources are those of the last build; then the root file system is   *)
(* assembled, archived and put on the ISO.  Between two steps the user may *)
(* edit the sources, BusyBox may publish a release, and a step may fail or *)
(* be interrupted.                                                         *)
(***************************************************************************)
EXTENDS Naturals

CONSTANTS
  Parts,     \* the parts built, a subset of AllParts
  Heads,     \* versions of the sources: commits, tags
  Edits,     \* local changes
  Patch,     \* the local change third_party/patches makes
  Configs,   \* contents of config/busybox.config
  Asked,     \* what the user asks devtool to build, a subset of Targets
  Head1, Config1,  \* what there is at first
  None, Torn, Half,  \* no file; a half-written JSON file; a half-written file
  Patient,   \* does the user leave the sources alone while devtool runs?
  MaxEdits, MaxStops  \* bounds: changes of the user, interrupted steps

\* The steps of build::run() for Target::All.  The tools are compiled every time.
Order == <<"kernel", "busybox", "util-linux", "parted", "systemd",
           "rust", "login", "tools", "rootfs", "iso">>
Before == UNION {{<<Order[i], Order[j]>> : j \in (i + 1)..10} : i \in 1..10}

AllParts == {"kernel", "busybox", "util-linux", "parted", "systemd", "rust", "login",
             "tools"}
Followed == {"kernel", "busybox", "rust"}  \* fingerprint: git's commit and status
Home     == {"rust", "login", "tools"}     \* not submodules
Cached   == AllParts \ {"tools"}

Stages  == Parts \cup {"rootfs", "iso"}
Targets == {"all", "fast"} \cup Stages

\* rust_build::build() builds senbit and the login.
Pipeline(t) ==
  Stages \cap CASE t = "all"  -> Stages
                [] t = "fast" -> {"rust", "login", "tools", "rootfs", "iso"}
                [] t = "rust" -> {"rust", "login"}
                [] OTHER      -> {t}

Source  == [head : Heads, edit : Edits \cup {None}]
Content == [head : Heads, edit : Edits \cup {None}, config : Configs \cup {None, Half}]

Fingerprints ==
  [head : Heads, dirty : BOOLEAN,
   also : Configs \cup Edits \cup {None} \cup SUBSET (Parts \cup {"config"})]

\* The entries of build/.state/cache.json.
Keys    == Parts \cup {"busybox-config"}
Entries == [Keys -> Fingerprints \cup Configs \cup {None}]

\* The kernel is on the ISO, beside the archive of the root file system.
Archives == {None, Half} \cup [Parts \ {"kernel"} -> Content \cup {Half}]
Images   == {None, Half} \cup [Parts -> Content \cup {Half}]

ASSUME PartsAssumption ==
  /\ Parts \subseteq AllParts
  /\ Head1 \in Heads /\ Config1 \in Configs /\ Patch \in Edits
  /\ Asked \subseteq Targets /\ \A t \in Asked : Pipeline(t) # {}
  /\ Patient \in BOOLEAN /\ MaxEdits \in Nat /\ MaxStops \in Nat

\* None, Torn and Half are none of the things a file may hold.
ASSUME FilesAssumption ==
  /\ None \notin Entries /\ Torn \notin Entries
  /\ None \notin Fingerprints /\ None \notin Configs /\ None \notin Content
  /\ Half \notin Configs /\ Half \notin Content /\ Half # None

NoEntries == [k \in Keys |-> None]

VARIABLES
  src,        \* src[c]: the sources of part c
  config,     \* config/busybox.config
  latest,     \* the last release of BusyBox
  out,        \* out[c]: the output of part c
  dotconfig,  \* .config in BusyBox's build directory
  disk,       \* the cache file
  initramfs, dist,  \* the archive; the ISO in iso/
  target, stage,    \* what devtool was asked to build; the stage it is at
  at,         \* the step of that stage
  entries,    \* Cache::entries, read when it started
  fp, hash,   \* the fingerprint and the configuration that will be recorded
  edits, stops,
  mixed,      \* history: parts whose output is not what the record stands for: a
              \* stop left another one in its place, or the sources were edited
              \* between the check and the compilation
  leftover,   \* history: BusyBox's .config is not the recorded one: it was copied
              \* half or after an edit, or the first build of a new one stopped
  steady      \* history: parts checked by this build, not edited since

userVars  == <<src, config, latest, edits>>
buildVars == <<target, stage, at, entries, fp, hash>>
fileVars  == <<out, dotconfig, disk>>
imageVars == <<initramfs, dist>>
histVars  == <<mixed, leftover, steady>>
vars == <<userVars, buildVars, fileVars, imageVars, stops, histVars>>

-----------------------------------------------------------------------------
(* Fingerprints                                                            *)

\* git status --porcelain at the root: files, and submodules that are not at the
\* commit the root names (the first one) or have changes of their own.
Status ==
  {c \in Parts : src[c].edit # None \/ (c \notin Home /\ src[c].head # Head1)}
    \cup (IF config = Config1 THEN {} ELSE {"config"})

\* git_fingerprint() for the kernel and BusyBox, describe() and the status for
\* senbit, hash_tree() for the login, the pinned version for the others.
Fingerprint(c) ==
  [head  |-> src[c].head,
   dirty |-> c \in Followed /\ src[c].edit # None,
   also  |-> CASE c = "busybox" -> config
               [] c = "rust"    -> Status
               [] c = "login"   -> src[c].edit
               [] OTHER         -> None]

TypeOK ==
  /\ src \in [Parts -> Source]
  /\ config \in Configs
  /\ latest \in Heads
  /\ out \in [Parts -> Content \cup {None, Half}]
  /\ dotconfig \in Configs \cup {None, Half}
  /\ disk \in {None, Torn} \cup Entries
  /\ initramfs \in Archives /\ dist \in Images
  /\ target \in Targets
  /\ stage \in Stages \cup {None}
  /\ at \in {"idle", "sources", "check", "prepare", "compile", "record",
             "record config", "assemble", "publish"}
  /\ entries \in Entries
  /\ fp \in Fingerprints \cup {None}
  /\ hash \in Configs \cup {None}
  /\ edits \in 0..MaxEdits /\ stops \in 0..MaxStops
  /\ mixed \in SUBSET Parts
  /\ leftover \in BOOLEAN
  /\ steady \in SUBSET Parts

Init ==
  /\ src = [c \in Parts |-> [head |-> Head1, edit |-> None]]
  /\ config = Config1 /\ latest = Head1
  /\ out = [c \in Parts |-> None] /\ dotconfig = None /\ disk = None
  /\ initramfs = None /\ dist = None
  /\ target = "all" /\ stage = None /\ at = "idle"
  /\ entries = NoEntries /\ fp = None /\ hash = None
  /\ edits = 0 /\ stops = 0
  /\ mixed = {} /\ leftover = FALSE /\ steady = {}

-----------------------------------------------------------------------------
(* The user and BusyBox's project                                          *)

\* What the histories remember of a change of src or config.
Remember ==
  /\ steady' = {c \in steady : src'[c] = src[c] /\ Fingerprint(c)' = Fingerprint(c)}
  /\ UNCHANGED <<mixed, leftover>>

Changing == (Patient => at = "idle") /\ edits < MaxEdits /\ edits' = edits + 1

\* A local change is made, or undone.
Edit(c, e) ==
  /\ Changing /\ e # src[c].edit
  /\ src' = [src EXCEPT ![c] = [@ EXCEPT !.edit = e]]
  /\ UNCHANGED <<config, latest, buildVars, fileVars, imageVars, stops>>
  /\ Remember

\* Another version is checked out: a submodule (with the version file that pins
\* it), or a commit of the repository, which may touch the login and the tools.
Checkout(C, h) ==
  /\ Changing
  /\ \/ C \cap Home = {} /\ \E c \in C : C = {c}
     \/ C \subseteq Home /\ "rust" \in C
  /\ \A c \in C : h # src[c].head
  /\ src' = [c \in Parts |-> IF c \in C THEN [src[c] EXCEPT !.head = h] ELSE src[c]]
  /\ UNCHANGED <<config, latest, buildVars, fileVars, imageVars, stops>>
  /\ Remember

EditConfig(k) ==
  /\ Changing /\ k # config
  /\ config' = k
  /\ UNCHANGED <<src, latest, buildVars, fileVars, imageVars, stops>>
  /\ Remember

Release(h) ==
  /\ Changing /\ h # latest
  /\ latest' = h
  /\ UNCHANGED <<src, config, buildVars, fileVars, imageVars, stops, histVars>>

-----------------------------------------------------------------------------
(* The build                                                               *)

FirstStep(s) ==
  CASE s = "rootfs" -> "assemble"
    [] s = "iso"    -> "publish"
    [] s = "tools"  -> "compile"
    [] OTHER        -> "sources"

GoTo(rest) ==
  IF rest = {} THEN stage' = None /\ at' = "idle"
  ELSE /\ stage' \in rest /\ \A s \in rest \ {stage'} : <<stage', s>> \in Before
       /\ at' = FirstStep(stage')

\* The stage succeeds: the next one starts, or the build is over.
Advance ==
  /\ GoTo({s \in Pipeline(target) : <<stage, s>> \in Before})
  /\ fp' = None /\ hash' = None

End == at' = "idle" /\ stage' = None

\* Mutant: what was read is taken as it is.
OpenedAsIs(file) == file

\* Cache::open() reads a missing or a torn file as an empty cache.
Opened(file) == IF file \in {None, Torn} THEN NoEntries ELSE file

\* build::run(), --force included.
StartBuild(t, force) ==
  /\ at = "idle"
  /\ target' = t /\ GoTo(Pipeline(t))
  /\ disk' = IF force THEN None ELSE disk
  /\ entries' = Opened(disk')
  /\ steady' = {}
  /\ UNCHANGED <<userVars, fp, hash, out, dotconfig, imageVars, stops, mixed, leftover>>

\* update_existing() refuses to leave local changes behind.
CannotUpdate ==
  /\ at = "sources" /\ stage = "busybox"
  /\ src["busybox"].head # latest /\ src["busybox"].edit # None
  /\ End
  /\ UNCHANGED <<userVars, target, entries, fp, hash, fileVars, imageVars, stops, histVars>>

\* BusyBox is moved to its last release; the patch for Parted is applied unless
\* it is there.
PrepareSources ==
  /\ at = "sources" /\ at' = "check"
  /\ src' = CASE stage = "busybox" -> [src EXCEPT ![stage] = [@ EXCEPT !.head = latest]]
               [] stage = "parted" /\ src["parted"].edit = None ->
                    [src EXCEPT ![stage] = [@ EXCEPT !.edit = Patch]]
               [] OTHER -> src
  /\ stage = "busybox" =>
       src["busybox"].head = latest \/ src["busybox"].edit = None
  /\ UNCHANGED <<config, latest, edits, target, stage, entries, fp, hash, fileVars, imageVars,
                 stops>>
  /\ Remember

\* BusyBox's configuration is not the one that was recorded.
Resetting(c) == at = "check" /\ c = "busybox" /\ entries["busybox-config"] # config

\* Mutant: only _install is removed.
ResetInstallOnly(c) ==
  /\ dotconfig' = dotconfig
  /\ IF Resetting(c)
     THEN out' = [out EXCEPT ![c] = None] /\ leftover' = FALSE
     ELSE UNCHANGED <<out, leftover>>

\* reset_if_config_changed(): its .config and _install go.
ResetIfConfigChanged(c) ==
  IF Resetting(c)
  THEN dotconfig' = None /\ out' = [out EXCEPT ![c] = None] /\ leftover' = FALSE
  ELSE UNCHANGED <<dotconfig, out, leftover>>

\* Cache::is_fresh(), after the reset.
is_fresh(c) == out'[c] # None /\ entries[c] = Fingerprint(c)

Skip ==
  /\ at = "check"
  /\ ResetIfConfigChanged(stage) /\ is_fresh(stage)
  /\ steady' = steady \cup {stage}
  /\ Advance
  /\ UNCHANGED <<userVars, target, entries, disk, imageVars, stops, mixed>>

Rebuild ==
  /\ at = "check"
  /\ ResetIfConfigChanged(stage) /\ ~ is_fresh(stage)
  /\ at' = IF stage = "busybox" THEN "prepare" ELSE "compile"
  /\ fp' = Fingerprint(stage) /\ hash' = config
  /\ steady' = steady \cup {stage}
  /\ UNCHANGED <<userVars, target, stage, entries, disk, imageVars, stops, mixed>>

\* prepare_config() copies the configuration of now, unless there is a .config.
PrepareConfig ==
  /\ at = "prepare" /\ at' = "compile"
  /\ dotconfig' = IF dotconfig = None THEN config ELSE dotconfig
  /\ leftover' = (leftover \/ (dotconfig = None /\ config # hash))
  /\ UNCHANGED <<userVars, target, stage, entries, fp, hash, out, disk, imageVars,
                 stops, mixed, steady>>

\* What make or cargo produces from the sources of now.
Built(c) ==
  [head |-> src[c].head, edit |-> src[c].edit,
   config |-> IF c = "busybox" THEN dotconfig ELSE None]

\* Compilation and installation.  The tools are not recorded.
Compile ==
  /\ at = "compile"
  /\ out' = [out EXCEPT ![stage] = Built(stage)]
  /\ IF stage = "tools"
     THEN Advance /\ steady' = steady \cup {"tools"} /\ UNCHANGED mixed
     ELSE /\ at' = "record" /\ UNCHANGED <<stage, fp, hash, steady>>
          /\ mixed' = IF Fingerprint(stage) = fp THEN mixed \ {stage}
                      ELSE mixed \cup {stage}
  /\ UNCHANGED <<userVars, target, entries, dotconfig, disk, imageVars, stops, leftover>>

\* Cache::record().
record(key, print) ==
  /\ entries' = [entries EXCEPT ![key] = print]
  /\ disk' = entries'

\* Mutant: the fingerprint is read again after the compilation.
RecordReadAgain ==
  /\ at = "record"
  /\ record(stage, Fingerprint(stage))
  /\ IF stage = "busybox"
     THEN at' = "record config" /\ UNCHANGED <<stage, fp, hash>>
     ELSE Advance
  /\ UNCHANGED <<userVars, target, out, dotconfig, imageVars, stops, histVars>>

Record ==
  /\ at = "record"
  /\ record(stage, fp)
  /\ IF stage = "busybox"
     THEN at' = "record config" /\ UNCHANGED <<stage, fp, hash>>
     ELSE Advance
  /\ UNCHANGED <<userVars, target, out, dotconfig, imageVars, stops, histVars>>

RecordConfig ==
  /\ at = "record config"
  /\ record("busybox-config", hash)
  /\ Advance
  /\ UNCHANGED <<userVars, target, out, dotconfig, imageVars, stops, histVars>>

\* rootfs::build() and initramfs::build(): the root file system is made anew from
\* the outputs, then archived.  Only gzip's status is seen: when find or cpio
\* fails, a cut archive is taken for a good one.
Assemble ==
  /\ at = "assemble"
  /\ \A c \in Parts \ {"kernel"} : out[c] # None
  /\ initramfs' \in {[c \in Parts \ {"kernel"} |-> out[c]], Half}
  /\ Advance
  /\ UNCHANGED <<userVars, target, entries, fileVars, dist, stops, histVars>>

\* iso::build().
Publish ==
  /\ at = "publish"
  /\ initramfs # None /\ ("kernel" \in Parts => out["kernel"] # None)
  /\ dist' = IF initramfs = Half THEN Half
             ELSE [c \in Parts |-> IF c = "kernel" THEN out[c] ELSE initramfs[c]]
  /\ Advance
  /\ UNCHANGED <<userVars, target, entries, fileVars, initramfs, stops, histVars>>

\* Something that the stage needs has not been built.
Missing ==
  /\ \/ at = "assemble" /\ \E c \in Parts \ {"kernel"} : out[c] = None
     \/ at = "publish" /\ (initramfs = None \/ ("kernel" \in Parts /\ out["kernel"] = None))
  /\ End
  /\ UNCHANGED <<userVars, target, entries, fp, hash, fileVars, imageVars, stops, histVars>>

\* The output was replaced and the record stays as it was.
Replaced ==
  /\ stage \in Cached
  /\ \/ out'[stage] \notin {out[stage], None}
     \/ at = "record" /\ entries[stage] # fp

\* A step fails or devtool is killed; what the step was writing is as it was,
\* half-written or written.
Stop ==
  /\ at # "idle" /\ stops < MaxStops /\ stops' = stops + 1
  /\ End /\ fp' = None /\ hash' = None
  /\ dotconfig' \in {dotconfig} \cup
       (IF at = "prepare" /\ dotconfig = None THEN {Half} ELSE {}) \cup
       (IF Resetting(stage) THEN {None} ELSE {})
  /\ IF at = "compile" \/ (Resetting(stage) /\ dotconfig' = None)
     THEN \E o \in {out[stage], None, Half, Built(stage)} :
            /\ at = "check" => o = None \/ (out[stage] # None /\ o \in {out[stage], Half})
            /\ out' = [out EXCEPT ![stage] = o]
     ELSE out' = out
  /\ IF at \in {"record", "record config"} THEN disk' \in {disk, Torn} ELSE disk' = disk
  /\ IF at = "assemble" THEN initramfs' \in {initramfs, Half} ELSE initramfs' = initramfs
  /\ IF at = "publish" THEN dist' \in {dist, Half} ELSE dist' = dist
  /\ mixed' = IF Replaced THEN mixed \cup {stage} ELSE mixed
  /\ leftover' = (leftover \/ (stage = "busybox"
       /\ \/ at \in {"compile", "record", "record config"} /\ entries["busybox-config"] # hash
          \/ dotconfig' = Half))
  /\ UNCHANGED <<userVars, target, entries, steady>>

Next ==
  \/ \E c \in Parts, e \in Edits \cup {None} : Edit(c, e)
  \/ \E C \in SUBSET Parts, h \in Heads : Checkout(C, h)
  \/ \E k \in Configs : EditConfig(k)
  \/ \E h \in Heads : Release(h)
  \/ \E t \in Asked, force \in BOOLEAN : StartBuild(t, force)
  \/ CannotUpdate \/ PrepareSources \/ Skip \/ Rebuild \/ PrepareConfig \/ Compile
  \/ Record \/ RecordConfig \/ Assemble \/ Publish \/ Missing \/ Stop

Spec == Init /\ [][Next]_vars

-----------------------------------------------------------------------------
(* Properties                                                              *)

\* What the cache promises of an output: it has the version of the sources; for
\* those of Followed, local changes too if there are some; BusyBox its
\* configuration; the login is the very content.
Shows(c, o) ==
  /\ o \notin {None, Half}
  /\ o.head = src[c].head
  /\ c \in Followed => (o.edit = None) = (src[c].edit = None)
  /\ c = "login" => o.edit = src[c].edit
  /\ c = "busybox" => o.config = config

\* Where the cache does go wrong when the sources come back to what is on record: a
\* stop has left another output in place, the sources were edited while they were
\* compiled, or BusyBox was compiled with a .config left behind.
Doubtful(c) == c \in mixed \/ (c = "busybox" /\ leftover)

\* A compilation is skipped only when the output is that of the sources as they are
\* (Cache::is_fresh(), Cache::record()), or for one of Doubtful's three causes: no
\* other edit, stop, torn file, reset or --force leads to a wrong skip.
SkippedIsCurrent ==
  [][Skip => Doubtful(stage) \/ Shows(stage, out[stage])]_vars

\* The ISO of a finished build holds every part that was built or checked for it as
\* its sources are, but for three things: parts that were edited after the check,
\* parts with one of Doubtful's causes, and an archive that was cut on its way
\* through find, cpio and gzip.
ShippedIsCurrent ==
  [][Publish /\ target \in {"all", "fast"} =>
       \/ dist' = Half
       \/ \A c \in steady : Doubtful(c) \/ Shows(c, dist'[c])]_vars

\* busybox.rs: when the configuration has changed since the one last used, what
\* was made from the old one is removed.  So a BusyBox taken as it is has been
\* made with the configuration of now (a half-copied .config, and an output a stop
\* has left in place of the recorded one, are left aside).
OldConfigIsRemoved ==
  [][Skip /\ stage = "busybox" /\ "busybox" \notin mixed =>
       out["busybox"].config \in {config, Half}]_vars

=============================================================================
