----------------------------- MODULE BuildProofs -----------------------------
(***************************************************************************)
(* What devtool skips and what it ships, for any parts, versions and       *)
(* bounds.                                                                 *)
(***************************************************************************)
EXTENDS Build, TLAPS

\* The stage fits the step it is at.
Placed ==
  /\ at = "idle" => stage = None
  /\ at \in {"sources", "check", "record"} => stage \in Parts \ {"tools"}
  /\ at = "compile" => stage \in Parts
  /\ at \in {"prepare", "record config"} => stage = "busybox" /\ stage \in Parts
  /\ at = "assemble" => stage = "rootfs"
  /\ at = "publish" => stage = "iso"

\* A fingerprint and a configuration are there to be recorded.
Holding ==
  /\ at \in {"prepare", "record", "record config"} => fp \in Fingerprints /\ hash \in Configs
  /\ at = "compile" /\ stage # "tools" => fp \in Fingerprints /\ hash \in Configs

Typed == TypeOK /\ Placed /\ Holding

LEMMA StageNames == "rootfs" \notin Parts /\ "iso" \notin Parts
  BY PartsAssumption DEF AllParts

\* A fingerprint of sources is one.
LEMMA PrintType ==
  ASSUME NEW c \in Parts, src \in [Parts -> Source], config \in Configs
  PROVE  Fingerprint(c) \in Fingerprints
<1>1. src[c].head \in Heads /\ src[c].edit \in Edits \cup {None}
  BY DEF Source
<1>2. Status \in SUBSET (Parts \cup {"config"})
  BY DEF Status
<1>. QED  BY <1>1, <1>2 DEF Fingerprint, Fingerprints

\* GoTo() ends the build or begins one of the stages.
LEMMA GoToPlaces ==
  ASSUME NEW rest \in SUBSET Stages, GoTo(rest)
  PROVE  /\ stage' \in Stages \cup {None}
         /\ \/ at' = "idle" /\ stage' = None
            \/ at' = "sources" /\ stage' \in Parts \ {"tools"}
            \/ at' = "compile" /\ stage' = "tools" /\ stage' \in Parts
            \/ at' = "assemble" /\ stage' = "rootfs"
            \/ at' = "publish" /\ stage' = "iso"
<1>1. CASE rest = {}
  BY <1>1 DEF GoTo
<1>2. CASE rest # {}
  <2>1. stage' \in Stages /\ at' = FirstStep(stage')
    BY <1>2 DEF GoTo
  <2>. QED  BY <2>1, StageNames DEF FirstStep, Stages
<1>. QED  BY <1>1, <1>2

LEMMA PipelineType ==
  ASSUME NEW t
  PROVE  Pipeline(t) \in SUBSET Stages
  BY DEF Pipeline

LEMMA AdvancePlaces ==
  ASSUME Advance
  PROVE  /\ stage' \in Stages \cup {None}
         /\ \/ at' = "idle" /\ stage' = None
            \/ at' = "sources" /\ stage' \in Parts \ {"tools"}
            \/ at' = "compile" /\ stage' = "tools" /\ stage' \in Parts
            \/ at' = "assemble" /\ stage' = "rootfs"
            \/ at' = "publish" /\ stage' = "iso"
         /\ fp' = None /\ hash' = None
<1>1. {s \in Pipeline(target) : <<stage, s>> \in Before} \in SUBSET Stages
  BY DEF Pipeline
<1>. QED  BY <1>1, GoToPlaces DEF Advance

-----------------------------------------------------------------------------
(* Types                                                                   *)

LEMMA InitTyped == Init => Typed
<1>. SUFFICES ASSUME Init PROVE Typed
  OBVIOUS
<1>1. NoEntries \in Entries
  BY DEF NoEntries, Entries
<1>2. src \in [Parts -> Source] /\ edits \in 0..MaxEdits /\ stops \in 0..MaxStops
  BY PartsAssumption DEF Init, Source
<1>3. out \in [Parts -> Content \cup {None, Half}]
  BY DEF Init
<1>. QED  BY <1>1, <1>2, <1>3, PartsAssumption
          DEF Init, Typed, TypeOK, Placed, Holding, Archives, Images, Targets

LEMMA ChangingType == TypeOK /\ Changing => edits' \in 0..MaxEdits
<1>1. MaxEdits \in Nat
  BY PartsAssumption
<1>2. ASSUME edits \in 0..MaxEdits, edits < MaxEdits PROVE edits + 1 \in 0..MaxEdits
  BY <1>1, <1>2
<1>. QED  BY <1>2 DEF TypeOK, Changing

LEMMA RememberTypes ==
  ASSUME Remember, mixed \in SUBSET Parts, leftover \in BOOLEAN, steady \in SUBSET Parts
  PROVE  mixed' \in SUBSET Parts /\ leftover' \in BOOLEAN /\ steady' \in SUBSET Parts
  BY DEF Remember

LEMMA OpenedType ==
  ASSUME NEW file \in {None, Torn} \cup Entries
  PROVE  Opened(file) \in Entries
  BY DEF Opened, NoEntries, Entries

LEMMA ResetTypes ==
  ASSUME TypeOK, stage \in Parts, ResetIfConfigChanged(stage)
  PROVE  /\ dotconfig' \in Configs \cup {None, Half} /\ leftover' \in BOOLEAN
         /\ out' \in [Parts -> Content \cup {None, Half}]
  BY DEF TypeOK, ResetIfConfigChanged

LEMMA BuiltType ==
  ASSUME TypeOK, stage \in Parts
  PROVE  Built(stage) \in Content
  BY DEF TypeOK, Built, Content, Source

LEMMA StepTyped == Typed /\ [Next]_vars => Typed'
<1>. SUFFICES ASSUME Typed, [Next]_vars PROVE Typed'
  OBVIOUS
<1>. USE DEF Typed
<1>1. ASSUME NEW c \in Parts, NEW e \in Edits \cup {None}, Edit(c, e) PROVE Typed'
  <2>1. src' \in [Parts -> Source]
    BY <1>1 DEF Edit, TypeOK, Source
  <2>. QED  BY <1>1, <2>1, RememberTypes, ChangingType
            DEF Edit, TypeOK, Placed, Holding, buildVars, fileVars, imageVars
<1>2. ASSUME NEW C \in SUBSET Parts, NEW h \in Heads, Checkout(C, h) PROVE Typed'
  <2>1. src' \in [Parts -> Source]
    BY <1>2 DEF Checkout, TypeOK, Source
  <2>. QED  BY <1>2, <2>1, RememberTypes, ChangingType
            DEF Checkout, TypeOK, Placed, Holding, buildVars, fileVars, imageVars
<1>3. ASSUME NEW k \in Configs, EditConfig(k) PROVE Typed'
  BY <1>3, RememberTypes, ChangingType
     DEF EditConfig, TypeOK, Placed, Holding, buildVars, fileVars, imageVars
<1>4. ASSUME NEW h \in Heads, Release(h) PROVE Typed'
  <2>1. edits' \in 0..MaxEdits /\ latest' \in Heads
    BY <1>4, ChangingType DEF Release
  <2>2. UNCHANGED <<src, config, buildVars, fileVars, imageVars, stops, histVars>>
    BY <1>4 DEF Release
  <2>. QED  BY <2>1, <2>2 DEF TypeOK, Placed, Holding, buildVars, fileVars, imageVars, histVars
<1>5. ASSUME NEW t \in Asked, NEW force \in BOOLEAN, StartBuild(t, force) PROVE Typed'
  <2>1. disk' \in {None, Torn} \cup Entries /\ t \in Targets
    BY <1>5, PartsAssumption DEF StartBuild, TypeOK
  <2>2. entries' \in Entries
    BY <1>5, <2>1, OpenedType DEF StartBuild
  <2>3. Placed' /\ stage' \in Stages \cup {None} /\ (at' = "compile" => stage' = "tools")
        /\ at' \in {"idle", "sources", "compile", "assemble", "publish"}
    BY <1>5, PipelineType, GoToPlaces DEF StartBuild, Placed
  <2>. QED  BY <1>5, <2>1, <2>2, <2>3
            DEF StartBuild, TypeOK, Holding, userVars, imageVars
<1>6. CASE CannotUpdate
  BY <1>6 DEF CannotUpdate, End, TypeOK, Placed, Holding, userVars, fileVars, imageVars, histVars
<1>7. CASE PrepareSources
  <2>1. src' \in [Parts -> Source]
    BY <1>7, PartsAssumption DEF PrepareSources, TypeOK, Source, Placed
  <2>. QED  BY <1>7, <2>1, RememberTypes
            DEF PrepareSources, TypeOK, Placed, Holding, fileVars, imageVars
<1>8. CASE Skip
  <2>1. stage \in Parts
    BY <1>8 DEF Skip, Placed
  <2>. QED  BY <1>8, <2>1, AdvancePlaces, ResetTypes
            DEF Skip, TypeOK, Placed, Holding, userVars, imageVars
<1>9. CASE Rebuild
  <2>1. stage \in Parts \ {"tools"}
    BY <1>9 DEF Rebuild, Placed
  <2>2. Fingerprint(stage) \in Fingerprints
    BY <2>1, PrintType DEF TypeOK
  <2>. QED  BY <1>9, <2>1, <2>2, ResetTypes
            DEF Rebuild, TypeOK, Placed, Holding, userVars, imageVars
<1>10. CASE PrepareConfig
  BY <1>10 DEF PrepareConfig, TypeOK, Placed, Holding, userVars, imageVars
<1>11. CASE Compile
  <2>1. stage \in Parts /\ out' \in [Parts -> Content \cup {None, Half}]
    BY <1>11, BuiltType DEF Compile, TypeOK, Placed
  <2>2. CASE stage = "tools"
    BY <1>11, <2>1, <2>2, AdvancePlaces
       DEF Compile, TypeOK, Placed, Holding, userVars, imageVars
  <2>3. CASE stage # "tools"
    BY <1>11, <2>1, <2>3 DEF Compile, TypeOK, Placed, Holding, userVars, imageVars
  <2>. QED  BY <2>2, <2>3
<1>12. CASE Record
  <2>1. entries' \in Entries /\ disk' \in Entries
    BY <1>12 DEF Record, record, TypeOK, Placed, Holding, Entries, Keys
  <2>2. CASE stage = "busybox"
    BY <1>12, <2>1, <2>2 DEF Record, TypeOK, Placed, Holding, userVars, imageVars, histVars
  <2>3. CASE stage # "busybox"
    BY <1>12, <2>1, <2>3, AdvancePlaces
       DEF Record, TypeOK, Placed, Holding, userVars, imageVars, histVars
  <2>. QED  BY <2>2, <2>3
<1>13. CASE RecordConfig
  <2>1. entries' \in Entries /\ disk' \in Entries
    BY <1>13 DEF RecordConfig, record, TypeOK, Holding, Entries, Keys
  <2>. QED  BY <1>13, <2>1, AdvancePlaces
            DEF RecordConfig, TypeOK, Placed, Holding, userVars, imageVars, histVars
<1>14. CASE Assemble
  <2>1. initramfs' \in Archives
    BY <1>14 DEF Assemble, TypeOK, Archives
  <2>. QED  BY <1>14, <2>1, AdvancePlaces
            DEF Assemble, TypeOK, Placed, Holding, userVars, fileVars, histVars
<1>15. CASE Publish
  <2>1. dist' \in Images
    BY <1>15 DEF Publish, TypeOK, Archives, Images
  <2>. QED  BY <1>15, <2>1, AdvancePlaces
            DEF Publish, TypeOK, Placed, Holding, userVars, fileVars, histVars
<1>16. CASE Missing
  BY <1>16 DEF Missing, End, TypeOK, Placed, Holding, userVars, fileVars, imageVars, histVars
<1>17. CASE Stop
  <2>1. /\ dotconfig' \in Configs \cup {None, Half}
        /\ disk' \in {None, Torn} \cup Entries
        /\ initramfs' \in Archives /\ dist' \in Images
        /\ leftover' \in BOOLEAN
    BY <1>17 DEF Stop, TypeOK, Archives, Images
  <2>2. out' \in [Parts -> Content \cup {None, Half}]
    <3>1. CASE at = "compile" \/ Resetting(stage)
      <4>1. stage \in Parts
        BY <3>1 DEF Resetting, Placed
      <4>. QED  BY <1>17, <4>1, BuiltType DEF Stop, TypeOK
    <3>2. CASE ~ (at = "compile" \/ Resetting(stage))
      BY <1>17, <3>2 DEF Stop, TypeOK
    <3>. QED  BY <3>1, <3>2
  <2>3. mixed' \in SUBSET Parts
    <3>1. ASSUME Replaced PROVE stage \in Parts
      <4>1. CASE at = "compile" \/ Resetting(stage)
        BY <4>1 DEF Resetting, Placed
      <4>2. CASE ~ (at = "compile" \/ Resetting(stage))
        <5>1. out' = out
          BY <1>17, <4>2 DEF Stop
        <5>. QED  BY <3>1, <5>1 DEF Replaced, Placed
      <4>. QED  BY <4>1, <4>2
    <3>. QED  BY <1>17, <3>1 DEF Stop, TypeOK
  <2>4. stops' \in 0..MaxStops
    <3>1. MaxStops \in Nat
      BY PartsAssumption
    <3>2. ASSUME stops \in 0..MaxStops, stops < MaxStops PROVE stops + 1 \in 0..MaxStops
      BY <3>1, <3>2
    <3>. QED  BY <1>17, <3>2 DEF Stop, TypeOK
  <2>. QED  BY <1>17, <2>1, <2>2, <2>3, <2>4 DEF Stop, End, TypeOK, Placed, Holding, userVars
<1>18. CASE UNCHANGED vars
  BY <1>18 DEF vars, userVars, buildVars, fileVars, imageVars, histVars, TypeOK, Placed, Holding
<1>. QED  BY <1>1, <1>2, <1>3, <1>4, <1>5, <1>6, <1>7, <1>8, <1>9, <1>10, <1>11, <1>12,
             <1>13, <1>14, <1>15, <1>16, <1>17, <1>18 DEF Next

\* Every variable keeps its type.
THEOREM BuildTypes == Spec => []TypeOK
<1>1. Typed => TypeOK
  BY DEF Typed
<1>. QED  BY <1>1, InitTyped, StepTyped, PTL DEF Spec

-----------------------------------------------------------------------------
(* What the cache knows                                                    *)

Kept == Opened(disk)

\* The build of BusyBox is between the copy of its configuration and the record.
AtBusyBox == stage = "busybox" /\ at \in {"compile", "record", "record config"}

Building == at \in {"prepare", "compile", "record", "record config"} /\ stage # "tools"

\* o is an output that fingerprint f of part c stands for.
Matches(c, o, f) ==
  /\ o \notin {None, Half}
  /\ o.head = f.head
  /\ c \in Followed => (o.edit # None) = f.dirty
  /\ c = "login" => o.edit = f.also
  /\ c = "busybox" => o.config = f.also

\* devtool goes by the file.
Reading == at # "idle" => entries = Kept

\* BusyBox's two records will agree.
Chosen ==
  Building => /\ stage = "busybox" => fp.also = hash
              /\ at = "record config" => Kept[stage] = fp

\* Unless it was left behind, BusyBox's .config is the one on record, or the one
\* of the build under way.
Configured ==
  ~ leftover =>
    IF AtBusyBox THEN dotconfig = hash
    ELSE /\ dotconfig = None \/ Kept["busybox-config"] \in {None, dotconfig}
         /\ at = "prepare" => dotconfig \in {None, hash}

\* An output is what its record stands for, whatever the sources have become since.
\* BusyBox's counts only as long as its two records agree.
Sound ==
  \A c \in Parts \ {"tools"} :
    /\ Kept[c] # None /\ ~ Doubtful(c) /\ ~ (at = "record" /\ c = stage)
    /\ c = "busybox" => Kept[c].also = Kept["busybox-config"]
    => out[c] = None \/ Matches(c, out[c], Kept[c])

\* What will be recorded is what was made.
Made ==
  at \in {"record", "record config"} /\ ~ Doubtful(stage) => Matches(stage, out[stage], fp)

CacheInv == Reading /\ Chosen /\ Configured /\ Sound /\ Made

LEMMA KeptType == Typed => Kept \in Entries
  BY OpenedType DEF Typed, TypeOK, Kept

\* To match the fingerprint of the sources is to show them.
LEMMA MatchesShows ==
  ASSUME NEW c, NEW o, Matches(c, o, Fingerprint(c))
  PROVE  Shows(c, o)
<1>1. c \in Followed => (o.edit # None) = (src[c].edit # None)
  BY DEF Matches, Fingerprint
<1>. QED  BY <1>1 DEF Matches, Shows, Fingerprint

LEMMA ShowsMatches ==
  ASSUME NEW c, NEW o, Shows(c, o)
  PROVE  Matches(c, o, Fingerprint(c))
<1>1. c \in Followed => (o.edit # None) = Fingerprint(c).dirty
  BY DEF Shows, Fingerprint
<1>. QED  BY <1>1 DEF Matches, Shows, Fingerprint

\* The same fingerprint: an output shows what it showed.
LEMMA SamePrint ==
  ASSUME NEW c \in Parts, Fingerprint(c)' = Fingerprint(c), UNCHANGED out,
         Shows(c, out[c])
  PROVE  Shows(c, out[c])'
<1>1. src'[c].head = src[c].head
  BY DEF Fingerprint
<1>2. c \in Followed => (src'[c].edit = None) = (src[c].edit = None)
  <2>1. (c \in Followed /\ src'[c].edit # None) = (c \in Followed /\ src[c].edit # None)
    BY DEF Fingerprint
  <2>. QED  BY <2>1
<1>3. c = "login" => src'[c].edit = src[c].edit
  BY DEF Fingerprint
<1>4. c = "busybox" => config' = config
  BY DEF Fingerprint
<1>. QED  BY <1>1, <1>2, <1>3, <1>4 DEF Shows

LEMMA InitCache == Init => CacheInv
  BY DEF Init, CacheInv, Reading, Chosen, Configured, Sound, Made, Kept, Opened,
     NoEntries, Keys, Building, AtBusyBox

\* A step that leaves the outputs and the records alone, and ends or begins a stage,
\* or changes nothing the invariant is about: edits of the sources are such steps.
LEMMA QuietKeeps ==
  ASSUME Typed, CacheInv, UNCHANGED <<out, dotconfig, disk, mixed, leftover>>,
         \/ UNCHANGED <<stage, at, entries, fp, hash>>
         \/ /\ ~ AtBusyBox /\ at \notin {"record", "record config"}
            /\ at' \notin {"prepare", "record", "record config"}
            /\ at' = "compile" => stage' = "tools"
            /\ at' # "idle" => entries' = Kept
  PROVE  CacheInv'
<1>1. Kept' = Kept /\ \A c : Doubtful(c)' = Doubtful(c)
  BY DEF Kept, Opened, Doubtful
<1>2. CASE UNCHANGED <<stage, at, entries, fp, hash>>
  <2>1. Doubtful(stage)' = Doubtful(stage)
    BY <1>2 DEF Doubtful
  <2>2. Reading' /\ Configured' /\ Chosen'
    BY <1>1, <1>2 DEF CacheInv, Reading, Configured, Chosen, AtBusyBox, Building
  <2>3. Sound' /\ Made'
    BY <1>1, <1>2, <2>1 DEF CacheInv, Sound, Made, Matches
  <2>. QED  BY <2>2, <2>3 DEF CacheInv
<1>3. CASE /\ ~ AtBusyBox /\ at \notin {"record", "record config"}
           /\ at' \notin {"prepare", "record", "record config"}
           /\ at' = "compile" => stage' = "tools"
           /\ at' # "idle" => entries' = Kept
  <2>1. ~ AtBusyBox' /\ ~ Building' /\ Made'
    BY <1>3 DEF AtBusyBox, Building, Made
  <2>2. Reading' /\ Chosen' /\ Configured'
    BY <1>1, <1>3, <2>1 DEF CacheInv, Reading, Chosen, Configured
  <2>3. Sound'
    BY <1>1, <1>3 DEF CacheInv, Sound, Matches
  <2>. QED  BY <2>1, <2>2, <2>3 DEF CacheInv
<1>. QED  BY <1>2, <1>3

LEMMA StartKeeps ==
  ASSUME Typed, CacheInv, NEW t \in Asked, NEW force \in BOOLEAN, StartBuild(t, force)
  PROVE  CacheInv'
<1>1. /\ at = "idle" /\ at' \in {"idle", "sources", "compile", "assemble", "publish"}
      /\ at' = "compile" => stage' = "tools"
      /\ UNCHANGED <<out, dotconfig, mixed, leftover>>
      /\ entries' = Opened(disk')
  BY PipelineType, GoToPlaces DEF StartBuild
<1>2. entries' = Kept'
  BY <1>1 DEF Kept, Opened
<1>3. CASE ~ force
  <2>1. disk' = disk
    BY <1>3 DEF StartBuild
  <2>2. entries' = Kept
    BY <1>1, <2>1 DEF Kept
  <2>. QED  BY <1>1, <2>1, <2>2, QuietKeeps DEF AtBusyBox
<1>4. CASE force
  <2>1. Kept' = NoEntries
    BY <1>4 DEF StartBuild, Kept, Opened
  <2>2. /\ \A c \in Parts : Kept'[c] = None
        /\ Kept'["busybox-config"] = None
    BY <2>1 DEF NoEntries, Keys
  <2>3. ~ AtBusyBox' /\ ~ Building' /\ ~ AtBusyBox
    BY <1>1 DEF AtBusyBox, Building
  <2>4. Sound' /\ Made' /\ Chosen' /\ Reading'
    BY <1>1, <1>2, <2>2, <2>3 DEF Sound, Made, Chosen, Reading
  <2>5. Configured'
    BY <1>1, <2>2, <2>3 DEF Configured, CacheInv
  <2>. QED  BY <2>4, <2>5 DEF CacheInv
<1>. QED  BY <1>3, <1>4

LEMMA SkipKeeps == Typed /\ CacheInv /\ Skip => CacheInv'
<1>. SUFFICES ASSUME Typed, CacheInv, Skip PROVE CacheInv'
  OBVIOUS
<1>1. /\ at = "check" /\ stage \in Parts \ {"tools"} /\ ResetIfConfigChanged(stage)
      /\ UNCHANGED <<disk, mixed, entries>>
  BY DEF Skip, Typed, Placed
<1>2. /\ at' \in {"idle", "sources", "compile", "assemble", "publish"}
      /\ at' = "compile" => stage' = "tools"
  BY AdvancePlaces DEF Skip
<1>3. ~ Resetting(stage)
  BY <1>1 DEF Skip, is_fresh, ResetIfConfigChanged, Resetting, Typed, TypeOK
<1>4. UNCHANGED <<out, dotconfig, leftover>>
  BY <1>1, <1>3 DEF ResetIfConfigChanged
<1>5. entries' = Kept
  BY <1>1 DEF CacheInv, Reading
<1>. QED  BY <1>1, <1>2, <1>4, <1>5, QuietKeeps DEF AtBusyBox

LEMMA RebuildKeeps == Typed /\ CacheInv /\ Rebuild => CacheInv'
<1>. SUFFICES ASSUME Typed, CacheInv, Rebuild PROVE CacheInv'
  OBVIOUS
<1>1. /\ at = "check" /\ stage \in Parts \ {"tools"} /\ ResetIfConfigChanged(stage)
      /\ UNCHANGED <<config, disk, entries, stage, mixed>>
      /\ at' \in {"prepare", "compile"} /\ (at' = "prepare" <=> stage = "busybox")
      /\ fp' = Fingerprint(stage) /\ hash' = config
  BY DEF Rebuild, Typed, Placed, userVars
<1>2. Kept' = Kept /\ entries = Kept
  BY <1>1 DEF Kept, Opened, CacheInv, Reading
<1>3. ~ AtBusyBox' /\ ~ AtBusyBox /\ Reading' /\ Made'
  BY <1>1, <1>2 DEF AtBusyBox, Reading, Made
<1>4. Chosen'
  BY <1>1 DEF Chosen, Fingerprint
<1>5. CASE Resetting(stage)
  <2>1. /\ stage = "busybox" /\ dotconfig' = None /\ out'["busybox"] = None
        /\ \A c \in Parts : c # "busybox" => out'[c] = out[c]
    BY <1>1, <1>5 DEF ResetIfConfigChanged, Resetting, Typed, TypeOK
  <2>2. Configured'
    BY <1>3, <2>1 DEF Configured
  <2>3. Sound'
    <3>1. SUFFICES ASSUME NEW c \in Parts \ {"tools"}, c # "busybox", Kept[c] # None,
                          ~ Doubtful(c)
                   PROVE  out[c] = None \/ Matches(c, out[c], Kept[c])
      BY <1>1, <1>2, <2>1 DEF Sound, Doubtful, Matches
    <3>. QED  BY <1>1, <3>1 DEF CacheInv, Sound
  <2>. QED  BY <1>3, <1>4, <2>2, <2>3 DEF CacheInv
<1>6. CASE ~ Resetting(stage)
  <2>1. UNCHANGED <<out, dotconfig, leftover>>
    BY <1>1, <1>6 DEF ResetIfConfigChanged
  <2>2. stage = "busybox" => Kept["busybox-config"] = config /\ config # None
    BY <1>1, <1>2, <1>6, FilesAssumption DEF Resetting, Typed, TypeOK
  <2>3. Configured'
    BY <1>1, <1>2, <1>3, <2>1, <2>2 DEF CacheInv, Configured
  <2>4. Sound'
    BY <1>1, <1>2, <2>1 DEF CacheInv, Sound, Doubtful, Matches
  <2>. QED  BY <1>3, <1>4, <2>3, <2>4 DEF CacheInv
<1>. QED  BY <1>5, <1>6

LEMMA PrepareKeeps == Typed /\ CacheInv /\ PrepareConfig => CacheInv'
<1>. SUFFICES ASSUME Typed, CacheInv, PrepareConfig PROVE CacheInv'
  OBVIOUS
<1>1. /\ at = "prepare" /\ at' = "compile" /\ stage = "busybox" /\ stage \in Parts
      /\ UNCHANGED <<disk, entries, stage, fp, hash, out, mixed>>
      /\ dotconfig' = IF dotconfig = None THEN config ELSE dotconfig
      /\ leftover' = (leftover \/ (dotconfig = None /\ config # hash))
  BY DEF PrepareConfig, Typed, Placed
<1>2. Kept' = Kept
  BY <1>1 DEF Kept, Opened
<1>3. AtBusyBox' /\ ~ AtBusyBox /\ Reading' /\ Made'
  BY <1>1, <1>2 DEF AtBusyBox, Reading, CacheInv, Made
<1>4. ~ leftover' => ~ leftover
  BY <1>1
<1>5. Chosen'
  BY <1>1, <1>2 DEF CacheInv, Chosen, Building
<1>6. Configured'
  BY <1>1, <1>2, <1>3, <1>4 DEF CacheInv, Configured
<1>7. Sound'
  BY <1>1, <1>2, <1>4 DEF CacheInv, Sound, Doubtful, Matches
<1>. QED  BY <1>3, <1>5, <1>6, <1>7 DEF CacheInv

\* What is made from the sources shows them.
LEMMA BuiltShows ==
  ASSUME Typed, CacheInv, stage \in Parts, at = "compile",
         stage = "busybox" => ~ leftover /\ fp = Fingerprint(stage)
  PROVE  Shows(stage, Built(stage))
<1>1. Built(stage) \in Content
  BY BuiltType DEF Typed
<1>2. Built(stage) \notin {None, Half}
  BY <1>1, FilesAssumption
<1>3. stage = "busybox" => dotconfig = config
  BY DEF CacheInv, Configured, AtBusyBox, Chosen, Building, Fingerprint
<1>. QED  BY <1>1, <1>2, <1>3 DEF Shows, Built

LEMMA CompileKeeps == Typed /\ CacheInv /\ Compile => CacheInv'
<1>. SUFFICES ASSUME Typed, CacheInv, Compile PROVE CacheInv'
  OBVIOUS
<1>1. /\ at = "compile" /\ stage \in Parts
      /\ UNCHANGED <<disk, entries, dotconfig, leftover>>
      /\ \A c \in Parts : out'[c] = IF c = stage THEN Built(stage) ELSE out[c]
  BY DEF Compile, Typed, TypeOK, Placed
<1>2. Kept' = Kept
  BY <1>1 DEF Kept, Opened
<1>3. Reading'
  BY <1>1, <1>2 DEF CacheInv, Reading
<1>4. \A c \in Parts : c # stage => Doubtful(c)' = Doubtful(c)
  BY <1>1 DEF Compile, Doubtful
<1>5. ASSUME NEW c \in Parts \ {"tools"}, c # stage, Kept[c] # None, ~ Doubtful(c),
             c = "busybox" => Kept[c].also = Kept["busybox-config"]
      PROVE  out'[c] = None \/ Matches(c, out'[c], Kept[c])
  BY <1>1, <1>5 DEF CacheInv, Sound
<1>6. CASE stage = "tools"
  <2>1. /\ at' \in {"idle", "sources", "compile", "assemble", "publish"}
        /\ at' = "compile" => stage' = "tools"
    BY <1>1, <1>6, AdvancePlaces DEF Compile
  <2>2. ~ Building' /\ ~ AtBusyBox' /\ ~ AtBusyBox
    BY <1>6, <2>1 DEF Building, AtBusyBox
  <2>3. Chosen' /\ Made' /\ Configured'
    BY <1>1, <1>2, <2>1, <2>2 DEF Chosen, Made, Configured, CacheInv
  <2>4. Sound'
    BY <1>2, <1>4, <1>5, <1>6 DEF Sound, Matches
  <2>. QED  BY <1>3, <2>3, <2>4 DEF CacheInv
<1>7. CASE stage # "tools"
  <2>1. /\ at' = "record" /\ UNCHANGED <<stage, fp, hash>>
        /\ mixed' = IF Fingerprint(stage) = fp THEN mixed \ {stage} ELSE mixed \cup {stage}
    BY <1>7 DEF Compile
  <2>2. Building' /\ Building /\ (AtBusyBox' <=> stage = "busybox")
        /\ (AtBusyBox <=> stage = "busybox")
    BY <1>1, <1>7, <2>1 DEF Building, AtBusyBox
  <2>3. Chosen' /\ Configured'
    BY <1>1, <1>2, <2>1, <2>2 DEF Chosen, Configured, CacheInv
  <2>4. Sound'
    BY <1>2, <1>4, <1>5, <2>1 DEF Sound, Matches
  <2>5. Made'
    <3>1. SUFFICES ASSUME ~ Doubtful(stage)' PROVE Matches(stage, out'[stage], fp)
      BY <2>1 DEF Made, Matches
    <3>2. Fingerprint(stage) = fp /\ (stage = "busybox" => ~ leftover)
      BY <1>1, <2>1, <3>1 DEF Doubtful
    <3>3. Shows(stage, Built(stage))
      BY <1>1, <3>2, BuiltShows
    <3>. QED  BY <1>1, <3>2, <3>3, ShowsMatches
  <2>. QED  BY <1>3, <2>3, <2>4, <2>5 DEF CacheInv
<1>. QED  BY <1>6, <1>7

\* One entry of the cache is written, with the file.
LEMMA RecordWrites ==
  ASSUME Typed, CacheInv, NEW key \in Keys, NEW print \in Fingerprints \cup Configs,
         at # "idle", record(key, print)
  PROVE  /\ Kept' = [Kept EXCEPT ![key] = print]
         /\ entries' = Kept'
         /\ Kept'[key] = print
<1>1. entries = Kept /\ Kept \in Entries
  BY KeptType DEF CacheInv, Reading
<1>2. entries' \in Entries
  BY <1>1 DEF record, Entries
<1>3. disk' \notin {None, Torn}
  BY <1>2, FilesAssumption DEF record
<1>4. Kept' = entries'
  BY <1>3 DEF Kept, Opened, record
<1>. QED  BY <1>1, <1>4 DEF record, Entries

LEMMA RecordKeeps == Typed /\ CacheInv /\ Record => CacheInv'
<1>. SUFFICES ASSUME Typed, CacheInv, Record PROVE CacheInv'
  OBVIOUS
<1>1. /\ at = "record" /\ stage \in Parts \ {"tools"} /\ fp \in Fingerprints
      /\ UNCHANGED <<out, dotconfig, mixed, leftover>>
  BY DEF Record, Typed, Placed, Holding, histVars
<1>2. /\ Kept' = [Kept EXCEPT ![stage] = fp] /\ entries' = Kept' /\ Kept'[stage] = fp
  BY <1>1, RecordWrites DEF Record, Keys
<1>3. /\ \A c \in Parts : c # stage => Kept'[c] = Kept[c]
      /\ Kept'["busybox-config"] = Kept["busybox-config"]
  <2>1. "busybox-config" \notin Parts
    BY PartsAssumption DEF AllParts
  <2>. QED  BY <1>1, <1>2, <2>1, KeptType DEF Entries, Keys
<1>4. Building /\ Reading' /\ \A c : Doubtful(c)' = Doubtful(c)
  BY <1>1, <1>2 DEF Building, Reading, Doubtful
<1>5. Sound'
  <2>1. SUFFICES ASSUME NEW c \in Parts \ {"tools"}, Kept'[c] # None, ~ Doubtful(c),
                        c = "busybox" => Kept'[c].also = Kept["busybox-config"]
                 PROVE  out[c] = None \/ Matches(c, out[c], Kept'[c])
    BY <1>1, <1>3, <1>4 DEF Sound, Matches
  <2>2. CASE c = stage
    BY <1>1, <1>2, <2>1, <2>2 DEF CacheInv, Made
  <2>3. CASE c # stage
    BY <1>3, <2>1, <2>3 DEF CacheInv, Sound
  <2>. QED  BY <2>2, <2>3
<1>6. CASE stage = "busybox"
  <2>1. at' = "record config" /\ UNCHANGED <<stage, fp, hash>>
    BY <1>6 DEF Record
  <2>2. AtBusyBox /\ AtBusyBox' /\ Doubtful(stage)' = Doubtful(stage)
    BY <1>1, <1>6, <2>1 DEF AtBusyBox, Doubtful
  <2>3. Chosen' /\ Configured' /\ Made'
    BY <1>1, <1>2, <1>3, <1>4, <2>1, <2>2
       DEF CacheInv, Chosen, Configured, Made, Building, Matches
  <2>. QED  BY <1>4, <1>5, <2>3 DEF CacheInv
<1>7. CASE stage # "busybox"
  <2>1. /\ at' \in {"idle", "sources", "compile", "assemble", "publish"}
        /\ at' = "compile" => stage' = "tools"
    BY <1>7, AdvancePlaces DEF Record
  <2>2. ~ Building' /\ ~ AtBusyBox' /\ ~ AtBusyBox
    BY <1>7, <2>1 DEF Building, AtBusyBox
  <2>3. Chosen' /\ Made' /\ Configured'
    BY <1>1, <1>3, <2>1, <2>2 DEF Chosen, Made, Configured, CacheInv
  <2>. QED  BY <1>4, <1>5, <2>3 DEF CacheInv
<1>. QED  BY <1>6, <1>7

LEMMA RecordConfigKeeps == Typed /\ CacheInv /\ RecordConfig => CacheInv'
<1>. SUFFICES ASSUME Typed, CacheInv, RecordConfig PROVE CacheInv'
  OBVIOUS
<1>1. /\ at = "record config" /\ stage = "busybox" /\ "busybox" \in Parts /\ hash \in Configs
      /\ UNCHANGED <<out, dotconfig, mixed, leftover>>
  BY DEF RecordConfig, Typed, Placed, Holding, histVars
<1>2. /\ Kept' = [Kept EXCEPT !["busybox-config"] = hash] /\ entries' = Kept'
      /\ Kept'["busybox-config"] = hash
  BY <1>1, RecordWrites DEF RecordConfig, Keys
<1>3. \A c \in Parts : Kept'[c] = Kept[c]
  <2>1. "busybox-config" \notin Parts
    BY PartsAssumption DEF AllParts
  <2>. QED  BY <1>1, <1>2, <2>1, KeptType DEF Entries, Keys
<1>4. /\ at' \in {"idle", "sources", "compile", "assemble", "publish"}
      /\ at' = "compile" => stage' = "tools"
  BY AdvancePlaces DEF RecordConfig
<1>5. Building /\ AtBusyBox /\ ~ Building' /\ ~ AtBusyBox'
  BY <1>1, <1>4 DEF Building, AtBusyBox
<1>6. Reading' /\ Chosen' /\ Made'
  BY <1>1, <1>2, <1>4, <1>5 DEF Reading, Chosen, Made
<1>7. Configured'
  BY <1>1, <1>2, <1>5, <1>4 DEF CacheInv, Configured
<1>8. Sound'
  <2>1. SUFFICES ASSUME NEW c \in Parts \ {"tools"}, Kept[c] # None, ~ Doubtful(c)
                 PROVE  out[c] = None \/ Matches(c, out[c], Kept[c])
                        \/ (c = "busybox" /\ Kept[c].also # hash)
    BY <1>1, <1>2, <1>3 DEF Sound, Doubtful, Matches
  <2>2. CASE c = "busybox"
    BY <1>1, <1>5, <2>1, <2>2 DEF CacheInv, Chosen, Made
  <2>3. CASE c # "busybox"
    BY <1>1, <2>1, <2>3 DEF CacheInv, Sound
  <2>. QED  BY <2>2, <2>3
<1>. QED  BY <1>6, <1>7, <1>8 DEF CacheInv

LEMMA StopKeeps == Typed /\ CacheInv /\ Stop => CacheInv'
<1>. SUFFICES ASSUME Typed, CacheInv, Stop PROVE CacheInv'
  OBVIOUS
<1>1. /\ at # "idle" /\ at' = "idle" /\ entries = Kept
      /\ disk' = disk \/ disk' = Torn
      /\ mixed' = IF Replaced THEN mixed \cup {stage} ELSE mixed
  BY DEF Stop, End, CacheInv, Reading
<1>2. leftover' = (leftover \/ (stage = "busybox"
        /\ \/ at \in {"compile", "record", "record config"} /\ entries["busybox-config"] # hash
           \/ dotconfig' = Half))
  BY DEF Stop
<1>3. Kept' = Kept \/ Kept' = NoEntries
  BY <1>1 DEF Kept, Opened
<1>4. /\ Kept' = Kept \/ \A c \in Parts : Kept'[c] = None
      /\ Kept'["busybox-config"] \in {None, Kept["busybox-config"]}
  BY <1>3 DEF NoEntries, Keys
<1>5. /\ ~ AtBusyBox' /\ ~ Building' /\ Reading' /\ Chosen' /\ Made'
  BY <1>1 DEF AtBusyBox, Building, Reading, Chosen, Made
<1>6. Configured'
  <2>1. SUFFICES ASSUME ~ leftover'
                 PROVE  dotconfig' = None \/ Kept'["busybox-config"] \in {None, dotconfig'}
    BY <1>5, <1>1 DEF Configured
  <2>2. dotconfig' \in {dotconfig, None}
    <3>1. dotconfig' = Half => stage # "busybox"
      BY <1>2, <2>1
    <3>2. at = "prepare" => stage = "busybox"
      BY DEF Typed, Placed
    <3>. QED  BY <3>1, <3>2 DEF Stop
  <2>3. AtBusyBox => Kept["busybox-config"] = hash
    BY <1>1, <1>2, <2>1 DEF AtBusyBox
  <2>. QED  BY <1>2, <1>4, <2>1, <2>2, <2>3 DEF CacheInv, Configured
<1>7. \A c \in Parts : c # stage => out'[c] = out[c]
  <2>1. CASE at = "compile" \/ Resetting(stage)
    BY <2>1 DEF Stop, Typed, TypeOK
  <2>2. CASE ~ (at = "compile" \/ Resetting(stage))
    BY <2>2 DEF Stop
  <2>. QED  BY <2>1, <2>2
<1>8. Sound'
  <2>1. SUFFICES ASSUME NEW c \in Parts \ {"tools"}, Kept'[c] # None, ~ Doubtful(c)',
                        c = "busybox" => Kept'[c].also = Kept'["busybox-config"]
                 PROVE  out'[c] = None \/ Matches(c, out'[c], Kept'[c])
    BY DEF Sound, Matches
  <2>2. Kept' = Kept /\ ~ Doubtful(c)
    BY <1>1, <1>2, <1>4, <2>1 DEF Doubtful
  <2>3. CASE c # stage \/ at # "record"
    <3>1. out[c] = None \/ Matches(c, out[c], Kept[c])
      BY <2>1, <2>2, <2>3 DEF CacheInv, Sound
    <3>2. c = stage => out'[c] \in {out[c], None}
      BY <1>1, <2>1, PartsAssumption DEF Doubtful, Replaced, Cached
    <3>. QED  BY <1>7, <2>2, <3>1, <3>2
  <2>4. CASE c = stage /\ at = "record"
    <3>1. ~ Replaced
      BY <1>1, <2>1, <2>4 DEF Doubtful
    <3>2. Kept[c] = fp /\ out'[c] \in {out[c], None}
      BY <1>1, <2>1, <2>4, <3>1, PartsAssumption DEF Replaced, Cached
    <3>. QED  BY <2>2, <2>4, <3>2 DEF CacheInv, Made
  <2>. QED  BY <2>3, <2>4
<1>. QED  BY <1>5, <1>6, <1>8 DEF CacheInv

LEMMA StepCache == Typed /\ CacheInv /\ [Next]_vars => CacheInv'
<1>. SUFFICES ASSUME Typed, CacheInv, [Next]_vars PROVE CacheInv'
  OBVIOUS
<1>1. ASSUME NEW c \in Parts, NEW e \in Edits \cup {None}, Edit(c, e) PROVE CacheInv'
  BY <1>1, QuietKeeps DEF Edit, Remember, buildVars, fileVars
<1>2. ASSUME NEW C \in SUBSET Parts, NEW h \in Heads, Checkout(C, h) PROVE CacheInv'
  BY <1>2, QuietKeeps DEF Checkout, Remember, buildVars, fileVars
<1>3. ASSUME NEW k \in Configs, EditConfig(k) PROVE CacheInv'
  BY <1>3, QuietKeeps DEF EditConfig, Remember, buildVars, fileVars
<1>4. CASE PrepareSources
  BY <1>4, QuietKeeps DEF PrepareSources, Remember, fileVars, AtBusyBox, CacheInv, Reading
<1>5. ASSUME NEW h \in Heads, Release(h) PROVE CacheInv'
  BY <1>5, QuietKeeps DEF Release, buildVars, fileVars, histVars
<1>6. CASE UNCHANGED vars
  BY <1>6, QuietKeeps DEF vars, userVars, buildVars, fileVars, histVars
<1>7. CASE CannotUpdate
  BY <1>7, QuietKeeps DEF CannotUpdate, End, AtBusyBox, userVars, fileVars, histVars
<1>8. CASE Missing
  BY <1>8, QuietKeeps DEF Missing, End, AtBusyBox, userVars, fileVars, histVars
<1>9. ASSUME Assemble \/ Publish PROVE CacheInv'
  <2>1. /\ at' \in {"idle", "sources", "compile", "assemble", "publish"}
        /\ at' = "compile" => stage' = "tools"
    BY <1>9, AdvancePlaces DEF Assemble, Publish
  <2>2. ~ AtBusyBox /\ entries' = Kept
    BY <1>9 DEF Assemble, Publish, AtBusyBox, CacheInv, Reading
  <2>. QED  BY <1>9, <2>1, <2>2, QuietKeeps DEF Assemble, Publish, userVars, fileVars, histVars
<1>. QED  BY <1>1, <1>2, <1>3, <1>4, <1>5, <1>6, <1>7, <1>8, <1>9, StartKeeps, SkipKeeps,
             RebuildKeeps, PrepareKeeps, CompileKeeps, RecordKeeps, RecordConfigKeeps,
             StopKeeps DEF Next

\* is_fresh() is right about the output, but for Doubtful's causes.
LEMMA FreshShows ==
  ASSUME Typed, CacheInv, at = "check", stage \in Parts \ {"tools"}, entries = Kept,
         ResetIfConfigChanged(stage), is_fresh(stage)
  PROVE  /\ UNCHANGED <<out, leftover>>
         /\ ~ Doubtful(stage) => Shows(stage, out[stage])
<1>1. Kept[stage] = Fingerprint(stage) /\ out'[stage] # None
  BY DEF is_fresh
<1>2. ~ Resetting(stage)
  BY <1>1 DEF ResetIfConfigChanged, Resetting, Typed, TypeOK
<1>3. UNCHANGED <<out, leftover>>
  BY <1>2 DEF ResetIfConfigChanged
<1>4. Kept[stage] # None
  BY <1>1, PrintType, FilesAssumption DEF Typed, TypeOK
<1>5. stage = "busybox" => Kept[stage].also = Kept["busybox-config"]
  BY <1>1, <1>2 DEF Resetting, Fingerprint
<1>6. ~ Doubtful(stage) => Matches(stage, out[stage], Fingerprint(stage))
  BY <1>1, <1>3, <1>4, <1>5 DEF CacheInv, Sound
<1>. QED  BY <1>3, <1>6, MatchesShows

\* A part is skipped only when its output is that of the sources (is_fresh()).
THEOREM SkipsAreSound == Spec => SkippedIsCurrent
<1>1. Typed /\ CacheInv /\ [Next]_vars =>
        [Skip => Doubtful(stage) \/ Shows(stage, out[stage])]_vars
  <2>1. SUFFICES ASSUME Typed, CacheInv, Skip, ~ Doubtful(stage)
                 PROVE  Shows(stage, out[stage])
    OBVIOUS
  <2>2. stage \in Parts \ {"tools"} /\ entries = Kept
    BY <2>1 DEF Skip, Typed, Placed, CacheInv, Reading
  <2>. QED  BY <2>1, <2>2, FreshShows DEF Skip
<1>. QED  BY <1>1, InitTyped, StepTyped, InitCache, StepCache, PTL DEF Spec, SkippedIsCurrent

-----------------------------------------------------------------------------
(* What is shipped                                                         *)

\* The root file system comes after every part, and the ISO after everything.
LEMMA OrderFacts ==
  /\ \A c \in Parts : <<c, "rootfs">> \in Before
  /\ \A s : <<"iso", s>> \notin Before
<1>1. /\ Order[1] = "kernel" /\ Order[2] = "busybox" /\ Order[3] = "util-linux"
      /\ Order[4] = "parted" /\ Order[5] = "systemd" /\ Order[6] = "rust"
      /\ Order[7] = "login" /\ Order[8] = "tools" /\ Order[9] = "rootfs" /\ Order[10] = "iso"
  BY DEF Order
<1>2. ASSUME NEW i \in 1..10, NEW j \in (i + 1)..10 PROVE <<Order[i], Order[j]>> \in Before
  BY DEF Before
<1>3. ASSUME NEW i \in 1..8 PROVE <<Order[i], "rootfs">> \in Before
  <2>1. i \in 1..10 /\ 9 \in (i + 1)..10
    OBVIOUS
  <2>. QED  BY <1>1, <1>2, <2>1
<1>4. ASSUME NEW c \in AllParts PROVE \E i \in 1..8 : Order[i] = c
  BY <1>1 DEF AllParts
<1>5. \A c \in Parts : <<c, "rootfs">> \in Before
  BY <1>3, <1>4, PartsAssumption
<1>6. ASSUME NEW s, <<"iso", s>> \in Before PROVE FALSE
  <2>1. PICK i \in 1..10 : \E j \in (i + 1)..10 : <<"iso", s>> = <<Order[i], Order[j]>>
    BY <1>6 DEF Before
  <2>2. PICK j \in (i + 1)..10 : <<"iso", s>> = <<Order[i], Order[j]>>
    BY <2>1
  <2>3. Order[i] = "iso"
    BY <2>2
  <2>4. i = 10
    BY <1>1, <2>3
  <2>. QED  BY <2>2, <2>4
<1>. QED  BY <1>5, <1>6

\* A part of this build that was not edited since its check is up to date, once
\* it is built.
Uptodate ==
  at # "idle" => \A c \in steady :
    \/ stage = c /\ at \in {"prepare", "compile"}
    \/ Doubtful(c) \/ Shows(c, out[c])

\* Its fingerprint is the one that will be recorded.
Attuned == Building /\ stage \in steady => fp = Fingerprint(stage)

\* The archive the ISO is made of is that of the outputs.
Packed ==
  at = "publish" /\ target \in {"all", "fast"} =>
    initramfs \in {Half, [c \in Parts \ {"kernel"} |-> out[c]]}

ShipInv == Uptodate /\ Attuned /\ Packed

LEMMA InitShip == Init => ShipInv
  BY DEF Init, ShipInv, Uptodate, Attuned, Packed, Building

\* The ISO comes right after the root file system, when both were asked for.
LEMMA IsoAfterRootfs ==
  ASSUME target \in {"all", "fast"}, stage \in Parts, Advance
  PROVE  at' # "publish"
<1>1. "rootfs" \in {s \in Pipeline(target) : <<stage, s>> \in Before}
  BY OrderFacts DEF Pipeline, Stages
<1>2. ASSUME stage' = "iso" PROVE FALSE
  BY <1>1, <1>2, OrderFacts DEF Advance, GoTo
<1>. QED  BY <1>2, AdvancePlaces

LEMMA StartsBeforeIso ==
  ASSUME NEW t \in {"all", "fast"}, GoTo(Pipeline(t))
  PROVE  at' # "publish"
<1>1. "rootfs" \in Pipeline(t)
  BY DEF Pipeline, Stages
<1>2. ASSUME stage' = "iso" PROVE FALSE
  BY <1>1, <1>2, OrderFacts DEF GoTo
<1>. QED  BY <1>2, PipelineType, GoToPlaces

LEMMA NothingAfterIso ==
  ASSUME stage = "iso", Advance
  PROVE  at' = "idle"
<1>1. {s \in Pipeline(target) : <<stage, s>> \in Before} = {}
  BY OrderFacts
<1>. QED  BY <1>1 DEF Advance, GoTo

\* The outputs and what they are compared with stay as they are.
LEMMA UptodateStays ==
  ASSUME Typed, ShipInv, UNCHANGED <<src, config, out, mixed, leftover, steady>>,
         at # "idle", at \notin {"prepare", "compile"} \/ UNCHANGED <<at, stage>>
  PROVE  Uptodate'
<1>1. \A c \in Parts : Doubtful(c)' = Doubtful(c) /\ Shows(c, out[c])' = Shows(c, out[c])
  BY DEF Fingerprint, Status, Shows, Doubtful
<1>2. steady \subseteq Parts
  BY DEF Typed, TypeOK
<1>. QED  BY <1>1, <1>2 DEF ShipInv, Uptodate

LEMMA EditsShip ==
  ASSUME Typed, ShipInv, Remember,
         UNCHANGED <<stage, entries, fp, hash, fileVars, imageVars, target>>,
         at' = at \/ (at = "sources" /\ at' = "check")
  PROVE  ShipInv'
<1>1. steady' \subseteq steady /\ steady \subseteq Parts
  BY DEF Remember, Typed, TypeOK
<1>2. Uptodate'
  <2>1. SUFFICES ASSUME at # "idle", NEW c \in steady',
                        ~ (stage = c /\ at \in {"prepare", "compile"}), ~ Doubtful(c)'
                 PROVE  Shows(c, out[c])'
    BY DEF Uptodate
  <2>2. Fingerprint(c)' = Fingerprint(c) /\ mixed' = mixed /\ leftover' = leftover
    BY <1>1 DEF Remember
  <2>3. ~ Doubtful(c)
    BY <2>1, <2>2 DEF Doubtful
  <2>4. Shows(c, out[c]) /\ c \in Parts
    BY <1>1, <2>1, <2>3 DEF ShipInv, Uptodate
  <2>. QED  BY <2>2, <2>4, SamePrint DEF fileVars
<1>3. Attuned'
  <2>1. ASSUME stage \in steady' PROVE Fingerprint(stage)' = Fingerprint(stage)
    BY <2>1 DEF Remember
  <2>2. Building' => Building
    BY DEF Building
  <2>. QED  BY <1>1, <2>1, <2>2 DEF ShipInv, Attuned
<1>4. Packed'
  BY DEF ShipInv, Packed, fileVars, imageVars
<1>. QED  BY <1>2, <1>3, <1>4 DEF ShipInv

\* devtool has gone on to another stage: nothing is being built.
LEMMA AdvanceRests ==
  ASSUME Advance
  PROVE  ~ Building' /\ at' # "prepare"
  BY AdvancePlaces DEF Building

LEMMA SkipShips == Typed /\ CacheInv /\ ShipInv /\ Skip => ShipInv'
<1>. SUFFICES ASSUME Typed, CacheInv, ShipInv, Skip PROVE ShipInv'
  OBVIOUS
<1>1. /\ at = "check" /\ stage \in Parts \ {"tools"} /\ Advance
      /\ steady' = steady \cup {stage}
      /\ UNCHANGED <<src, config, mixed, target, initramfs>>
  BY DEF Skip, Typed, Placed, userVars, imageVars
<1>2. UNCHANGED <<out, leftover>>
  BY <1>1, FreshShows DEF Skip, CacheInv, Reading
<1>4. Doubtful(stage) \/ Shows(stage, out[stage])
  BY <1>1, FreshShows DEF Skip, CacheInv, Reading
<1>5. \A c : Doubtful(c)' = Doubtful(c) /\ Shows(c, out[c])' = Shows(c, out[c])
  BY <1>1, <1>2 DEF Fingerprint, Status, Shows, Doubtful
<1>6. Uptodate'
  BY <1>1, <1>4, <1>5 DEF ShipInv, Uptodate
<1>. QED  BY <1>1, <1>6, AdvanceRests, IsoAfterRootfs DEF ShipInv, Attuned, Packed

LEMMA RebuildShips == Typed /\ ShipInv /\ Rebuild => ShipInv'
<1>. SUFFICES ASSUME Typed, ShipInv, Rebuild PROVE ShipInv'
  OBVIOUS
<1>1. /\ at = "check" /\ stage' = stage /\ stage \in Parts
      /\ at' \in {"prepare", "compile"}
      /\ fp' = Fingerprint(stage) /\ steady' = steady \cup {stage}
      /\ UNCHANGED <<src, config, target, initramfs>>
  BY DEF Rebuild, Typed, Placed, userVars, imageVars
<1>2. \A c : Fingerprint(c)' = Fingerprint(c)
  BY <1>1 DEF Fingerprint, Status
<1>3. ASSUME NEW c \in Parts, c # stage
      PROVE  out'[c] = out[c] /\ mixed' = mixed /\ (c = "busybox" => leftover' = leftover)
  BY <1>3 DEF Rebuild, ResetIfConfigChanged, Resetting, Typed, TypeOK
<1>4. Uptodate'
  <2>1. SUFFICES ASSUME NEW c \in steady, c # stage, ~ Doubtful(c)' PROVE Shows(c, out[c])'
    BY <1>1 DEF Uptodate
  <2>2. c \in Parts
    BY DEF Typed, TypeOK
  <2>3. ~ Doubtful(c)
    BY <1>2, <1>3, <2>1, <2>2 DEF Doubtful
  <2>4. Shows(c, out[c])
    BY <1>1, <2>1, <2>3 DEF ShipInv, Uptodate
  <2>. QED  BY <1>1, <1>3, <2>1, <2>2, <2>4 DEF Shows
<1>. QED  BY <1>1, <1>2, <1>4 DEF ShipInv, Attuned, Packed

LEMMA PrepareShips == Typed /\ ShipInv /\ PrepareConfig => ShipInv'
<1>. SUFFICES ASSUME Typed, ShipInv, PrepareConfig PROVE ShipInv'
  OBVIOUS
<1>1. /\ at = "prepare" /\ at' = "compile" /\ stage = "busybox"
      /\ UNCHANGED <<src, config, out, mixed, steady, stage, fp>>
  BY DEF PrepareConfig, Typed, Placed, userVars
<1>2. \A c : Fingerprint(c)' = Fingerprint(c) /\ Shows(c, out[c])' = Shows(c, out[c])
  BY <1>1 DEF Fingerprint, Status, Shows
<1>3. Uptodate'
  BY <1>1, <1>2 DEF ShipInv, Uptodate, Doubtful
<1>. QED  BY <1>1, <1>2, <1>3 DEF ShipInv, Attuned, Building, Packed

LEMMA CompileShips == Typed /\ CacheInv /\ ShipInv /\ Compile => ShipInv'
<1>. SUFFICES ASSUME Typed, CacheInv, ShipInv, Compile PROVE ShipInv'
  OBVIOUS
<1>1. /\ at = "compile" /\ stage \in Parts
      /\ UNCHANGED <<src, config, leftover, target, initramfs>>
      /\ \A c \in Parts : out'[c] = IF c = stage THEN Built(stage) ELSE out[c]
  BY DEF Compile, Typed, TypeOK, Placed, userVars, imageVars
<1>2. \A c, o : Shows(c, o)' = Shows(c, o) /\ Fingerprint(c)' = Fingerprint(c)
  BY <1>1 DEF Fingerprint, Status, Shows
<1>3. \A c : c # stage \/ stage = "tools" => (Doubtful(c)' <=> Doubtful(c))
  BY <1>1 DEF Compile, Doubtful, Typed, TypeOK
<1>4. steady' = IF stage = "tools" THEN steady \cup {"tools"} ELSE steady
  BY DEF Compile
<1>5. Uptodate'
  <2>1. SUFFICES ASSUME NEW c \in steady', ~ Doubtful(c)' PROVE Shows(c, out'[c])
    BY <1>2 DEF Uptodate, Shows
  <2>2. c \in Parts
    BY <1>1, <1>4 DEF Typed, TypeOK
  <2>3. CASE c = stage
    <3>1. stage = "busybox" => ~ leftover /\ fp = Fingerprint(stage)
      <4>1. SUFFICES ASSUME stage = "busybox"
                     PROVE  ~ leftover /\ fp = Fingerprint(stage)
        OBVIOUS
      <4>2. stage \in steady
        BY <1>4, <2>3, <4>1
      <4>3. fp = Fingerprint(stage)
        BY <1>1, <4>1, <4>2 DEF ShipInv, Attuned, Building
      <4>. QED  BY <1>1, <2>1, <2>3, <4>1, <4>3 DEF Doubtful
    <3>2. Shows(stage, Built(stage))
      BY <1>1, <3>1, BuiltShows
    <3>. QED  BY <1>1, <2>2, <2>3, <3>2
  <2>4. CASE c # stage
    <3>1. c \in steady /\ ~ Doubtful(c)
      BY <1>3, <1>4, <2>1, <2>4
    <3>2. Shows(c, out[c])
      BY <1>1, <3>1, <2>4 DEF ShipInv, Uptodate
    <3>. QED  BY <1>1, <2>2, <2>4, <3>2
  <2>. QED  BY <2>3, <2>4
<1>6. CASE stage = "tools"
  <2>1. Advance
    BY <1>6 DEF Compile
  <2>. QED  BY <1>1, <1>5, <2>1, AdvanceRests, IsoAfterRootfs DEF ShipInv, Attuned, Packed
<1>7. CASE stage # "tools"
  <2>1. at' = "record" /\ UNCHANGED <<stage, fp, steady>>
    BY <1>7 DEF Compile
  <2>2. Building
    BY <1>1, <1>7 DEF Building
  <2>. QED  BY <1>2, <1>5, <2>1, <2>2 DEF ShipInv, Attuned, Packed
<1>. QED  BY <1>6, <1>7

LEMMA RecordShips == Typed /\ ShipInv /\ (Record \/ RecordConfig) => ShipInv'
<1>. SUFFICES ASSUME Typed, ShipInv, Record \/ RecordConfig PROVE ShipInv'
  OBVIOUS
<1>1. /\ at \in {"record", "record config"} /\ stage \in Parts
      /\ UNCHANGED <<src, config, out, mixed, leftover, steady, target, initramfs>>
  BY DEF Record, RecordConfig, Typed, Placed, userVars, imageVars, histVars
<1>2. Uptodate'
  BY <1>1, UptodateStays
<1>3. CASE Advance
  BY <1>1, <1>2, <1>3, AdvanceRests, IsoAfterRootfs DEF ShipInv, Attuned, Packed
<1>4. CASE at = "record" /\ stage = "busybox" /\ at' = "record config" /\ UNCHANGED <<stage, fp>>
  <2>1. Fingerprint(stage)' = Fingerprint(stage) /\ Building
    BY <1>1, <1>4 DEF Fingerprint, Status, Building
  <2>. QED  BY <1>1, <1>2, <1>4, <2>1 DEF ShipInv, Attuned, Packed
<1>. QED  BY <1>3, <1>4 DEF Record, RecordConfig

LEMMA ImagesShip == Typed /\ ShipInv /\ (Assemble \/ Publish) => ShipInv'
<1>. SUFFICES ASSUME Typed, ShipInv, Assemble \/ Publish PROVE ShipInv'
  OBVIOUS
<1>1. /\ at \in {"assemble", "publish"} /\ Advance
      /\ UNCHANGED <<src, config, out, mixed, leftover, steady>>
  BY DEF Assemble, Publish, userVars, fileVars, histVars
<1>2. Uptodate' /\ Attuned'
  BY <1>1, UptodateStays, AdvanceRests DEF Attuned
<1>3. Packed'
  <2>1. CASE Assemble
    BY <1>1, <2>1 DEF Assemble, Packed
  <2>2. CASE Publish
    BY <2>2, <1>1, NothingAfterIso DEF Publish, Typed, Placed, Packed
  <2>. QED  BY <2>1, <2>2
<1>. QED  BY <1>2, <1>3 DEF ShipInv

LEMMA StepShip == Typed /\ CacheInv /\ ShipInv /\ [Next]_vars => ShipInv'
<1>. SUFFICES ASSUME Typed, CacheInv, ShipInv, [Next]_vars PROVE ShipInv'
  OBVIOUS
<1>1. ASSUME NEW c \in Parts, NEW e \in Edits \cup {None}, Edit(c, e) PROVE ShipInv'
  BY <1>1, EditsShip DEF Edit, buildVars
<1>2. ASSUME NEW C \in SUBSET Parts, NEW h \in Heads, Checkout(C, h) PROVE ShipInv'
  BY <1>2, EditsShip DEF Checkout, buildVars
<1>3. ASSUME NEW k \in Configs, EditConfig(k) PROVE ShipInv'
  BY <1>3, EditsShip DEF EditConfig, buildVars
<1>4. CASE PrepareSources
  BY <1>4, EditsShip DEF PrepareSources
<1>5. ASSUME UNCHANGED <<src, config, buildVars, fileVars, imageVars, histVars>> PROVE ShipInv'
  <2>1. \A c : Fingerprint(c)' = Fingerprint(c)
    BY <1>5 DEF Fingerprint, Status
  <2>2. Uptodate'
    <3>1. CASE at = "idle"
      BY <1>5, <3>1 DEF Uptodate, buildVars
    <3>2. CASE at # "idle"
      BY <1>5, <3>2, UptodateStays DEF buildVars, fileVars, histVars
    <3>. QED  BY <3>1, <3>2
  <2>. QED  BY <1>5, <2>1, <2>2
            DEF ShipInv, Attuned, Building, Packed, buildVars, fileVars, imageVars, histVars
<1>6. ASSUME NEW h \in Heads, Release(h) PROVE ShipInv'
  BY <1>5, <1>6 DEF Release
<1>7. CASE UNCHANGED vars
  BY <1>5, <1>7 DEF vars, userVars
<1>8. ASSUME NEW t \in Asked, NEW force \in BOOLEAN, StartBuild(t, force) PROVE ShipInv'
  <2>1. steady' = {} /\ target' = t /\ GoTo(Pipeline(t))
    BY <1>8 DEF StartBuild
  <2>2. t \in {"all", "fast"} => at' # "publish"
    BY <2>1, StartsBeforeIso
  <2>. QED  BY <2>1, <2>2 DEF ShipInv, Uptodate, Attuned, Packed
<1>9. ASSUME at' = "idle" PROVE ShipInv'
  BY <1>9 DEF ShipInv, Uptodate, Attuned, Building, Packed
<1>10. ASSUME CannotUpdate \/ Missing \/ Stop PROVE ShipInv'
  BY <1>9, <1>10 DEF CannotUpdate, Missing, Stop, End
<1>. QED  BY <1>1, <1>2, <1>3, <1>4, <1>6, <1>7, <1>8, <1>10, SkipShips, RebuildShips,
             PrepareShips, CompileShips, RecordShips, ImagesShip DEF Next

\* A finished build ships every part as its sources are (rootfs::build(),
\* initramfs::build() and iso::build() after the parts).
THEOREM ImagesAreCurrent == Spec => ShippedIsCurrent
<1>1. Typed /\ ShipInv /\ [Next]_vars =>
        [Publish /\ target \in {"all", "fast"} =>
           \/ dist' = Half
           \/ \A c \in steady : Doubtful(c) \/ Shows(c, dist'[c])]_vars
  <2>1. SUFFICES ASSUME Typed, ShipInv, Publish, target \in {"all", "fast"}, dist' # Half,
                        NEW c \in steady, ~ Doubtful(c)
                 PROVE  Shows(c, dist'[c])
    OBVIOUS
  <2>2. at = "publish" /\ stage = "iso" /\ c \in Parts
    BY <2>1 DEF Publish, Typed, TypeOK, Placed
  <2>3. Shows(c, out[c])
    BY <2>1, <2>2 DEF ShipInv, Uptodate
  <2>4. initramfs = [d \in Parts \ {"kernel"} |-> out[d]]
    BY <2>1, <2>2 DEF Publish, ShipInv, Packed
  <2>5. dist'[c] = out[c]
    BY <2>1, <2>2, <2>4 DEF Publish
  <2>. QED  BY <2>3, <2>5
<1>. QED  BY <1>1, InitTyped, StepTyped, InitCache, StepCache, InitShip, StepShip, PTL
          DEF Spec, ShippedIsCurrent
=============================================================================
