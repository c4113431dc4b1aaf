-------------------------- MODULE PowerEventsProofs --------------------------
(***************************************************************************)
(* Theorems of PowerEvents, for any number of commands and of crashes.     *)
(***************************************************************************)
EXTENDS PowerEvents, TLAPS

\* What handle_client() knows at each of its steps: whom it serves, that this
\* command has written a word power::verb() knows, what "ok" stands for, and that the
\* machine is on; and that somebody listens behind a socket that is not left over.
Serving ==
  /\ service = "serving" => power = "on"
  /\ phase # "idle" => service = "serving"
  /\ phase # "idle" => current \in Clients
  /\ phase \in {"cleanup", "transition"} => current \in sent /\ word[current] # "junk"
  /\ phase = "reply" => outcome \in {"ok", "error"}
  /\ phase = "reply" /\ outcome = "ok" => verb(word[current]) \in jobs
  /\ path = "live" /\ power = "on" => service = "serving"

Inv == TypeOK /\ Serving /\ OkMeansQueued /\ OnlyWhatWasAsked

\* A word that parse_action() accepts names a transition.
LEMMA VerbIsKnown ==
  ASSUME NEW w \in Words, w # "junk"
  PROVE  verb(w) \in Verbs
BY DEF Words, Verbs, verb

\* In the initial state nobody is served and nothing is queued.
LEMMA InvInit == Init => Inv
<1> SUFFICES ASSUME Init PROVE Inv
    OBVIOUS
<1>1. TypeOK
  BY CrashAssumption DEF Init, TypeOK
<1>2. Serving /\ OkMeansQueued /\ OnlyWhatWasAsked
  BY DEF Init, Serving, OkMeansQueued, OnlyWhatWasAsked, Verbs
<1> QED
  BY <1>1, <1>2 DEF Inv

\* The commands: none of their steps answers a command or queues a transition.
LEMMA InvCommand ==
  ASSUME Inv, NEW c \in Clients, Command(c)
  PROVE  Inv'
<1> USE DEF Inv, Become, clientVars, threadVars, systemdVars
<1>1. TypeOK'
  <2>1. CASE StartCommand(c)
    BY <2>1 DEF StartCommand, TypeOK
  <2>2. CASE DelayEnds(c)
    BY <2>2 DEF DelayEnds, TypeOK
  <2>3. CASE Connect(c)
    BY <2>3 DEF Connect, TypeOK
  <2>4. CASE WriteWord(c)
    BY <2>4 DEF WriteWord, TypeOK
  <2>5. CASE Interrupt(c)
    BY <2>5 DEF Interrupt, TypeOK
  <2>6. CASE ForceDown(c)
    BY <2>6 DEF ForceDown, ToIdle, TypeOK
  <2>7. CASE ForceFails(c)
    BY <2>7 DEF ForceFails, TypeOK
  <2> QED
    BY <2>1, <2>2, <2>3, <2>4, <2>5, <2>6, <2>7 DEF Command
<1>2. /\ \A b \in Clients : client'[b] = "ok" => client[b] = "ok"
      /\ sent \subseteq sent'
      /\ UNCHANGED <<word, jobs>>
      /\ phase' = "idle" \/ UNCHANGED <<current, phase, outcome>>
  BY DEF Command, StartCommand, DelayEnds, Connect, WriteWord, Interrupt, ForceDown,
         ForceFails, ToIdle, TypeOK
<1>3. Serving'
  <2>1. service' = "serving" => service = "serving" /\ power' = power
    BY DEF Command, StartCommand, DelayEnds, Connect, WriteWord, Interrupt, ForceDown,
           ForceFails
  <2>2. phase' # "idle" => service' = service
    BY DEF Command, StartCommand, DelayEnds, Connect, WriteWord, Interrupt, ForceDown,
           ForceFails, ToIdle
  <2>3. path' = path /\ (power' = "forced" \/ (power' = power /\ service' = service))
    BY DEF Command, StartCommand, DelayEnds, Connect, WriteWord, Interrupt, ForceDown,
           ForceFails
  <2> QED
    BY <1>2, <2>1, <2>2, <2>3 DEF Serving, verb
<1>4. OkMeansQueued'
  BY <1>2 DEF OkMeansQueued, verb
<1>5. OnlyWhatWasAsked'
  <2>1. power' = power \/ (power' = "forced" /\ client'[c] = "forced")
    BY DEF Command, StartCommand, DelayEnds, Connect, WriteWord, Interrupt, ForceDown,
           ForceFails, TypeOK
  <2>2. power = "on"
    BY DEF Command, StartCommand, DelayEnds, Connect, WriteWord, Interrupt, ForceDown,
           ForceFails
  <2> QED
    BY <1>2, <2>1, <2>2 DEF OnlyWhatWasAsked, Verbs, verb
<1> QED
  BY <1>1, <1>3, <1>4, <1>5

\* accept() and handle_client(): "ok" is sent only after StopServices.
LEMMA InvThread ==
  ASSUME Inv, Accept \/ HandleClient
  PROVE  Inv'
<1> USE DEF Inv, ToIdle, clientVars, systemdVars
<1>1. CASE Accept
  <2>1. Head(backlog) \in Clients /\ Tail(backlog) \in Seq(Clients)
    BY <1>1 DEF Accept, TypeOK
  <2>2. TypeOK'
    BY <1>1, <2>1 DEF Accept, TypeOK
  <2>3. Serving' /\ OkMeansQueued' /\ OnlyWhatWasAsked'
    BY <1>1, <2>1 DEF Accept, Serving, OkMeansQueued, OnlyWhatWasAsked, verb
  <2> QED
    BY <2>2, <2>3
<1>2. CASE ReadWord
  <2>1. current \in Clients /\ word[current] \in Words
    BY <1>2 DEF ReadWord, Serving, TypeOK
  <2>2. TypeOK'
    BY <1>2 DEF ReadWord, TypeOK
  <2>3. Serving' /\ OkMeansQueued' /\ OnlyWhatWasAsked'
    BY <1>2, <2>1 DEF ReadWord, Serving, OkMeansQueued, OnlyWhatWasAsked, verb,
                      Verbs, Words
  <2> QED
    BY <2>2, <2>3
<1>3. CASE ReadEnds
  <2>1. TypeOK'
    BY <1>3 DEF ReadEnds, Hangup, TypeOK
  <2>2. Serving' /\ OkMeansQueued' /\ OnlyWhatWasAsked'
    BY <1>3 DEF ReadEnds, Hangup, Serving, OkMeansQueued, OnlyWhatWasAsked, verb
  <2> QED
    BY <2>1, <2>2
<1>4. CASE CleanupRuntime
  <2>1. TypeOK'
    BY <1>4 DEF CleanupRuntime, TypeOK
  <2>2. Serving' /\ OkMeansQueued' /\ OnlyWhatWasAsked'
    BY <1>4 DEF CleanupRuntime, Serving, OkMeansQueued, OnlyWhatWasAsked, verb
  <2> QED
    BY <2>1, <2>2
<1>5. CASE StopServices
  <2>1. current \in Clients /\ current \in sent
    BY <1>5 DEF StopServices, Serving
  <2>2. verb(word[current]) \in Verbs
    BY <1>5, <2>1, VerbIsKnown DEF StopServices, Serving, TypeOK
  <2>3. TypeOK'
    BY <1>5, <2>2 DEF StopServices, TypeOK
  <2>4. Serving'
    BY <1>5, <2>1 DEF StopServices, Serving, verb
  <2>5. OkMeansQueued'
    BY <1>5 DEF StopServices, OkMeansQueued, verb
  <2>6. OnlyWhatWasAsked'
    BY <1>5, <2>1 DEF StopServices, OnlyWhatWasAsked, verb
  <2> QED
    BY <2>3, <2>4, <2>5, <2>6
<1>6. CASE StopServicesFails
  <2>1. current \in sent /\ verb(word[current]) \in Verbs
    BY <1>6, VerbIsKnown DEF StopServicesFails, Serving, TypeOK
  <2>2. TypeOK'
    BY <1>6, <2>1 DEF StopServicesFails, TypeOK
  <2>3. Serving' /\ OkMeansQueued' /\ OnlyWhatWasAsked'
    BY <1>6, <2>1 DEF StopServicesFails, Serving, OkMeansQueued, OnlyWhatWasAsked, verb
  <2> QED
    BY <2>2, <2>3
<1>7. CASE Reply
  <2>1. current \in Clients /\ outcome \in {"ok", "error"}
    BY <1>7 DEF Reply, Serving
  <2>2. TypeOK'
    BY <1>7, <2>1 DEF Reply, Become, TypeOK
  <2>3. Serving' /\ OnlyWhatWasAsked'
    BY <1>7 DEF Reply, Serving, OnlyWhatWasAsked, verb
  <2>4. OkMeansQueued'
    BY <1>7, <2>1 DEF Reply, Become, Serving, OkMeansQueued, TypeOK, verb
  <2> QED
    BY <2>2, <2>3, <2>4
<1> QED
  BY <1>1, <1>2, <1>3, <1>4, <1>5, <1>6, <1>7 DEF HandleClient

\* The process and systemd: a dead service has answered nobody wrongly, and a
\* queued transition is not taken back.
LEMMA InvSystemd ==
  ASSUME Inv, Bind \/ BindFails \/ LoginExits \/ StopLogin \/ Transition
  PROVE  Inv'
<1> USE DEF Inv, ToIdle, clientVars, threadVars, systemdVars
<1>1. CASE Bind \/ BindFails \/ Transition
  <2>1. TypeOK'
    BY <1>1, CrashAssumption DEF Bind, BindFails, Transition, TypeOK
  <2>2. Serving' /\ OkMeansQueued' /\ OnlyWhatWasAsked'
    <3>1. CASE Bind \/ BindFails
      BY <1>1, <3>1 DEF Bind, BindFails, Serving, OkMeansQueued, OnlyWhatWasAsked, verb
    <3>2. CASE Transition
      <4>1. power' \in jobs /\ power' # "on" /\ power' # "forced" /\ power = "on"
        BY <3>2 DEF Transition, TypeOK, Verbs
      <4> QED
        BY <3>2, <4>1 DEF Transition, Serving, OkMeansQueued, OnlyWhatWasAsked, verb
    <3> QED
      BY <1>1, <3>1, <3>2
  <2> QED
    BY <2>1, <2>2
<1>2. CASE LoginExits \/ StopLogin
  <2>1. TypeOK'
    <3>1. backlog' = <<>> /\ current' = NoClient /\ phase' = "idle" /\ outcome' = "none"
      BY <1>2 DEF LoginExits, StopLogin, ProcessEnds
    <3>6. backlog' \in Seq(Clients)
      BY <3>1
    <3>2. client' \in [Clients -> {"idle", "scheduled", "starting", "connected", "waiting",
                                  "interrupted", "ok", "error", "failed", "forced"}]
      BY <1>2 DEF LoginExits, StopLogin, ProcessEnds, Hangup, TypeOK
    <3>3. service' \in {"down", "stopped"} /\ path' \in {"none", "live", "stale"}
      BY <1>2 DEF LoginExits, StopLogin, ProcessEnds, TypeOK
    <3>4. crashes' \in 0..MaxCrashes
      BY <1>2, CrashAssumption DEF LoginExits, StopLogin, ProcessEnds, TypeOK
    <3>5. UNCHANGED <<word, sent, jobs, power>>
      BY <1>2 DEF LoginExits, StopLogin, ProcessEnds
    <3> QED
      BY <3>1, <3>2, <3>3, <3>4, <3>5, <3>6 DEF TypeOK
  <2>2. Serving' /\ OkMeansQueued' /\ OnlyWhatWasAsked'
    BY <1>2 DEF LoginExits, StopLogin, ProcessEnds, Hangup, Serving, OkMeansQueued,
                OnlyWhatWasAsked, verb
  <2> QED
    BY <2>1, <2>2
<1> QED
  BY <1>1, <1>2

\* Inv is inductive.
LEMMA InvNext == Inv /\ [Next]_vars => Inv'
<1> SUFFICES ASSUME Inv, [Next]_vars PROVE Inv'
    OBVIOUS
<1>1. CASE Next
  BY <1>1, InvCommand, InvThread, InvSystemd DEF Next
<1>2. CASE UNCHANGED vars
  BY <1>2 DEF vars, clientVars, threadVars, systemdVars, Inv, TypeOK, Serving,
              OkMeansQueued, OnlyWhatWasAsked, verb
<1> QED
  BY <1>1, <1>2

-----------------------------------------------------------------------------
(* The queue: every open connection is served or waits, once               *)

\* The queue behaves like one.
LEMMA QueueGrows ==
  ASSUME NEW S, NEW s \in Seq(S), NEW e \in S
  PROVE  /\ DOMAIN s = 1..Len(s) /\ Len(s) \in Nat
         /\ DOMAIN Append(s, e) = 1..(Len(s) + 1)
         /\ \A i \in DOMAIN Append(s, e) :
              Append(s, e)[i] = IF i \in DOMAIN s THEN s[i] ELSE e
OBVIOUS

LEMMA QueueShrinks ==
  ASSUME NEW S, NEW s \in Seq(S), s # <<>>
  PROVE  /\ DOMAIN s = 1..Len(s) /\ Len(s) \in Nat \ {0} /\ Head(s) = s[1]
         /\ DOMAIN Tail(s) = 1..(Len(s) - 1)
         /\ \A i \in DOMAIN Tail(s) : Tail(s)[i] = s[i + 1]
OBVIOUS

\* What a command has not written yet is not in its connection; what is being carried
\* out was written.
Said ==
  /\ \A c \in sent : client[c] \notin {"idle", "scheduled", "starting", "connected"}
  /\ phase \in {"cleanup", "transition", "reply"} => current \in sent

Queue == Said /\ NobodyIsForgotten

LEMMA QueueInit == Init => Queue
BY DEF Init, Queue, Said, NobodyIsForgotten, Open, Served

\* Steps that change neither the queue nor who has a connection.
LEMMA QueueKept ==
  ASSUME NobodyIsForgotten, Open' = Open, UNCHANGED backlog, Served' = Served,
         service' = service \/ service' = "serving"
  PROVE  NobodyIsForgotten'
BY DEF NobodyIsForgotten

\* Steps after which nobody has a connection.
LEMMA QueueEmptied ==
  ASSUME Open' = {}, backlog' = <<>>, phase' = "idle"
  PROVE  NobodyIsForgotten'
BY DEF NobodyIsForgotten, Served

LEMMA QueueCommand ==
  ASSUME Inv, Queue, NEW c \in Clients, Command(c)
  PROVE  Queue'
<1> USE DEF Inv, Queue, Become, clientVars, threadVars, systemdVars
<1>1. CASE StartCommand(c) \/ DelayEnds(c) \/ ForceFails(c)
  <2>1. Open' = Open /\ UNCHANGED <<backlog, current, phase, service>>
    BY <1>1 DEF StartCommand, DelayEnds, ForceFails, Open, TypeOK
  <2>2. NobodyIsForgotten'
    BY <2>1, QueueKept DEF Served
  <2>3. Said'
    BY <1>1 DEF StartCommand, DelayEnds, ForceFails, Said, TypeOK
  <2> QED
    BY <2>2, <2>3
<1>2. CASE WriteWord(c) \/ Interrupt(c)
  <2>1. Open' = Open /\ UNCHANGED <<backlog, current, phase, service>>
    BY <1>2 DEF WriteWord, Interrupt, Open, TypeOK
  <2>2. NobodyIsForgotten'
    BY <2>1, QueueKept DEF Served
  <2>3. Said'
    BY <1>2 DEF WriteWord, Interrupt, Said, TypeOK
  <2> QED
    BY <2>2, <2>3
<1>3. CASE ForceDown(c)
  <2>1. Open' = {} /\ backlog' = <<>> /\ phase' = "idle"
    BY <1>3 DEF ForceDown, Open, ToIdle, TypeOK
  <2>2. Said'
    BY <1>3 DEF ForceDown, ToIdle, Said, Open, TypeOK
  <2> QED
    BY <2>1, <2>2, QueueEmptied
<1>4. CASE Connect(c)
  <2>1. Said'
    BY <1>4 DEF Connect, Said, TypeOK
  <2>2. CASE path = "live"
    <3>1. Open' = Open \cup {c} /\ c \notin Open
      BY <1>4, <2>2 DEF Connect, Open, TypeOK
    <3>2. backlog' = Append(backlog, c) /\ backlog \in Seq(Clients) /\ Served' = Served
      BY <1>4, <2>2 DEF Connect, TypeOK, Served
    <3>3. /\ DOMAIN backlog = 1..Len(backlog) /\ Len(backlog) \in Nat
          /\ DOMAIN backlog' = 1..(Len(backlog) + 1)
          /\ \A i \in DOMAIN backlog' :
               backlog'[i] = IF i \in DOMAIN backlog THEN backlog[i] ELSE c
      BY <3>2, QueueGrows
    <3>4. /\ c \notin Served
          /\ \A i \in DOMAIN backlog : backlog[i] # c
      BY <3>1 DEF NobodyIsForgotten
    <3>5. Open' = Served' \cup {backlog'[i] : i \in DOMAIN backlog'}
      <4>1. {backlog'[i] : i \in DOMAIN backlog'} = {backlog[i] : i \in DOMAIN backlog} \cup {c}
        <5>1. Len(backlog) + 1 \in DOMAIN backlog' /\ Len(backlog) + 1 \notin DOMAIN backlog
              /\ DOMAIN backlog \subseteq DOMAIN backlog'
          BY <3>3
        <5> QED
          BY <3>3, <5>1
      <4> QED
        BY <3>1, <3>2, <4>1 DEF NobodyIsForgotten
    <3>6. service' = "serving"
      BY <1>4, <2>2 DEF Connect, Serving
    <3> QED
      BY <2>1, <3>2, <3>3, <3>4, <3>5, <3>6 DEF NobodyIsForgotten
  <2>3. CASE path # "live"
    <3>1. Open' = Open /\ UNCHANGED <<backlog, current, phase, service>>
      BY <1>4, <2>3 DEF Connect, Open, TypeOK
    <3> QED
      BY <2>1, <3>1, QueueKept DEF Served
  <2> QED
    BY <2>2, <2>3
<1> QED
  BY <1>1, <1>2, <1>3, <1>4 DEF Command

LEMMA QueueThread ==
  ASSUME Inv, Queue, Accept \/ HandleClient
  PROVE  Queue'
<1> USE DEF Inv, Queue, clientVars, systemdVars
<1>1. CASE Accept
  <2>1. /\ DOMAIN backlog = 1..Len(backlog) /\ Len(backlog) \in Nat \ {0}
        /\ current' = backlog[1] /\ DOMAIN backlog' = 1..(Len(backlog) - 1)
        /\ \A i \in DOMAIN backlog' : backlog'[i] = backlog[i + 1]
    BY <1>1, QueueShrinks DEF Accept, TypeOK
  <2>2. Served = {} /\ Served' = {backlog[1]} /\ Open' = Open /\ service' = service
    BY <1>1, <2>1 DEF Accept, Served, Open
  <2>3. Open = {backlog[i] : i \in DOMAIN backlog} /\ 1 \in DOMAIN backlog
    BY <2>1, <2>2 DEF NobodyIsForgotten
  <2>4. \A i \in DOMAIN backlog : i = 1 \/ (i - 1 \in DOMAIN backlog' /\ backlog'[i - 1] = backlog[i])
    BY <2>1
  <2>5. \A i \in DOMAIN backlog' : i + 1 \in DOMAIN backlog
    BY <2>1
  <2>6. Open' = Served' \cup {backlog'[i] : i \in DOMAIN backlog'}
    <3>1. ASSUME NEW b \in Open PROVE b \in Served' \cup {backlog'[i] : i \in DOMAIN backlog'}
      BY <2>2, <2>3, <2>4, <3>1
    <3>2. ASSUME NEW b \in Served' \cup {backlog'[i] : i \in DOMAIN backlog'} PROVE b \in Open
      BY <2>1, <2>2, <2>3, <2>5, <3>2
    <3> QED
      BY <2>2, <3>1, <3>2
  <2>7. \A i, j \in DOMAIN backlog' : backlog'[i] = backlog'[j] => i = j
    <3> SUFFICES ASSUME NEW i \in DOMAIN backlog', NEW j \in DOMAIN backlog',
                        backlog'[i] = backlog'[j]
                 PROVE  i = j
      OBVIOUS
    <3>1. i + 1 = j + 1
      BY <2>1, <2>5 DEF NobodyIsForgotten
    <3> QED
      BY <2>1, <3>1
  <2>8. \A i \in DOMAIN backlog' : backlog'[i] \notin Served'
    <3> SUFFICES ASSUME NEW i \in DOMAIN backlog', backlog'[i] = backlog[1] PROVE FALSE
      BY <2>2
    <3>1. i + 1 = 1
      BY <2>1, <2>3, <2>5 DEF NobodyIsForgotten
    <3> QED
      BY <2>1, <3>1
  <2>9. Said'
    BY <1>1 DEF Accept, Said
  <2> QED
    BY <1>1, <2>2, <2>6, <2>7, <2>8, <2>9 DEF Accept, NobodyIsForgotten
<1>2. CASE ReadWord \/ CleanupRuntime \/ StopServices \/ StopServicesFails
  <2>1. Open' = Open /\ Served' = Served /\ UNCHANGED <<backlog, service>>
    BY <1>2 DEF ReadWord, CleanupRuntime, StopServices, StopServicesFails, Open, Served
  <2>2. Said'
    BY <1>2 DEF ReadWord, CleanupRuntime, StopServices, StopServicesFails, Said
  <2> QED
    BY <2>1, <2>2, QueueKept
<1>3. CASE ReadEnds \/ Reply
  <2>1. /\ current \in Clients /\ Served = {current} /\ Served' = {}
        /\ UNCHANGED <<backlog, service, sent>> /\ phase' = "idle"
    BY <1>3 DEF ReadEnds, Reply, ToIdle, Served, Serving
  <2>2. /\ client'[current] \in {"ok", "error", "failed"}
        /\ \A b \in Clients \ {current} : client'[b] = client[b]
    <3>1. current \in Open
      BY <2>1 DEF NobodyIsForgotten
    <3>2. CASE ReadEnds
      BY <2>1, <3>1, <3>2 DEF ReadEnds, Hangup
    <3>3. CASE Reply
      BY <2>1, <3>3 DEF Reply, Become, Serving, TypeOK
    <3> QED
      BY <1>3, <3>2, <3>3
  <2>3. Open' = Open \ {current}
    BY <2>1, <2>2 DEF Open
  <2>4. NobodyIsForgotten'
    BY <2>1, <2>3 DEF NobodyIsForgotten
  <2>5. Said'
    <3>1. \A b \in sent : b \in Clients
      BY DEF TypeOK
    <3> QED
      BY <2>1, <2>2, <3>1 DEF Said
  <2> QED
    BY <2>4, <2>5
<1> QED
  BY <1>1, <1>2, <1>3 DEF HandleClient

LEMMA QueueSystemd ==
  ASSUME Inv, Queue, Bind \/ BindFails \/ LoginExits \/ StopLogin \/ Transition
  PROVE  Queue'
<1> USE DEF Inv, Queue, clientVars, threadVars, systemdVars
<1>1. CASE Bind \/ BindFails \/ Transition
  <2>1. /\ Open' = Open /\ Served' = Served /\ UNCHANGED backlog
        /\ service' = service \/ service' = "serving"
    BY <1>1 DEF Bind, BindFails, Transition, Open, Served
  <2>2. Said'
    BY <1>1 DEF Bind, BindFails, Transition, Said
  <2> QED
    BY <2>1, <2>2, QueueKept
<1>2. CASE LoginExits \/ StopLogin
  <2>1. /\ backlog' = <<>> /\ phase' = "idle" /\ sent' = sent
        /\ client' = [c \in Clients |-> IF c \in Open THEN "failed" ELSE client[c]]
    <3>1. Clients \cap Open = Open
      BY DEF Open
    <3> QED
      BY <1>2, <3>1 DEF LoginExits, StopLogin, ProcessEnds, ToIdle, Hangup
  <2>2. Open' = {}
    BY <2>1 DEF Open
  <2>3. Said'
    BY <2>1 DEF Said, TypeOK
  <2> QED
    BY <2>1, <2>2, <2>3, QueueEmptied
<1> QED
  BY <1>1, <1>2

LEMMA QueueNext == Inv /\ Queue /\ [Next]_vars => Queue'
<1> SUFFICES ASSUME Inv, Queue, [Next]_vars PROVE Queue'
  OBVIOUS
<1>1. CASE UNCHANGED vars
  BY <1>1 DEF vars, clientVars, threadVars, systemdVars, Queue, Said, NobodyIsForgotten,
              Open, Served
<1> QED
  BY <1>1, QueueCommand, QueueThread, QueueSystemd DEF Next

LEMMA QueueAlways == Spec => [](Inv /\ Queue)
BY InvInit, InvNext, QueueInit, QueueNext, PTL DEF Spec

-----------------------------------------------------------------------------
(* The answer comes closer                                                 *)

LEMMA PlaceInQueue ==
  ASSUME NobodyIsForgotten, NEW i \in DOMAIN backlog
  PROVE  Place(backlog[i]) = i
BY DEF Place, NobodyIsForgotten

\* Whoever has a connection is served, or has a place behind those before it.
Situated ==
  \A c \in Open :
    \/ c = current /\ phase # "idle" /\ c \in Served /\ Distance(c) = StepsLeft
    \/ /\ c \notin Served /\ Place(c) \in DOMAIN backlog /\ backlog[Place(c)] = c
       /\ Distance(c) = StepsLeft + 5 * Place(c)

LEMMA ServedOrQueued == NobodyIsForgotten => Situated
<1> SUFFICES ASSUME NobodyIsForgotten, NEW c \in Open
             PROVE  \/ c = current /\ phase # "idle" /\ c \in Served
                       /\ Distance(c) = StepsLeft
                    \/ /\ c \notin Served /\ Place(c) \in DOMAIN backlog
                       /\ backlog[Place(c)] = c
                       /\ Distance(c) = StepsLeft + 5 * Place(c)
  BY DEF Situated
<1>1. CASE c \in Served
  <2>1. c = current /\ phase # "idle"
    BY <1>1 DEF Served
  <2>2. StepsLeft + 0 = StepsLeft
    BY DEF StepsLeft
  <2> QED
    BY <1>1, <2>1, <2>2 DEF Distance
<1>2. CASE c \notin Served
  <2>1. PICK i \in DOMAIN backlog : backlog[i] = c
    BY <1>2 DEF NobodyIsForgotten
  <2>2. Place(c) = i
    BY <2>1, PlaceInQueue
  <2> QED
    BY <1>2, <2>1, <2>2 DEF Distance
<1> QED
  BY <1>1, <1>2

LEMMA Closer ==
  ASSUME Inv, Queue, Queue', Next, NEW c \in Open, c \in Open'
  PROVE  IF UNCHANGED <<current, phase>> THEN Distance(c)' = Distance(c)
                                         ELSE Distance(c)' < Distance(c)
<1>0. /\ \/ c = current /\ phase # "idle" /\ c \in Served /\ Distance(c) = StepsLeft
         \/ /\ c \notin Served /\ Place(c) \in DOMAIN backlog /\ backlog[Place(c)] = c
            /\ Distance(c) = StepsLeft + 5 * Place(c)
      /\ \/ c = current' /\ phase' # "idle" /\ c \in Served' /\ Distance(c)' = StepsLeft'
         \/ /\ c \notin Served' /\ Place(c)' \in DOMAIN backlog' /\ backlog'[Place(c)'] = c
            /\ Distance(c)' = StepsLeft' + 5 * Place(c)'
  <2>1. (NobodyIsForgotten => Situated)'
    BY ServedOrQueued, PTL
  <2>2. Situated /\ Situated'
    BY <2>1, ServedOrQueued DEF Queue
  <2> QED
    BY <2>2 DEF Situated
<1>1. /\ DOMAIN backlog = 1..Len(backlog) /\ Len(backlog) \in Nat /\ backlog \in Seq(Clients)
      /\ StepsLeft \in 0..4 /\ StepsLeft' \in 0..4
  BY DEF Inv, TypeOK, StepsLeft
<1>2. ASSUME UNCHANGED <<current, phase, backlog>>
      PROVE  Distance(c)' = Distance(c)
  BY <1>2 DEF Distance, StepsLeft, Served, Place
<1>3. CASE \E b \in Clients : Command(b)
  <2>1. PICK b \in Clients : Command(b)
    BY <1>3
  <2>2. CASE ForceDown(b)
    <3>1. Open' = {}
      BY <2>2 DEF ForceDown, Open, Inv, TypeOK
    <3> QED
      BY <3>1
  <2>3. CASE Connect(b) /\ path = "live"
    <3>1. /\ backlog' = Append(backlog, b) /\ UNCHANGED <<current, phase>> /\ b \notin Open
      BY <2>3 DEF Connect, Open
    <3>2. /\ DOMAIN backlog \subseteq DOMAIN backlog'
          /\ \A i \in DOMAIN backlog : backlog'[i] = backlog[i]
      BY <1>1, <3>1, QueueGrows
    <3>3. Served' = Served /\ StepsLeft' = StepsLeft
      BY <3>1 DEF Served, StepsLeft
    <3>4. CASE c \in Served
      BY <1>0, <3>1, <3>3, <3>4
    <3>5. CASE c \notin Served
      <4>1. Place(c) \in DOMAIN backlog' /\ backlog'[Place(c)] = c
        BY <1>0, <3>2, <3>5
      <4>2. Place(c)' = Place(c)
        BY <1>0, <3>3, <3>5, <4>1 DEF Queue, NobodyIsForgotten
      <4> QED
        BY <1>0, <3>1, <3>3, <3>5, <4>2
    <3> QED
      BY <3>4, <3>5
  <2>4. CASE ~ForceDown(b) /\ ~(Connect(b) /\ path = "live")
    <3>1. UNCHANGED <<current, phase, backlog>>
      BY <2>1, <2>4 DEF Command, StartCommand, DelayEnds, Connect, WriteWord, Interrupt,
                        ForceFails, threadVars
    <3> QED
      BY <1>2, <3>1
  <2> QED
    BY <2>2, <2>3, <2>4
<1>4. CASE Accept
  <2>1. /\ DOMAIN backlog = 1..Len(backlog) /\ Len(backlog) \in Nat \ {0}
        /\ current' = backlog[1] /\ DOMAIN backlog' = 1..(Len(backlog) - 1)
        /\ \A i \in DOMAIN backlog' : backlog'[i] = backlog[i + 1]
    BY <1>4, QueueShrinks DEF Accept, Inv, TypeOK
  <2>2. phase = "idle" /\ phase' = "read" /\ StepsLeft = 0 /\ StepsLeft' = 4 /\ Served = {}
    BY <1>4 DEF Accept, StepsLeft, Served
  <2>3. Place(c) \in 1..Len(backlog) /\ Distance(c) = 5 * Place(c)
    BY <1>0, <1>1, <2>2
  <2>4. CASE c \in Served'
    BY <1>0, <2>2, <2>3, <2>4
  <2>5. CASE c \notin Served'
    <3>1. /\ Place(c)' \in 1..(Len(backlog) - 1) /\ backlog[Place(c)' + 1] = c
          /\ Place(c)' + 1 \in DOMAIN backlog
      BY <1>0, <2>1, <2>5
    <3>2. Place(c) = Place(c)' + 1
      BY <1>0, <2>2, <3>1 DEF Queue, NobodyIsForgotten
    <3> QED
      BY <1>0, <2>2, <2>3, <2>5, <3>1, <3>2
  <2> QED
    BY <2>4, <2>5
<1>5. CASE HandleClient
  <2>1. UNCHANGED backlog /\ phase' # phase
    BY <1>5 DEF HandleClient, ReadWord, ReadEnds, CleanupRuntime, StopServices,
                StopServicesFails, Reply, ToIdle
  <2>2. StepsLeft' < StepsLeft
    BY <1>5 DEF HandleClient, ReadWord, ReadEnds, CleanupRuntime, StopServices,
                StopServicesFails, Reply, ToIdle, StepsLeft
  <2>3. CASE phase' = "idle"
    <3>1. ReadEnds \/ Reply
      BY <1>5, <2>3 DEF HandleClient, ReadWord, CleanupRuntime, StopServices,
                        StopServicesFails
    <3>2. current \notin Open'
      <4>1. Served' = {} /\ current \in Served /\ UNCHANGED backlog
        BY <2>1, <2>3, <3>1 DEF Served, ReadEnds, Reply
      <4> QED
        BY <4>1 DEF Queue, NobodyIsForgotten
    <3>3. c \notin Served /\ c \notin Served'
      BY <3>2, <2>3 DEF Served
    <3>4. Place(c)' = Place(c)
      BY <2>1 DEF Place
    <3>5. Place(c) \in 1..Len(backlog)
      BY <1>0, <1>1, <3>3
    <3> QED
      BY <1>0, <1>1, <2>1, <2>2, <3>3, <3>4, <3>5
  <2>4. CASE phase' # "idle"
    <3>1. UNCHANGED current
      BY <1>5, <2>4 DEF HandleClient, ReadWord, ReadEnds, CleanupRuntime, StopServices,
                        StopServicesFails, Reply, ToIdle
    <3>2. phase # "idle"
      BY <1>5 DEF HandleClient, ReadWord, ReadEnds, CleanupRuntime, StopServices,
                  StopServicesFails, Reply
    <3>3. Served' = Served /\ Place(c)' = Place(c)
      BY <2>1, <2>4, <3>1, <3>2 DEF Served, Place
    <3>4. CASE c \in Served
      BY <1>0, <2>1, <2>2, <3>3, <3>4
    <3>5. CASE c \notin Served
      <4>1. Place(c) \in 1..Len(backlog)
        BY <1>0, <1>1, <3>5
      <4> QED
        BY <1>0, <1>1, <2>1, <2>2, <3>3, <3>5, <4>1
    <3> QED
      BY <3>4, <3>5
  <2> QED
    BY <2>3, <2>4
<1>6. CASE Bind \/ BindFails \/ Transition
  BY <1>2, <1>6 DEF Bind, BindFails, Transition, threadVars
<1>7. CASE LoginExits \/ StopLogin
  <2>1. client' = [b \in Clients |-> IF b \in Clients \cap Open THEN "failed" ELSE client[b]]
    BY <1>7 DEF LoginExits, StopLogin, ProcessEnds, Hangup
  <2>2. Open' = {}
    BY <2>1 DEF Open
  <2> QED
    BY <2>2
<1> QED
  BY <1>3, <1>4, <1>5, <1>6, <1>7 DEF Next

-----------------------------------------------------------------------------
(* PowerEvents implements PowerService                                     *)

\* The steps of which PowerService knows nothing.
LEMMA Hidden ==
  ASSUME UNCHANGED <<word, sent, jobs, power>>,
         \A c \in Clients : Answer(c)' = Answer(c)
  PROVE  UNCHANGED Service!vars
BY DEF Service!vars

\* Commands that had no answer fail, the others keep theirs.
LEMMA Failing ==
  ASSUME UNCHANGED <<word, sent, jobs, power>>, power = "on",
         \A c \in Clients : Answer(c)' = Answer(c) \/ (Answer(c) = "none" /\ Answer(c)' = "failed")
  PROVE  Service!Next
<1> DEFINE old == [c \in Clients |-> Answer(c)]
           cs == {c \in Clients : Answer(c) = "none" /\ Answer(c)' = "failed"}
<1>1. cs \in SUBSET {c \in Clients : old[c] = "none"}
  OBVIOUS
<1>2. [c \in Clients |-> Answer(c)]' = [c \in Clients |-> IF c \in cs THEN "failed" ELSE old[c]]
  OBVIOUS
<1>3. Service!Fail
  BY <1>1, <1>2 DEF Service!Fail, Service!Pending
<1> QED
  BY <1>3 DEF Service!Next

\* The process of senbit-login ends: no command that had an answer is told another.
LEMMA Hanging ==
  ASSUME TypeOK, NEW cs, Hangup(cs)
  PROVE  \A c \in Clients : Answer(c)' = Answer(c) \/ (Answer(c) = "none" /\ Answer(c)' = "failed")
BY DEF Hangup, Answer, Open, TypeOK

LEMMA ServiceCommand ==
  ASSUME Inv, Queue, NEW c \in Clients, Command(c)
  PROVE  [Service!Next]_(Service!vars)
<1> USE DEF Inv, clientVars, threadVars, systemdVars
<1>1. CASE StartCommand(c) \/ DelayEnds(c) \/ (Connect(c) /\ path = "live")
  <2>1. UNCHANGED <<word, sent, jobs, power>> /\ \A b \in Clients : Answer(b)' = Answer(b)
    BY <1>1 DEF StartCommand, DelayEnds, Connect, Become, Answer, TypeOK
  <2> QED
    BY <2>1, Hidden
<1>2. CASE ForceFails(c) \/ Interrupt(c) \/ (Connect(c) /\ path # "live")
  <2>1. /\ UNCHANGED <<word, sent, jobs, power>> /\ power = "on"
        /\ \A b \in Clients : Answer(b)' = Answer(b) \/ (Answer(b) = "none" /\ Answer(b)' = "failed")
    BY <1>2 DEF ForceFails, Interrupt, Connect, Become, Answer, TypeOK
  <2> QED
    BY <2>1, Failing
<1>3. CASE WriteWord(c)
  <2>1. \A b \in Clients : Answer(b)' = Answer(b)
    BY <1>3 DEF WriteWord, Become, Answer, TypeOK
  <2>2. Answer(c) = "none" /\ power = "on"
    BY <1>3 DEF WriteWord, Answer
  <2>3. Service!Ask(c)
    BY <1>3, <2>1, <2>2 DEF WriteWord, Service!Ask, Service!Pending
  <2> QED
    BY <2>2, <2>3 DEF Service!Next, Service!Step
<1>4. CASE ForceDown(c)
  <2> DEFINE old == [b \in Clients |-> Answer(b)]
             cs == {b \in Clients \ {c} : Answer(b) = "none" /\ Answer(b)' = "failed"}
  <2>1. /\ Answer(c) = "none" /\ Answer(c)' = "forced"
        /\ \A b \in Clients \ {c} :
             Answer(b)' = Answer(b) \/ (Answer(b) = "none" /\ Answer(b)' = "failed")
    BY <1>4 DEF ForceDown, Open, Answer, TypeOK
  <2>2. [b \in Clients |-> Answer(b)]'
          = [b \in Clients |-> IF b = c THEN "forced" ELSE IF b \in cs THEN "failed" ELSE old[b]]
    BY <2>1
  <2>3. cs \in SUBSET ({b \in Clients : old[b] = "none"} \ {c}) /\ c \notin sent
    BY <1>4 DEF ForceDown, Queue, Said
  <2>4. power = "on" /\ power' = "forced" /\ UNCHANGED <<word, sent, jobs>>
    BY <1>4 DEF ForceDown
  <2>5. Service!Force(c)
    BY <2>1, <2>2, <2>3, <2>4 DEF Service!Force, Service!Pending
  <2> QED
    BY <2>4, <2>5 DEF Service!Next, Service!Step
<1> QED
  BY <1>1, <1>2, <1>3, <1>4 DEF Command

LEMMA ServiceThread ==
  ASSUME Inv, Queue, Accept \/ HandleClient
  PROVE  [Service!Next]_(Service!vars)
<1> USE DEF Inv, clientVars, systemdVars
<1>0. power = "on"
  BY DEF Accept, HandleClient, ReadWord, ReadEnds, CleanupRuntime, StopServices,
         StopServicesFails, Reply, Serving
<1>1. CASE Accept \/ ReadWord \/ CleanupRuntime
  <2>1. UNCHANGED <<word, sent, jobs, power>> /\ \A b \in Clients : Answer(b)' = Answer(b)
    BY <1>1 DEF Accept, ReadWord, CleanupRuntime, Answer
  <2> QED
    BY <2>1, Hidden
<1>2. CASE ReadEnds
  BY <1>0, <1>2, Hanging, Failing DEF ReadEnds
<1>3. CASE StopServices \/ StopServicesFails
  <2>1. /\ current \in Clients /\ current \in sent /\ verb(word[current]) \in Verbs
        /\ UNCHANGED <<word, sent, power>>
    BY <1>3, VerbIsKnown DEF StopServices, StopServicesFails, Serving, TypeOK
  <2>2. \A b \in Clients : Answer(b)' = Answer(b)
    BY <1>3 DEF StopServices, StopServicesFails, Answer
  <2>3. CASE jobs' = jobs \cup {verb(word[current])}
    <3>1. PICK c \in Clients : c = current
      BY <2>1
    <3>2. Service!Accept(c)
      BY <2>1, <2>2, <2>3, <3>1 DEF Service!Accept
    <3> QED
      BY <1>0, <3>2 DEF Service!Next, Service!Step
  <2>4. CASE jobs' = jobs
    BY <2>1, <2>2, <2>4, Hidden
  <2> QED
    BY <1>3, <2>3, <2>4 DEF StopServices, StopServicesFails
<1>4. CASE Reply
  <2>1. current \in Clients /\ current \in sent /\ outcome \in {"ok", "error"}
        /\ client[current] \in {"waiting", "interrupted"}
    <3>1. current \in Clients /\ current \in sent /\ outcome \in {"ok", "error"}
      BY <1>4 DEF Reply, Serving, Queue, Said
    <3>2. current \in Open
      BY <1>4 DEF Reply, Queue, NobodyIsForgotten, Served
    <3> QED
      BY <3>1, <3>2 DEF Open, Queue, Said
  <2>2. UNCHANGED <<word, sent, jobs, power>>
    BY <1>4 DEF Reply
  <2>3. CASE client[current] = "interrupted"
    <3>1. \A b \in Clients : Answer(b)' = Answer(b)
      BY <1>4, <2>1, <2>3 DEF Reply, Become, Answer, TypeOK
    <3> QED
      BY <2>2, <3>1, Hidden
  <2>4. CASE client[current] = "waiting"
    <3>0. PICK c \in Clients : c = current
      BY <2>1
    <3>1. /\ client' = [client EXCEPT ![c] = outcome]
          /\ client[c] = "waiting" /\ c \in sent
      BY <1>4, <2>1, <2>4, <3>0 DEF Reply, Become
    <3>2. Answer(c) = "none" /\ \A b \in Clients : Answer(b)' = IF b = c THEN outcome ELSE Answer(b)
      BY <2>1, <3>1 DEF Answer, TypeOK
    <3>3. [b \in Clients |-> Answer(b)]' = [[b \in Clients |-> Answer(b)] EXCEPT ![c] = outcome]
      BY <3>2
    <3>4. CASE outcome = "ok"
      <4>1. Service!Agree(c)
        BY <1>4, <2>2, <3>0, <3>1, <3>2, <3>3, <3>4
           DEF Reply, Serving, Service!Agree, Service!Pending
      <4> QED
        BY <1>0, <4>1 DEF Service!Next, Service!Step
    <3>5. CASE outcome = "error"
      <4>1. Service!Refuse(c)
        BY <2>2, <3>1, <3>2, <3>3, <3>5 DEF Service!Refuse, Service!Pending
      <4> QED
        BY <1>0, <4>1 DEF Service!Next, Service!Step
    <3> QED
      BY <2>1, <3>4, <3>5
  <2> QED
    BY <2>1, <2>3, <2>4
<1> QED
  BY <1>1, <1>2, <1>3, <1>4 DEF HandleClient

LEMMA ServiceSystemd ==
  ASSUME Inv, Bind \/ BindFails \/ LoginExits \/ StopLogin \/ Transition
  PROVE  [Service!Next]_(Service!vars)
<1> USE DEF Inv, clientVars, threadVars
<1>1. CASE Bind \/ BindFails
  <2>1. UNCHANGED <<word, sent, jobs, power>> /\ \A b \in Clients : Answer(b)' = Answer(b)
    BY <1>1 DEF Bind, BindFails, systemdVars, Answer
  <2> QED
    BY <2>1, Hidden
<1>2. CASE LoginExits \/ StopLogin
  <2>1. UNCHANGED <<word, sent, jobs, power>> /\ power = "on" /\ Hangup(Clients)
    BY <1>2 DEF LoginExits, StopLogin, ProcessEnds, systemdVars, Serving
  <2> QED
    BY <2>1, Hanging, Failing
<1>3. CASE Transition
  <2>1. \A b \in Clients : Answer(b)' = Answer(b)
    BY <1>3 DEF Transition, Answer
  <2>2. Service!Obey /\ power = "on"
    BY <1>3, <2>1 DEF Transition, Service!Obey
  <2> QED
    BY <2>2 DEF Service!Next
<1> QED
  BY <1>1, <1>2, <1>3

LEMMA ServiceStep == Inv /\ Queue /\ [Next]_vars => [Service!Next]_(Service!vars)
<1> SUFFICES ASSUME Inv, Queue, [Next]_vars PROVE [Service!Next]_(Service!vars)
  OBVIOUS
<1>1. CASE UNCHANGED vars
  BY <1>1, Hidden DEF vars, clientVars, threadVars, systemdVars, Answer
<1> QED
  BY <1>1, ServiceCommand, ServiceThread, ServiceSystemd DEF Next

-----------------------------------------------------------------------------
(* The theorems                                                            *)

\* Every variable keeps its type.
THEOREM PowerTypeCorrect == Spec => []TypeOK
<1>1. Inv => TypeOK
  BY DEF Inv
<1> QED
  BY <1>1, InvInit, InvNext, PTL DEF Spec

\* Whatever dies, fails or is asked in between, systemd has queued the transition of
\* every command that was told "ok": nothing takes it back, not even another one.
THEOREM OkIsReliable == Spec => []OkMeansQueued
<1>1. Inv => OkMeansQueued
  BY DEF Inv
<1> QED
  BY <1>1, InvInit, InvNext, PTL DEF Spec

\* A transition that systemd has queued is one that some command wrote, and the one
\* the machine does is one of these, or that of a "-f".
THEOREM NothingUnasked == Spec => []OnlyWhatWasAsked
<1>1. Inv => OnlyWhatWasAsked
  BY DEF Inv
<1> QED
  BY <1>1, InvInit, InvNext, PTL DEF Spec

\* Whatever dies, times out or hangs up, the event thread loses no connection and
\* queues none twice: who has an open one is served or in the queue of a live process.
THEOREM ConnectionsAreKept == Spec => []NobodyIsForgotten
<1>1. Inv /\ Queue => NobodyIsForgotten
  BY DEF Queue
<1> QED
  BY <1>1, QueueAlways, PTL

\* Every step of accept() and handle_client() brings each waiting command closer to its
\* answer and nothing puts it off.  With the fairness of the event thread this is
\* why EveryRequestEnds holds, for any number of commands.
THEOREM NobodyIsOvertaken == Spec => AnswerComesCloser
<1>1. Inv /\ Queue /\ Inv' /\ Queue' /\ [Next]_vars
        => [ \A c \in Open \cap Open' :
               IF UNCHANGED <<current, phase>> THEN Distance(c)' = Distance(c)
                                               ELSE Distance(c)' < Distance(c) ]_vars
  BY Closer
<1> QED
  BY <1>1, QueueAlways, PTL DEF Spec, AnswerComesCloser

\* The power commands, the event thread and systemd implement PowerService:
\* orders that are never taken back, answers that are true and final, and nothing
\* after the machine is off.
THEOREM PowerImplementsService == Spec => ImplementsService
<1>1. Init => Service!Init
  BY DEF Init, Answer, Service!Init
<1>2. Inv /\ Queue /\ [Next]_vars => [Service!Next]_(Service!vars)
  BY ServiceStep
<1> QED
  BY <1>1, <1>2, QueueAlways, PTL DEF Spec, ImplementsService, Service!Spec
=============================================================================
