----------------------------- MODULE PowerEvents -----------------------------
(***************************************************************************)
(* The power commands (reboot, halt, poweroff, shutdown), the event thread *)
(* of senbit-login that serves them on /run/senbit.sock, and systemd, which *)
(* restarts senbit-login and carries the transition out.                   *)
(*                                                                         *)
(* A command connects, writes one word and reads the answer until EOF.  The *)
(* event thread serves one connection at a time.  Commands run as root.    *)
(***************************************************************************)
EXTENDS Naturals, Sequences

CONSTANTS
  Clients,    \* runs of a power command
  NoClient,   \* the event thread serves nobody
  MaxCrashes  \* bound: how often senbit-login exits by itself

ASSUME ClientAssumption == NoClient \notin Clients
ASSUME CrashAssumption == MaxCrashes \in Nat

Verbs == {"reboot", "halt", "poweroff"}

\* What a command writes; "junk" stands for what parse_action() refuses.
Words == Verbs \cup {"shutdown", "junk"}

\* PowerAction::verb(): "shutdown" means power off.
verb(word) == IF word = "shutdown" THEN "poweroff" ELSE word

VARIABLES
  client,     \* client[c]: where the command is
  word,       \* word[c]: what it asks for
  sent,       \* commands whose word is in their connection
  service,    \* senbit-login: "down" (to be restarted), "serving" or "stopped"
  path,       \* /run/senbit.sock: absent, "live", or left by a dead service
  backlog,    \* connections not accepted yet
  current,    \* the connection handle_client() works on
  phase,      \* where handle_client() is
  outcome,    \* result of power::request()
  jobs,       \* the transitions systemd has queued
  power,      \* the machine is "on", or has been turned off by a transition or "-f"
  crashes     \* bounded by MaxCrashes

clientVars  == <<client, word, sent>>
threadVars  == <<backlog, current, phase, outcome>>
systemdVars == <<jobs, power>>
vars == <<clientVars, threadVars, systemdVars, service, path, crashes>>

\* Connected commands; the others have not started or have ended.
Open == {c \in Clients : client[c] \in {"connected", "waiting", "interrupted"}}

TypeOK ==
  /\ client \in [Clients -> {"idle", "scheduled", "starting", "connected", "waiting",
                             "interrupted", "ok", "error", "failed", "forced"}]
  /\ word \in [Clients -> Words]
  /\ sent \in SUBSET Clients
  /\ service \in {"down", "serving", "stopped"}
  /\ path \in {"none", "live", "stale"}
  /\ backlog \in Seq(Clients)
  /\ current \in Clients \cup {NoClient}
  /\ phase \in {"idle", "read", "cleanup", "transition", "reply"}
  /\ outcome \in {"none", "ok", "error"}
  /\ jobs \in SUBSET Verbs
  /\ power \in Verbs \cup {"on", "forced"}
  /\ crashes \in 0..MaxCrashes

Init ==
  /\ client = [c \in Clients |-> "idle"]
  /\ word \in [Clients -> Words]
  /\ sent = {}
  /\ service = "down" /\ path = "none"
  /\ backlog = <<>> /\ current = NoClient /\ phase = "idle" /\ outcome = "none"
  /\ jobs = {} /\ power = "on" /\ crashes = 0

-----------------------------------------------------------------------------
(* The commands                                                            *)

Become(c, state) == client' = [client EXCEPT ![c] = state]

\* main() has read its arguments; only "shutdown +N" waits first.
StartCommand(c) ==
  /\ power = "on" /\ client[c] = "idle"
  /\ \/ Become(c, "starting")
     \/ Become(c, "scheduled") /\ word[c] # "junk"
  /\ UNCHANGED <<word, sent, threadVars, systemdVars, service, path, crashes>>

\* thread::sleep() ends.
DelayEnds(c) ==
  /\ power = "on" /\ client[c] = "scheduled"
  /\ Become(c, "starting")
  /\ UNCHANGED <<word, sent, threadVars, systemdVars, service, path, crashes>>

\* The stream is dropped: a command that still waits reads EOF, which is no "ok".
Hangup(cs) ==
  client' = [c \in Clients |-> IF c \in cs \cap Open THEN "failed" ELSE client[c]]

\* handle_client() returns and serve() takes the next connection.
ToIdle == current' = NoClient /\ phase' = "idle" /\ outcome' = "none"

\* "-f" calls reboot(2) at once, whatever the delay: every process is gone, nothing
\* is stopped or flushed first.
ForceDown(c) ==
  /\ power = "on" /\ client[c] = "idle"
  /\ power' = "forced" /\ service' = "stopped"
  /\ client' = [b \in Clients |-> IF b = c THEN "forced"
                                  ELSE IF b \in Open THEN "failed" ELSE client[b]]
  /\ ToIdle /\ backlog' = <<>>
  /\ UNCHANGED <<word, sent, jobs, path, crashes>>

\* The kernel refuses.
ForceFails(c) ==
  /\ power = "on" /\ client[c] = "idle"
  /\ Become(c, "failed")
  /\ UNCHANGED <<word, sent, threadVars, systemdVars, service, path, crashes>>

\* UnixStream::connect() needs a path somebody listens on.
Connect(c) ==
  /\ power = "on" /\ client[c] = "starting"
  /\ IF path = "live"
       THEN Become(c, "connected") /\ backlog' = Append(backlog, c)
       ELSE Become(c, "failed") /\ UNCHANGED backlog
  /\ UNCHANGED <<word, sent, current, phase, outcome, systemdVars, service, path,
                 crashes>>

WriteWord(c) ==
  /\ power = "on" /\ client[c] = "connected"
  /\ Become(c, "waiting")
  /\ sent' = sent \cup {c}
  /\ UNCHANGED <<word, threadVars, systemdVars, service, path, crashes>>

\* Ctrl-C: the connection closes, what was written stays readable.
Interrupt(c) ==
  /\ power = "on" /\ client[c] \in {"scheduled", "connected", "waiting"}
  /\ Become(c, IF client[c] = "scheduled" THEN "failed" ELSE "interrupted")
  /\ UNCHANGED <<word, sent, threadVars, systemdVars, service, path, crashes>>

-----------------------------------------------------------------------------
(* senbit-login                                                            *)

\* Mutant: the socket of a service that died is not removed first.
BindOverNothing ==
  /\ power = "on" /\ service = "down" /\ jobs = {} /\ path = "none"
  /\ service' = "serving" /\ path' = "live"
  /\ UNCHANGED <<clientVars, threadVars, systemdVars, crashes>>

\* systemd has started senbit-login: bind() removes a stale socket, binds and
\* restricts the new one; then the event thread and the login run.
Bind ==
  /\ power = "on" /\ service = "down" /\ jobs = {}
  /\ service' = "serving" /\ path' = "live"
  /\ UNCHANGED <<clientVars, threadVars, systemdVars, crashes>>

\* bind() or the thread fails: the process exits, a socket it bound stays.
BindFails ==
  /\ power = "on" /\ service = "down" /\ jobs = {} /\ crashes < MaxCrashes
  /\ crashes' = crashes + 1 /\ path' \in {"none", "stale"}
  /\ UNCHANGED <<clientVars, threadVars, systemdVars, service>>

\* Mutant: the connection that came last is served first.
AcceptLast ==
  /\ service = "serving" /\ phase = "idle" /\ backlog # <<>>
  /\ current' = backlog[Len(backlog)] /\ backlog' = SubSeq(backlog, 1, Len(backlog) - 1)
  /\ phase' = "read"
  /\ UNCHANGED <<clientVars, outcome, systemdVars, service, path, crashes>>

Accept ==
  /\ service = "serving" /\ phase = "idle" /\ backlog # <<>>
  /\ current' = Head(backlog) /\ backlog' = Tail(backlog) /\ phase' = "read"
  /\ UNCHANGED <<clientVars, outcome, systemdVars, service, path, crashes>>

\* Mutant: parse_action() takes every word.
ReadAnyWord ==
  /\ phase = "read" /\ current \in sent
  /\ phase' = "cleanup"
  /\ UNCHANGED <<clientVars, backlog, current, outcome, systemdVars, service, path,
                 crashes>>

ReadWord ==
  /\ phase = "read" /\ current \in sent
  /\ IF verb(word[current]) \in Verbs
       THEN phase' = "cleanup" /\ UNCHANGED outcome
       ELSE phase' = "reply" /\ outcome' = "error"
  /\ UNCHANGED <<clientVars, backlog, current, systemdVars, service, path, crashes>>

\* Mutant: no read timeout, only a command that went away ends the read.
ReadEndsOnEof ==
  /\ phase = "read" /\ current \notin sent /\ client[current] = "interrupted"
  /\ Hangup({current}) /\ ToIdle
  /\ UNCHANGED <<word, sent, backlog, systemdVars, service, path, crashes>>

\* Mutant: the connection stays open when its read has timed out.
ReadEndsKeepsStream ==
  /\ phase = "read" /\ current \notin sent
  /\ ToIdle
  /\ UNCHANGED <<clientVars, backlog, systemdVars, service, path, crashes>>

\* Nothing to read: the command is gone, or has not written for 5 seconds.
ReadEnds ==
  /\ phase = "read" /\ current \notin sent
  /\ Hangup({current}) /\ ToIdle
  /\ UNCHANGED <<word, sent, backlog, systemdVars, service, path, crashes>>

\* cleanup_runtime() and sync(): the path goes, the listener stays.
CleanupRuntime ==
  /\ phase = "cleanup"
  /\ path' = "none" /\ phase' = "transition"
  /\ UNCHANGED <<clientVars, backlog, current, outcome, systemdVars, service, crashes>>

\* Mutant: the exit status of systemctl is not looked at.
AnyStatusIsOk ==
  /\ phase = "transition"
  /\ jobs' \in {jobs, jobs \cup {verb(word[current])}}
  /\ outcome' = "ok" /\ phase' = "reply"
  /\ UNCHANGED <<clientVars, backlog, current, power, service, path, crashes>>

\* Mutant: every request powers the machine off.
StopServicesPoweroff ==
  /\ phase = "transition"
  /\ jobs' = jobs \cup {"poweroff"} /\ outcome' = "ok" /\ phase' = "reply"
  /\ UNCHANGED <<clientVars, backlog, current, power, service, path, crashes>>

\* systemctl --no-block: systemd queues the transition, beside another one that a
\* command has asked for.
StopServices ==
  /\ phase = "transition"
  /\ jobs' = jobs \cup {verb(word[current])} /\ outcome' = "ok" /\ phase' = "reply"
  /\ UNCHANGED <<clientVars, backlog, current, power, service, path, crashes>>

\* systemctl cannot be run, systemd refuses, or systemctl ends badly after it has
\* passed the request on.
StopServicesFails ==
  /\ phase = "transition"
  /\ jobs' \in {jobs, jobs \cup {verb(word[current])}}
  /\ outcome' = "error" /\ phase' = "reply"
  /\ UNCHANGED <<clientVars, backlog, current, power, service, path, crashes>>

\* Mutant: the answer does not look at the outcome.
ReplyOk ==
  /\ phase = "reply"
  /\ Become(current, IF client[current] = "waiting" THEN "ok" ELSE "failed")
  /\ ToIdle
  /\ UNCHANGED <<word, sent, backlog, systemdVars, service, path, crashes>>

Reply ==
  /\ phase = "reply"
  /\ Become(current, IF client[current] = "waiting" THEN outcome ELSE "failed")
  /\ ToIdle
  /\ UNCHANGED <<word, sent, backlog, systemdVars, service, path, crashes>>

\* The process is gone: the kernel closes every connection, the path stays.
ProcessEnds(state) ==
  /\ service = "serving"
  /\ service' = state
  /\ path' = IF path = "live" THEN "stale" ELSE path
  /\ Hangup(Clients) /\ ToIdle /\ backlog' = <<>>
  /\ UNCHANGED <<word, sent, systemdVars>>

\* A fatal error in the login loop ends the whole process.
LoginExits ==
  /\ crashes < MaxCrashes /\ crashes' = crashes + 1
  /\ ProcessEnds("down")

-----------------------------------------------------------------------------
(* systemd                                                                 *)

\* A queued transition stops senbit-login like every other unit ...
StopLogin ==
  /\ jobs # {}
  /\ ProcessEnds("stopped")
  /\ UNCHANGED crashes

\* ... and then one of those that are queued turns the machine off or restarts it.
Transition ==
  /\ power = "on" /\ service # "serving"
  /\ power' \in jobs
  /\ UNCHANGED <<clientVars, threadVars, jobs, service, path, crashes>>

-----------------------------------------------------------------------------

Command(c) ==
  StartCommand(c) \/ DelayEnds(c) \/ Connect(c) \/ WriteWord(c)
  \/ Interrupt(c) \/ ForceDown(c) \/ ForceFails(c)

HandleClient ==
  ReadWord \/ ReadEnds \/ CleanupRuntime \/ StopServices \/ StopServicesFails \/ Reply

Next ==
  \/ \E c \in Clients : Command(c)
  \/ Accept \/ HandleClient
  \/ Bind \/ BindFails \/ LoginExits
  \/ StopLogin \/ Transition

Spec == Init /\ [][Next]_vars

\* The event thread works on, systemd restarts the service (Restart=always, no
\* start limit) and carries out what it has queued.  A command may hang anywhere.
Fairness ==
  /\ WF_vars(Accept) /\ WF_vars(HandleClient)
  /\ WF_vars(Bind)
  /\ WF_vars(StopLogin) /\ WF_vars(Transition)

FairSpec == Spec /\ Fairness

-----------------------------------------------------------------------------
(* Properties                                                              *)

\* A command that was told "ok" can rely on it: systemd has queued the transition it
\* asked for, whatever died or was asked in the meantime.  Only another one that was
\* asked for too may come first.
OkMeansQueued == \A c \in Clients : client[c] = "ok" => verb(word[c]) \in jobs

\* The machine never goes down unasked: what systemd has queued was written by a
\* command, and the machine does one of these transitions or the one of a "-f".
OnlyWhatWasAsked ==
  /\ \A v \in jobs : \E c \in sent : verb(word[c]) = v
  /\ power \in Verbs => power \in jobs
  /\ power = "forced" => \E c \in Clients : client[c] = "forced"

\* The answer a command waits for always comes, or the connection ends, even
\* when another command has connected first and never writes.
EveryRequestEnds ==
  \A c \in Clients : client[c] = "waiting" ~> client[c] \in {"ok", "error", "failed", "interrupted"}

\* A service that exited comes back, unless the machine is going down.
ServiceComesBack == service = "down" ~> service = "serving" \/ power # "on"

\* The answer a command ends with; one that was interrupted has none to wait for.
Answer(c) ==
  IF client[c] \in {"ok", "error", "failed", "forced"} THEN client[c]
  ELSE IF client[c] = "interrupted" THEN "failed" ELSE "none"

Service ==
  INSTANCE PowerService
    WITH Orders <- Verbs,
         wanted <- [c \in Clients |-> verb(word[c])], asked <- sent,
         answer <- [c \in Clients |-> Answer(c)], orders <- jobs

\* No order is taken back and no answer, whichever commands race, hang up or die with
\* the service; "ok" is said of an order the machine has, the machine carries out one
\* of its orders, and when it is off nothing happens any more.
ImplementsService == Service!Spec

Served == IF phase = "idle" THEN {} ELSE {current}

\* No connection is forgotten: whoever has an open one is served or in the queue, once,
\* of a process that runs.
NobodyIsForgotten ==
  /\ Open = Served \cup {backlog[i] : i \in DOMAIN backlog}
  /\ Open # {} => service = "serving"
  /\ \A i \in DOMAIN backlog : backlog[i] \notin Served
  /\ \A i, j \in DOMAIN backlog : backlog[i] = backlog[j] => i = j

\* What handle_client() has still to do.
StepsLeft ==
  CASE phase = "read" -> 4
    [] phase = "cleanup" -> 3
    [] phase = "transition" -> 2
    [] phase = "reply" -> 1
    [] OTHER -> 0

Place(c) == CHOOSE i \in DOMAIN backlog : backlog[i] = c

\* At most how many steps of the event thread the answer to c is away: accept() and
\* four of handle_client() for each connection in front, and for its own.
Distance(c) == StepsLeft + IF c \in Served THEN 0 ELSE 5 * Place(c)

\* Nobody is overtaken: with every step of the event thread each command that still
\* waits is closer to its answer, and no other process can put it off.
AnswerComesCloser ==
  [][ \A c \in Open \cap Open' :
        IF UNCHANGED <<current, phase>> THEN Distance(c)' = Distance(c)
                                        ELSE Distance(c)' < Distance(c) ]_vars

\* events.rs: "Serves requests until the process exits."
ServesUntilExit ==
  service = "serving" /\ phase = "idle" /\ jobs = {} => path = "live"

\* power.rs: systemctl is run with --no-block "so the client that asked for the
\* transition gets its answer before this very service [...] disappears".
AnsweredBeforeStopped ==
  [][ service = "serving" /\ service' = "stopped"
        => ~(phase = "reply" /\ outcome = "ok" /\ client[current] = "waiting") ]_vars
=============================================================================
