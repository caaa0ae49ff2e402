------------------------------- MODULE Launch -------------------------------
(***************************************************************************)
(* How a transfer of cccp comes up and goes down: the process the user     *)
(* started checks its options, runs the remote hosts over ssh, the two     *)
(* hosts connect their control streams and open their UDP sockets, and     *)
(* ctrl-c, STOP and exit statuses bring everything down again.             *)
(*                                                                         *)
(* The user's process (`front`) is itself one of the two hosts, or none of *)
(* them when both source and destination are remote (Mode::Controller).    *)
(* Every remote host has a command_runner in front.  What the hosts say to *)
(* each other once their streams are connected is Session; here it is the  *)
(* phases "setup" (nothing listens to ctrl-c or STOP) and "select".        *)
(***************************************************************************)
EXTENDS Integers, Sequences, FiniteSets

CONSTANTS
    Ports,      \* values of --start-port and --end-port
    Threads,    \* values of --threads
    Width       \* 2^16: one more than the largest port

Host == {"sender", "receiver"}

ASSUME LaunchAssumption ==
    /\ Width \in Nat \ {0}
    /\ Ports \subseteq 0..(Width - 1)
    /\ Threads \subseteq Nat

VARIABLES
    options,   \* [start, end, threads] of the user's process
    asked,     \* the same as the user gave them, to compare with
    local,     \* the hosts that need no ssh: the end the user's process is
    front,     \* main of that process
    runner,    \* its command_runner of each remote host
    host,      \* what each host does
    ports,     \* [start, end, threads, iv] as each host has them
    streams,   \* the control streams each host has set up: [port, iv]
    backlog,   \* ports somebody has connected to and nobody accepted from
    data,      \* the ports of the UDP sockets of each host
    stdin,     \* the STOP line on the way to each remote host
    ctrlc      \* how many ctrl-c the user's process has heard

optionVars == <<options, asked>>
frontVars == <<optionVars, local, front, runner, ctrlc>>
linkVars == <<ports, streams, backlog, data>>
vars == <<frontVars, host, linkVars, stdin>>

Other(h) == IF h = "sender" THEN "receiver" ELSE "sender"

Exited(h) == host[h] \in {"ok", "err", "cancelled", "killed"}
FrontExited == front \in {"usage", "ok", "err", "killed"}

(* format_command: the user's process connects, its remote host listens;   *)
(* of two remote hosts the sender connects.                                *)
Connects(h) == IF local = {} THEN h = "sender" ELSE h \in local

Init ==
    /\ options \in [start : Ports, end : Ports, threads : Threads]
    /\ asked = options
    /\ local \in SUBSET Host
    /\ front = "parse"
    /\ runner = [h \in Host |-> "none"]
    /\ host = [h \in Host |-> "none"]
    /\ ports = [h \in Host |-> [start |-> 0, end |-> 0, threads |-> 0, iv |-> 0]]
    /\ streams = [h \in Host |-> <<>>]
    /\ backlog = {}
    /\ data = [h \in Host |-> {}]
    /\ stdin = [h \in Host |-> "none"]
    /\ ctrlc = 0

-----------------------------------------------------------------------------
(* Options.  All of this is u16 arithmetic, which wraps in a release build. *)

PortCount(o) == (o.end - o.start + 1) % Width

Invalid(o) ==
    \/ o.start > o.end
    \/ PortCount(o) < 3
    \/ local = Host      \* both the source and the destination are local

(* Mutant: the two ports of the control streams are not counted. *)
AdjustedForData(o) ==
    LET want == o.threads % Width
    IN  IF PortCount(o) < want
        THEN [o EXCEPT !.threads = PortCount(o)]
        ELSE IF PortCount(o) > want
        THEN [o EXCEPT !.end = (o.start + want + 1) % Width]
        ELSE o

(* Threads without a port are dropped, and ports without a thread. *)
Adjusted(o) ==
    LET want == o.threads % Width
    IN  IF PortCount(o) - 2 < want
        THEN [o EXCEPT !.threads = PortCount(o) - 2]
        ELSE IF PortCount(o) - 2 > want
        THEN [o EXCEPT !.end = (o.start + want + 1) % Width]
        ELSE o

Parse ==
    /\ front = "parse"
    /\ IF Invalid(options)
       THEN front' = "usage" /\ UNCHANGED options
       ELSE front' = "ssh" /\ options' = Adjusted(options)
    /\ UNCHANGED <<asked, local, runner, host, linkVars, stdin, ctrlc>>

-----------------------------------------------------------------------------
(* Logging in, and running the hosts. *)

Remote == Host \ local
FrontRuns == front \in {"ssh", "run"}

(* The options a host begins with: options.format_command, or a move. *)
Handed == [start |-> options.start, end |-> options.end,
           threads |-> options.threads, iv |-> 0]

(* connect_client, then command_runner is spawned; with two remote hosts   *)
(* the sender's comes first.  After the last login main goes on, and the   *)
(* host that the user's process is starts to connect.                      *)
Login(h) ==
    /\ front = "ssh"
    /\ h \in Remote /\ runner[h] = "none"
    /\ h = "receiver" /\ local = {} => runner["sender"] # "none"
    /\ runner' = [runner EXCEPT ![h] = "exec"]
    /\ IF \A g \in Remote : runner'[g] # "none"
       THEN /\ front' = "run"
            /\ host' = [g \in Host |-> IF g \in local THEN "connect" ELSE host[g]]
            /\ ports' = [g \in Host |-> IF g \in local THEN Handed ELSE ports[g]]
       ELSE UNCHANGED <<front, host, ports>>
    /\ UNCHANGED <<optionVars, local, streams, backlog, data, stdin, ctrlc>>

(* A login that fails ends the program, whatever it has started before. *)
LoginFails ==
    /\ front = "ssh"
    /\ front' = "err"
    /\ UNCHANGED <<optionVars, local, runner, host, linkVars, stdin, ctrlc>>

(* command_runner opens a channel and has the command executed. *)
Exec(h) ==
    /\ FrontRuns /\ runner[h] = "exec"
    /\ runner' = [runner EXCEPT ![h] = "wait"]
    /\ host' = [host EXCEPT ![h] = IF Connects(h) THEN "connect" ELSE "bind"]
    /\ ports' = [ports EXCEPT ![h] = Handed]
    /\ UNCHANGED <<optionVars, local, front, streams, backlog, data, stdin, ctrlc>>

(* There is no such command, or the ssh connection breaks. *)
RunnerBreaks(h) ==
    /\ FrontRuns /\ runner[h] \in {"exec", "wait"}
    /\ runner' = [runner EXCEPT ![h] = "broken"]
    /\ UNCHANGED <<optionVars, local, front, host, linkVars, stdin, ctrlc>>

(* One message of the channel, as the stats a remote host prints each      *)
(* second.  select drops the notification that came at the same time, and  *)
(* one that comes while the message is handled finds nobody waiting.       *)
RunnerMessage(h) ==
    /\ FrontRuns /\ runner[h] \in {"wait", "notified"}
    /\ ~Exited(h)
    /\ runner' = [runner EXCEPT ![h] = "busy"]
    /\ UNCHANGED <<optionVars, local, front, host, linkVars, stdin, ctrlc>>

RunnerLoops(h) ==
    /\ FrontRuns /\ runner[h] = "busy"
    /\ runner' = [runner EXCEPT ![h] = "wait"]
    /\ UNCHANGED <<optionVars, local, front, host, linkVars, stdin, ctrlc>>

RunnerStops(h) ==
    /\ FrontRuns /\ runner[h] = "notified"
    /\ stdin' = [stdin EXCEPT ![h] = IF @ = "none" THEN "sent" ELSE @]
    /\ runner' = [runner EXCEPT ![h] = "wait"]
    /\ UNCHANGED <<optionVars, local, front, host, linkVars, ctrlc>>

(* The exit status of the remote command ends its runner. *)
RunnerEnds(h) ==
    /\ FrontRuns /\ runner[h] \in {"wait", "notified"}
    /\ Exited(h)
    /\ runner' = [runner EXCEPT ![h] =
                     IF host[h] = "err" THEN "failed" ELSE "zero"]
    /\ UNCHANGED <<optionVars, local, front, host, linkVars, stdin, ctrlc>>

-----------------------------------------------------------------------------
(* The control streams: rts first, then str, on consecutive ports.         *)

(* CipherStream::new, next_iv, start_port += 1. *)
StreamUp(h) ==
    /\ streams' = [streams EXCEPT ![h] =
                      Append(@, [port |-> ports[h].start, iv |-> ports[h].iv])]
    /\ ports' = [ports EXCEPT ![h].start = (@ + 1) % Width, ![h].iv = @ + 1]

Phase(h, p) == host' = [host EXCEPT ![h] = p]

(* Mutant: one stream too many. *)
NextPhaseLate(h, again) ==
    Phase(h, IF Len(streams[h]) < 2 THEN again ELSE "setup")

(* Where a host goes with one more stream. *)
NextPhase(h, again) == Phase(h, IF streams[h] = <<>> THEN again ELSE "setup")

(* TcpListener::bind: another process may have the port. *)
Bind(h) ==
    /\ host[h] = "bind"
    /\ \E p \in {"accept", "err"} : Phase(h, p)
    /\ UNCHANGED <<frontVars, linkVars, stdin>>

(* TcpStream::connect succeeds as soon as the port is bound; until then    *)
(* connect_stream tries again every 100 ms.                                *)
Connect(h) ==
    /\ host[h] = "connect"
    /\ host[Other(h)] = "accept"
    /\ ports[Other(h)].start = ports[h].start
    /\ backlog' = backlog \cup {ports[h].start}
    /\ StreamUp(h)
    /\ NextPhase(h, "connect")
    /\ UNCHANGED <<frontVars, data, stdin>>

(* Mutant: the listening host does not move its iv on. *)
AcceptSameIv(h) ==
    /\ host[h] = "accept"
    /\ ports[h].start \in backlog
    /\ backlog' = backlog \ {ports[h].start}
    /\ streams' = [streams EXCEPT ![h] =
                      Append(@, [port |-> ports[h].start, iv |-> ports[h].iv])]
    /\ ports' = [ports EXCEPT ![h].start = (@ + 1) % Width]
    /\ NextPhase(h, "bind")
    /\ UNCHANGED <<frontVars, data, stdin>>

Accept(h) ==
    /\ host[h] = "accept"
    /\ ports[h].start \in backlog
    /\ backlog' = backlog \ {ports[h].start}
    /\ StreamUp(h)
    /\ NextPhase(h, "bind")
    /\ UNCHANGED <<frontVars, data, stdin>>

-----------------------------------------------------------------------------
(* The transfer, as far as starting and stopping it is concerned.          *)

Connected(h) == Len(streams[h]) = 2

(* buffer_unordered(0) of the crawl is never done: nothing follows it.     *)
Hangs(h) == h = "sender" /\ host[h] = "setup" /\ ports[h].threads = 0

(* socket_factory, after the peers have agreed on the manifest. *)
OpenSockets(h) ==
    /\ host[h] = "setup" /\ Connected(Other(h))
    /\ ports[h].threads # 0
    /\ ~Exited(Other(h))
    /\ data' = [data EXCEPT ![h] = ports[h].start .. ports[h].end]
    /\ Phase(h, "select")
    /\ UNCHANGED <<frontVars, ports, streams, backlog, stdin>>

(* There is nothing to send, or the setup fails. *)
SetupEnds(h) ==
    /\ host[h] = "setup" /\ ports[h].threads # 0
    /\ \E result \in {"ok", "err"} : Phase(h, result)
    /\ UNCHANGED <<frontVars, linkVars, stdin>>

(* One of the tasks ends, and with it main. *)
TransferEnds(h) ==
    /\ host[h] = "select"
    /\ \E result \in {"ok", "err"} : Phase(h, result)
    /\ UNCHANGED <<frontVars, linkVars, stdin>>

(* Both streams end when the other host has left; whichever task notices   *)
(* ends main (BothExit of Session).                                        *)
PeerGone(h) ==
    /\ host[h] \in {"setup", "select"} /\ ~Hangs(h)
    /\ Exited(Other(h))
    /\ \E result \in {"ok", "err"} : Phase(h, result)
    /\ UNCHANGED <<frontVars, linkVars, stdin>>

-----------------------------------------------------------------------------
(* The end of the user's process. *)

(* The host it is has its result, or is gone with it. *)
Dropped == [h \in Host |-> IF h \in local /\ ~Exited(h) /\ host[h] # "none"
                           THEN "killed" ELSE host[h]]

Leave(how) ==
    /\ front' = how
    /\ host' = Dropped
    /\ UNCHANGED <<optionVars, local, runner, linkVars, stdin>>

(* main selects: the host it is has ended; or a runner has failed, as has  *)
(* the remote command.  A runner that ended with status 0 sleeps for ever. *)
(* A controller leaves with the first of its two runners.                  *)
LocalReturns(h) == h \in local /\ Exited(h)

(* Mutant: a failed remote command does not end the local host. *)
CommandFailsUnnoticed(h) == runner[h] = "broken"

CommandFails(h) == runner[h] = "broken" \/ (runner[h] = "failed" /\ local # {})
ControllerReturns(h) == local = {} /\ runner[h] \in {"zero", "failed"}

FrontReturns ==
    /\ front = "run"
    /\ \E h \in Host :
          \/ LocalReturns(h) /\ Leave(IF host[h] = "err" THEN "err" ELSE "ok")
          \/ CommandFails(h) /\ Leave("err")
          \/ ControllerReturns(h) /\ Leave("ok")
    /\ UNCHANGED ctrlc

(* notify_waiters: only who waits for the signal at this moment gets it. *)
CtrlC ==
    /\ ctrlc = 0 /\ ~FrontExited
    /\ ctrlc' = 1
    /\ runner' = [h \in Host |-> IF runner[h] = "wait" THEN "notified" ELSE runner[h]]
    /\ host' = [h \in Host |-> IF h \in local /\ host[h] = "select"
                               THEN "cancelled" ELSE host[h]]
    /\ UNCHANGED <<optionVars, local, front, linkVars, stdin>>

(* The second one: std::process::exit(1). *)
CtrlCAgain ==
    /\ ctrlc = 1 /\ ~FrontExited
    /\ ctrlc' = 2
    /\ Leave("killed")

(* Mutant: the remote host stops listening before it has heard STOP. *)
ReadStopDeaf(h) ==
    /\ stdin[h] = "sent"
    /\ host[h] # "none" /\ ~Exited(h)
    /\ stdin' = [stdin EXCEPT ![h] = "read"]
    /\ UNCHANGED <<frontVars, host, linkVars>>

(* wait_for_stop: the thread of a remote host ends with the first STOP,    *)
(* which again reaches only a main that is at its select.                  *)
ReadStop(h) ==
    /\ stdin[h] = "sent"
    /\ host[h] # "none" /\ ~Exited(h)
    /\ stdin' = [stdin EXCEPT ![h] = "read"]
    /\ host' = IF host[h] = "select" THEN [host EXCEPT ![h] = "cancelled"] ELSE host
    /\ UNCHANGED <<frontVars, linkVars>>

-----------------------------------------------------------------------------
FrontStep ==
    \/ Parse \/ LoginFails \/ FrontReturns
    \/ \E h \in Host : Login(h)

RunnerStep(h) == Exec(h) \/ RunnerLoops(h) \/ RunnerStops(h) \/ RunnerEnds(h)

HostStep(h) ==
    \/ Bind(h) \/ Connect(h) \/ Accept(h)
    \/ OpenSockets(h) \/ SetupEnds(h) \/ PeerGone(h)

User == CtrlC \/ CtrlCAgain

Next ==
    \/ FrontStep \/ User
    \/ \E h \in Host :
          \/ RunnerStep(h) \/ RunnerMessage(h) \/ RunnerBreaks(h)
          \/ HostStep(h) \/ TransferEnds(h) \/ ReadStop(h)

Spec == Init /\ [][Next]_vars

(* Each process goes on while it can; a transfer may take for ever, and    *)
(* nobody has to press ctrl-c.                                             *)
Fairness ==
    /\ WF_vars(FrontStep)
    /\ \A h \in Host : /\ WF_vars(RunnerStep(h))
                       /\ WF_vars(HostStep(h))
                       /\ WF_vars(ReadStop(h))

FairSpec == Spec /\ Fairness

-----------------------------------------------------------------------------
(* Properties. *)

(* Every variable has its type; port arithmetic stays below Width. *)
TypeOK ==
    /\ {options, asked} \subseteq
           [start : 0..(Width - 1), end : 0..(Width - 1), threads : Nat]
    /\ local \subseteq Host
    /\ front \in {"parse", "ssh", "run", "usage", "ok", "err", "killed"}
    /\ runner \in [Host -> {"none", "exec", "wait", "notified", "busy", "broken",
                            "zero", "failed"}]
    /\ host \in [Host -> {"none", "connect", "bind", "accept", "setup", "select",
                          "ok", "err", "cancelled", "killed"}]
    /\ ports \in [Host -> [start : 0..(Width - 1), end : 0..(Width - 1),
                           threads : Nat, iv : 0..2]]
    /\ \A h \in Host : streams[h] \in Seq([port : 0..(Width - 1), iv : 0..2])
    /\ backlog \subseteq 0..(Width - 1)
    /\ \A h \in Host : data[h] \subseteq 0..(Width - 1)
    /\ stdin \in [Host -> {"none", "sent", "read"}]
    /\ ctrlc \in 0..2

(* Both hosts mean the same by rts and by str: stream by stream they have  *)
(* the same port and the same iv, though one counts as it connects and the *)
(* other as it accepts, and one was handed its options before the other    *)
(* began to count (main.rs 244, 651, 662).                                 *)
StreamsPaired ==
    \A h \in Host : \A i \in DOMAIN streams[h] \cap DOMAIN streams[Other(h)] :
        streams[h][i] = streams[Other(h)][i]

(* README, Firewall: the first two ports are TCP, the remaining ones, at   *)
(* least one, UDP.  Hosts that have opened their sockets have the same,    *)
(* none of them a control port; all are in the range the user gave, not    *)
(* only in the one main made of it; and there is one for each thread, or,  *)
(* of fewer ports, all but two.  (--threads of 2^16 or more is truncated,  *)
(* and may leave no data port at all.)                                     *)
PortsAgree ==
    \A h \in Host : host[h] = "select" =>
        LET control == {streams[h][i].port : i \in DOMAIN streams[h]}
            room == asked.end - asked.start - 1
        IN  /\ host[Other(h)] = "select" => data[h] = data[Other(h)]
            /\ data[h] \cap control = {}
            /\ data[h] \cup control \subseteq asked.start .. asked.end
            /\ asked.threads \in 1..(Width - 1) =>
                  Cardinality(data[h]) =
                      IF room < asked.threads THEN room ELSE asked.threads

(* A host that waits for a peer that is not there, or for nothing. *)
Stuck(h) ==
    \/ Hangs(h)
    \/ /\ host[h] = "connect" \/ (host[h] = "accept" /\ ports[h].start \notin backlog)
       /\ host[Other(h)] = "none" \/ Exited(Other(h))

(* When a host leaves, with whatever result, so does the user's process,   *)
(* and so does the other host, unless it has not come as far as the two    *)
(* streams: connect_stream and listen_stream wait for ever, and nothing    *)
(* tells them that the peer failed or was never started.                   *)
OneLeavesAllLeave ==
    \A h \in Host :
        Exited(h) ~> /\ FrontExited
                     /\ \/ Exited(Other(h)) \/ host[Other(h)] = "none"
                        \/ Stuck(Other(h))

(* A STOP that reaches a host at its select, or a ctrl-c that does, ends   *)
(* everything: both hosts and the user's process.                          *)
CancelEndsAll ==
    \A h \in Host :
        host[h] = "cancelled" \/ (stdin[h] = "sent" /\ host[h] = "select")
            ~> FrontExited /\ \A g \in Host : Exited(g)
=============================================================================
