---------------------------- MODULE LaunchProofs ----------------------------
(***************************************************************************)
(* What the start of a transfer gets right for every width of a port       *)
(* number, every range of ports and every number of threads: both hosts    *)
(* use the same ports in the same order, and none of them twice.           *)
(*                                                                         *)
(* Everything a host has opened is a function of the options as Parse left *)
(* them (Settled) and of the number n of its control streams (Opened,      *)
(* Left).  What remains is that no host starts before the options are      *)
(* settled, none starts twice, and none opens a third stream.              *)
(***************************************************************************)
EXTENDS Launch, FiniteSetTheorems, TLAPS

USE DEF optionVars

Port == 0..(Width - 1)

OptionTypes == [start : Port, end : Port, threads : Nat]

FrontTypes ==
    /\ local \subseteq Host
    /\ front \in {"parse", "ssh", "run", "usage", "ok", "err", "killed"}
    /\ runner \in [Host -> {"none", "exec", "wait", "notified", "busy", "broken",
                            "zero", "failed"}]
    /\ host \in [Host -> {"none", "connect", "bind", "accept", "setup", "select",
                          "ok", "err", "cancelled", "killed"}]
    /\ stdin \in [Host -> {"none", "sent", "read"}]
    /\ ctrlc \in 0..2

LinkTypes ==
    /\ options \in OptionTypes
    /\ asked \in OptionTypes
    /\ ports \in [Host -> [start : Port, end : Port, threads : Nat, iv : 0..2]]
    /\ streams \in [Host -> Seq([port : Port, iv : 0..2])]
    /\ backlog \subseteq Port
    /\ data \in [Host -> SUBSET Port]

Starting == {"connect", "bind", "accept"}
Joined == {"setup", "select"}

(* The ports between those of the streams and the end of the given range. *)
Room == asked.end - asked.start - 1

(* Two ports for the streams, then one for each thread, none wraps, and    *)
(* all are in the range that was given.                                    *)
Settled ==
    /\ options.start + 2 < Width
    /\ options.end = options.start + (options.threads % Width) + 1
    /\ options.start = asked.start
    /\ options.end <= asked.end
    /\ options.threads = IF Room < asked.threads % Width THEN Room ELSE asked.threads

(* The first n control streams, and what they leave of the options. *)
Opened(n) == [i \in 1..n |-> [port |-> options.start + (i - 1), iv |-> i - 1]]

Left(n) == [start |-> options.start + n, end |-> options.end,
            threads |-> options.threads, iv |-> n]

(* Nobody has started who should not have. *)
Ordered ==
    /\ front = "parse" =>
          options = asked /\ \A h \in Host : host[h] = "none" /\ runner[h] = "none"
    /\ front = "ssh" => \A h \in local : host[h] = "none"
    /\ \A h \in local : runner[h] = "none"
    /\ \A h \in Remote : runner[h] \in {"none", "exec"} => host[h] = "none"
    /\ FrontRuns \/ (\E h \in Host : host[h] # "none") => Settled

(* How far a host has come with its streams. *)
Reached(h, n) ==
    /\ streams[h] = Opened(n)
    /\ host[h] # "none" => ports[h] = Left(n)
    /\ host[h] = "none" => n = 0
    /\ host[h] \in Starting => n < 2
    /\ host[h] \in Joined => n = 2
    /\ host[h] = "select" => data[h] = (options.start + 2)..options.end

Streamed == \A h \in Host : \E n \in 0..2 : Reached(h, n)

LaunchInv == FrontTypes /\ LinkTypes /\ Ordered /\ Streamed

-----------------------------------------------------------------------------
(* The arithmetic of u16. *)

LEMMA SmallMod ==
    ASSUME NEW x \in Nat, NEW w \in Nat \ {0}, x < w
    PROVE  x % w = x
  OBVIOUS

LEMMA ModRange ==
    ASSUME NEW x \in Int, NEW w \in Nat \ {0}
    PROVE  x % w \in 0..(w - 1)
  OBVIOUS

LEMMA SelfMod ==
    ASSUME NEW w \in Nat \ {0}
    PROVE  w % w = 0
  OBVIOUS

(* Options that are not refused make a range of ports that does not wrap. *)
LEMMA CountIsRange ==
    ASSUME LaunchAssumption, options \in OptionTypes, ~Invalid(options)
    PROVE  /\ PortCount(options) = options.end - options.start + 1
           /\ PortCount(options) >= 3
  <1> DEFINE count == options.end - options.start + 1
  <1>1. options.start \in Port /\ options.end \in Port /\ Width \in Nat \ {0}
    BY DEF OptionTypes, LaunchAssumption
  <1>2. count \in Nat /\ count <= Width /\ PortCount(options) = count % Width
    BY <1>1 DEF Invalid, Port, PortCount
  <1>3. count # Width
    BY <1>1, <1>2, SelfMod DEF Invalid
  <1> QED BY <1>1, <1>2, <1>3, SmallMod DEF Invalid

LEMMA ParseSettles ==
    ASSUME LaunchAssumption, options \in OptionTypes, ~Invalid(options),
           options' = Adjusted(options), options = asked, asked' = asked
    PROVE  options' \in OptionTypes /\ Settled'
  <1> DEFINE want == options.threads % Width
             count == PortCount(options)
  <1>1. /\ options.start \in Port /\ options.end \in Port /\ options.threads \in Nat
        /\ Width \in Nat \ {0}
        /\ options = [start |-> options.start, end |-> options.end,
                      threads |-> options.threads]
    BY DEF OptionTypes, LaunchAssumption
  <1>2. want \in Nat /\ want < Width
    BY <1>1, ModRange
  <1>3. count = options.end - options.start + 1 /\ count >= 3 /\ count <= Width
    BY <1>1, CountIsRange DEF Port
  <1>a. Room' = count - 2 /\ asked'.threads % Width = want /\ asked' = options
    BY <1>1, <1>3 DEF Room, Port
  <1> HIDE DEF want, count
  <1>4. CASE count - 2 < want
    <2>1. options' = [start |-> options.start, end |-> options.end, threads |-> count - 2]
      BY <1>1, <1>4 DEF Adjusted, want, count
    <2>2. count - 2 \in Nat /\ (count - 2) % Width = count - 2
      BY <1>1, <1>3, SmallMod DEF Port
    <2> QED BY <1>a, <1>1, <1>2, <1>3, <1>4, <2>1, <2>2 DEF OptionTypes, Settled, Port
  <1>5. CASE count - 2 > want
    <2> DEFINE end == options.start + want + 1
    <2>1. end \in Port /\ end < options.end
      BY <1>1, <1>2, <1>3, <1>5 DEF Port
    <2>2. end % Width = end
      BY <1>1, <2>1, SmallMod DEF Port
    <2>3. ~(count - 2 < want)
      BY <1>1, <1>2, <1>3, <1>5 DEF Port
    <2>4. options' = [options EXCEPT !.end = end % Width]
      BY <1>5, <2>3 DEF Adjusted, want, count
    <2>5. options' = [start |-> options.start, end |-> end, threads |-> options.threads]
      BY <1>1, <2>2, <2>4
    <2>6. options'.threads % Width = want
      BY <2>5 DEF want
    <2> QED BY <1>a, <1>1, <1>2, <1>3, <1>5, <2>1, <2>5, <2>6 DEF OptionTypes, Settled, Port
  <1>6. CASE count - 2 = want
    <2>1. options' = options
      BY <1>1, <1>2, <1>3, <1>6 DEF Adjusted, want, count
    <2>2. options'.threads % Width = want
      BY <2>1 DEF want
    <2> QED BY <1>a, <1>1, <1>2, <1>3, <1>6, <2>1, <2>2 DEF Settled, Port
  <1> QED BY <1>2, <1>3, <1>4, <1>5, <1>6

-----------------------------------------------------------------------------
(* The invariant holds at the start, and each kind of step keeps it. *)

LEMMA TypesAre == FrontTypes /\ LinkTypes => TypeOK
  BY DEF TypeOK, FrontTypes, LinkTypes, OptionTypes, Port

LEMMA InitInv == LaunchAssumption /\ Init => LaunchInv
  <1> SUFFICES ASSUME LaunchAssumption, Init PROVE LaunchInv
    OBVIOUS
  <1>1. options \in OptionTypes /\ asked \in OptionTypes
    BY DEF Init, OptionTypes, Port, LaunchAssumption
  <1>2. 0 \in Port /\ 0 \in 0..2
    BY DEF LaunchAssumption, Port
  <1>3. ports \in [Host -> [start : Port, end : Port, threads : Nat, iv : 0..2]]
    BY <1>2 DEF Init
  <1>4. FrontTypes /\ LinkTypes
    <2>1. <<>> \in Seq([port : Port, iv : 0..2])
      OBVIOUS
    <2>2. streams \in [Host -> Seq([port : Port, iv : 0..2])]
      BY <2>1 DEF Init
    <2> QED BY <1>1, <1>3, <2>2 DEF Init, FrontTypes, LinkTypes
  <1>5. Ordered
    BY DEF Init, Ordered, Remote, FrontRuns
  <1>6. Opened(0) = <<>>
    BY DEF Opened
  <1>7. \A h \in Host : Reached(h, 0)
    BY <1>6 DEF Init, Reached, Starting, Joined
  <1> QED BY <1>2, <1>4, <1>5, <1>7 DEF LaunchInv, Streamed

(* A step that leaves the streams alone, and every host in its part. *)
Stays(h) ==
    /\ host'[h] = "none" <=> host[h] = "none"
    /\ host'[h] \in Starting => host[h] \in Starting
    /\ host'[h] \in Joined => host[h] \in Joined
    /\ host'[h] = "select" => host[h] = "select"

LEMMA StreamsStay ==
    ASSUME Streamed, UNCHANGED <<optionVars, ports, streams, data>>,
           \A h \in Host : Stays(h)
    PROVE  Streamed'
  <1> SUFFICES ASSUME NEW h \in Host PROVE (\E n \in 0..2 : Reached(h, n))'
    BY DEF Streamed
  <1>1. PICK n \in 0..2 : Reached(h, n)
    BY DEF Streamed
  <1>2. Opened(n)' = Opened(n) /\ Left(n)' = Left(n)
    BY DEF Opened, Left
  <1>3. Reached(h, n)'
    BY <1>1, <1>2 DEF Reached, Stays
  <1> QED BY <1>3

(* Most steps are of this kind: what the hosts have opened stays, and no   *)
(* runner comes to be.                                                     *)
LEMMA StayingKeeps ==
    ASSUME LaunchInv, UNCHANGED <<optionVars, local, linkVars>>, FrontTypes',
           \A h \in Host : Stays(h),
           front' = front \/ front' \in {"usage", "ok", "err", "killed"},
           \A h \in Host : runner'[h] = runner[h]
                           \/ (runner[h] # "none" /\ runner'[h] \notin {"none", "exec"})
    PROVE  LaunchInv'
  <1>1. LinkTypes'
    BY DEF LaunchInv, LinkTypes, linkVars
  <1>2. Ordered'
    <2>1. UNCHANGED <<Remote, Settled>>
      BY DEF Remote, Settled, Room
    <2>2. /\ front' \in {"parse", "ssh", "run"} => front' = front
          /\ local' = local
          /\ \A h \in Host : host'[h] = "none" <=> host[h] = "none"
          /\ \A h \in Host : runner'[h] \in {"none", "exec"} => runner'[h] = runner[h]
          /\ \A h \in Host : runner[h] = "none" => runner'[h] = "none"
      BY DEF Stays
    <2>3. Ordered
      BY DEF LaunchInv
    <2>4. FrontRuns' => FrontRuns
      BY <2>2 DEF FrontRuns
    <2>5. Remote \subseteq Host /\ local \subseteq Host
      BY DEF Remote, LaunchInv, FrontTypes
    <2>6. /\ (front = "parse" => options = asked /\ \A h \in Host : host[h] = "none" /\ runner[h] = "none")'
          /\ (front = "ssh" => \A h \in local : host[h] = "none")'
      BY <2>2, <2>3, <2>5 DEF Ordered
    <2>7. /\ (\A h \in local : runner[h] = "none")'
          /\ (\A h \in Remote : runner[h] \in {"none", "exec"} => host[h] = "none")'
      BY <2>1, <2>2, <2>3, <2>5 DEF Ordered
    <2>8. (FrontRuns \/ (\E h \in Host : host[h] # "none") => Settled)'
      BY <2>1, <2>2, <2>3, <2>4 DEF Ordered
    <2> QED BY <2>6, <2>7, <2>8 DEF Ordered
  <1>3. Streamed'
    BY StreamsStay DEF LaunchInv, linkVars
  <1> QED BY <1>1, <1>2, <1>3 DEF LaunchInv

(* The next stream of a host, as it connects or as it accepts. *)
LEMMA MappingIsSeq ==
    ASSUME NEW S, NEW m \in Nat, NEW f \in [1..m -> S]
    PROVE  f \in Seq(S)
  OBVIOUS

LEMMA StreamUpOpens ==
    ASSUME LaunchAssumption, LaunchInv, NEW h \in Host, NEW n \in 0..1,
           Reached(h, n), host[h] # "none", StreamUp(h), UNCHANGED options
    PROVE  /\ streams' = [streams EXCEPT ![h] = Opened(n + 1)]
           /\ ports' = [ports EXCEPT ![h] = Left(n + 1)]
           /\ Left(n + 1) \in [start : Port, end : Port, threads : Nat, iv : 0..2]
           /\ Opened(n + 1) \in Seq([port : Port, iv : 0..2])
  <1>1. /\ Settled /\ streams[h] = Opened(n) /\ ports[h] = Left(n)
        /\ options \in OptionTypes /\ Width \in Nat \ {0}
        /\ ports \in [Host -> [start : Port, end : Port, threads : Nat, iv : 0..2]]
    BY DEF LaunchInv, Ordered, Reached, LinkTypes, LaunchAssumption
  <1>2. options.start \in Nat /\ options.start + n + 1 < Width
    BY <1>1 DEF Settled, OptionTypes, Port
  <1>3. (options.start + n + 1) % Width = options.start + n + 1
    <2>1. options.start + n + 1 \in Nat
      BY <1>2
    <2> HIDE DEF Settled
    <2> QED BY <1>1, <1>2, <2>1, SmallMod
  <1>4. Append(Opened(n), [port |-> options.start + n, iv |-> n]) = Opened(n + 1)
    <2>1. n = 0 \/ n = 1
      OBVIOUS
    <2>2. CASE n = 0
      BY <1>2, <2>2 DEF Opened
    <2>3. CASE n = 1
      BY <1>2, <2>3 DEF Opened
    <2> QED BY <2>1, <2>2, <2>3
  <1>5. streams' = [streams EXCEPT ![h] = Opened(n + 1)]
    BY <1>1, <1>4 DEF StreamUp, Left
  <1>6. ports' = [ports EXCEPT ![h] = Left(n + 1)]
    <2>1. ports' = [ports EXCEPT ![h] = [[ports[h] EXCEPT !.start = (ports[h].start + 1) % Width]
                                                  EXCEPT !.iv = ports[h].iv + 1]]
      BY <1>1 DEF StreamUp
    <2>2. ports[h] = [start |-> options.start + n, end |-> options.end,
                      threads |-> options.threads, iv |-> n]
      BY <1>1 DEF Left
    <2> DEFINE x == (ports[h].start + 1) % Width
               y == ports[h].iv + 1
    <2>3. x = options.start + (n + 1) /\ y = n + 1
      <3>1. ports[h].start = options.start + n /\ ports[h].iv = n
        BY <2>2
      <3> QED BY <1>2, <1>3, <3>1
    <2> HIDE DEF x, y
    <2>4. [[ports[h] EXCEPT !.start = x] EXCEPT !.iv = y]
             = [start |-> x, end |-> options.end, threads |-> options.threads, iv |-> y]
      <3> DEFINE q == [ports[h] EXCEPT !.start = x]
      <3>1. q = [start |-> x, end |-> options.end, threads |-> options.threads, iv |-> n]
        BY <2>2
      <3> HIDE DEF q
      <3>2. [q EXCEPT !.iv = y]
               = [start |-> x, end |-> options.end, threads |-> options.threads, iv |-> y]
        BY <3>1
      <3> QED BY <3>2 DEF q
    <2>5. [[ports[h] EXCEPT !.start = x] EXCEPT !.iv = y] = Left(n + 1)
      BY <2>3, <2>4 DEF Left
    <2> QED BY <2>1, <2>5 DEF x, y
  <1>7. Left(n + 1) \in [start : Port, end : Port, threads : Nat, iv : 0..2]
    BY <1>1, <1>2 DEF Left, OptionTypes, Port
  <1>8. Opened(n + 1) \in Seq([port : Port, iv : 0..2])
    <2>1. \A i \in 1..(n + 1) :
             [port |-> options.start + (i - 1), iv |-> i - 1] \in [port : Port, iv : 0..2]
      BY <1>1, <1>2 DEF Port
    <2>2. Opened(n + 1) \in [1..(n + 1) -> [port : Port, iv : 0..2]]
      BY <2>1 DEF Opened
    <2>3. n + 1 \in Nat
      OBVIOUS
    <2> HIDE DEF Opened
    <2> QED BY <2>2, <2>3, MappingIsSeq
  <1> QED BY <1>5, <1>6, <1>7, <1>8

LEMMA StreamingKeeps ==
    ASSUME LaunchAssumption, LaunchInv, NEW h \in Host, NEW again \in Starting,
           host[h] \in Starting, StreamUp(h), NextPhase(h, again),
           UNCHANGED <<frontVars, data, stdin>>, backlog' \subseteq Port
    PROVE  LaunchInv'
  <1>1. PICK n \in 0..2 : Reached(h, n)
    BY DEF LaunchInv, Streamed
  <1>2. n \in 0..1 /\ host[h] # "none"
    BY <1>1 DEF Reached, Starting
  <1>3. /\ streams' = [streams EXCEPT ![h] = Opened(n + 1)]
        /\ ports' = [ports EXCEPT ![h] = Left(n + 1)]
        /\ Left(n + 1) \in [start : Port, end : Port, threads : Nat, iv : 0..2]
        /\ Opened(n + 1) \in Seq([port : Port, iv : 0..2])
    BY <1>1, <1>2, StreamUpOpens DEF frontVars
  <1>4. streams[h] = <<>> <=> n = 0
    <2>1. streams[h] = Opened(n) /\ DOMAIN Opened(n) = 1..n
      BY <1>1 DEF Reached, Opened
    <2> QED BY <1>2, <2>1 DEF Opened
  <1>5. host' = [host EXCEPT ![h] = IF n = 0 THEN again ELSE "setup"]
    BY <1>4 DEF NextPhase, Phase
  <1>6. FrontTypes'
    BY <1>5 DEF LaunchInv, FrontTypes, frontVars, Starting
  <1>7. LinkTypes'
    BY <1>3 DEF LaunchInv, LinkTypes, frontVars
  <1>8. Ordered'
    <2>1. UNCHANGED <<Remote, Settled>>
      BY DEF Remote, Settled, Room, frontVars
    <2> QED BY <1>2, <1>5, <2>1 DEF LaunchInv, Ordered, FrontRuns, frontVars, Remote,
                                    FrontTypes
  <1>9. Streamed'
    <2> SUFFICES ASSUME NEW g \in Host PROVE (\E m \in 0..2 : Reached(g, m))'
      BY DEF Streamed
    <2>1. \A m \in 0..2 : Opened(m)' = Opened(m) /\ Left(m)' = Left(m)
      BY DEF Opened, Left, frontVars
    <2>2. CASE g = h
      <3>1. /\ streams'[h] = Opened(n + 1) /\ ports'[h] = Left(n + 1)
            /\ host'[h] = IF n = 0 THEN again ELSE "setup"
        BY <1>3, <1>5 DEF LaunchInv, LinkTypes, FrontTypes
      <3>2. n + 1 \in 0..2
        BY <1>2
      <3>3. Reached(h, n + 1)'
        BY <1>2, <2>1, <3>1, <3>2 DEF Reached, Starting, Joined
      <3> QED BY <2>2, <3>2, <3>3
    <2>3. CASE g # h
      <3>1. PICK m \in 0..2 : Reached(g, m)
        BY DEF LaunchInv, Streamed
      <3>2. /\ streams'[g] = streams[g] /\ ports'[g] = ports[g] /\ host'[g] = host[g]
            /\ UNCHANGED <<data, options>>
        BY <1>3, <1>5, <2>3 DEF LaunchInv, LinkTypes, FrontTypes, frontVars
      <3>3. Reached(g, m)'
        BY <2>1, <3>1, <3>2 DEF Reached
      <3> QED BY <3>3
    <2> QED BY <2>2, <2>3
  <1> QED BY <1>6, <1>7, <1>8, <1>9 DEF LaunchInv

-----------------------------------------------------------------------------
(* The steps that are not of these two kinds. *)

LEMMA ParseKeeps ==
    ASSUME LaunchAssumption, LaunchInv, Parse
    PROVE  LaunchInv'
  <1>1. /\ front = "parse" /\ options \in OptionTypes /\ Ordered /\ Streamed
        /\ options = asked
        /\ UNCHANGED <<asked, local, runner, host, linkVars, stdin, ctrlc>>
    BY DEF Parse, LaunchInv, LinkTypes, Ordered
  <1>2. CASE Invalid(options)
    <2>1. front' = "usage" /\ UNCHANGED options
      BY <1>2 DEF Parse
    <2>2. FrontTypes'
      BY <1>1, <2>1 DEF LaunchInv, FrontTypes
    <2> QED BY <1>1, <2>1, <2>2, StayingKeeps DEF Stays
  <1>3. CASE ~Invalid(options)
    <2>1. front' = "ssh" /\ options' \in OptionTypes /\ Settled'
      BY <1>1, <1>3, ParseSettles DEF Parse
    <2>2. FrontTypes' /\ LinkTypes'
      BY <1>1, <2>1 DEF LaunchInv, FrontTypes, LinkTypes, linkVars
    <2>3. \A h \in Host : host[h] = "none" /\ runner[h] = "none"
      BY <1>1 DEF Ordered
    <2>4. Ordered'
      BY <1>1, <2>1, <2>3 DEF Ordered, Remote, FrontRuns, LaunchInv, FrontTypes
    <2>5. Opened(0)' = <<>> /\ Opened(0) = <<>>
      BY DEF Opened
    <2>6. \A h \in Host : Reached(h, 0)'
      <3> SUFFICES ASSUME NEW h \in Host PROVE Reached(h, 0)'
        OBVIOUS
      <3>1. PICK n \in 0..2 : Reached(h, n)
        BY <1>1 DEF Streamed
      <3>2. streams[h] = <<>>
        BY <2>3, <2>5, <3>1 DEF Reached
      <3> QED BY <1>1, <2>3, <2>5, <3>2 DEF Reached, linkVars, Starting, Joined
    <2>7. 0 \in 0..2
      OBVIOUS
    <2> QED BY <2>2, <2>4, <2>6, <2>7 DEF LaunchInv, Streamed
  <1> QED BY <1>2, <1>3

(* A host that begins, with the options as they are then. *)
LEMMA BeginsKeeps ==
    ASSUME LaunchInv, NEW B \in SUBSET Host, NEW how \in [B -> Starting],
           \A h \in B : host[h] = "none", FrontRuns,
           host' = [h \in Host |-> IF h \in B THEN how[h] ELSE host[h]],
           ports' = [h \in Host |-> IF h \in B THEN Handed ELSE ports[h]],
           UNCHANGED <<optionVars, streams, backlog, data>>
    PROVE  LinkTypes' /\ Streamed'
  <1>1. LinkTypes'
    <2>1. Handed \in [start : Port, end : Port, threads : Nat, iv : 0..2]
      BY DEF LaunchInv, LinkTypes, Handed, OptionTypes
    <2> QED BY <2>1 DEF LaunchInv, LinkTypes
  <1>2. \A n \in 0..2 : Opened(n)' = Opened(n) /\ Left(n)' = Left(n)
    BY DEF Opened, Left
  <1>3. Handed = Left(0)
    BY DEF Handed, Left, LaunchInv, LinkTypes, OptionTypes, Port
  <1>4. \A h \in Host : \E n \in 0..2 : Reached(h, n)'
    <2> SUFFICES ASSUME NEW h \in Host PROVE \E n \in 0..2 : Reached(h, n)'
      OBVIOUS
    <2>1. PICK n \in 0..2 : Reached(h, n)
      BY DEF LaunchInv, Streamed
    <2>2. CASE h \in B
      <3>1. n = 0 /\ host'[h] \in Starting /\ ports'[h] = Left(0)
        BY <1>3, <2>1, <2>2 DEF Reached
      <3> QED BY <1>2, <2>1, <3>1 DEF Reached, Starting, Joined
    <2>3. CASE h \notin B
      <3>1. host'[h] = host[h] /\ ports'[h] = ports[h]
        BY <2>3
      <3> QED BY <1>2, <2>1, <3>1 DEF Reached
    <2> QED BY <2>2, <2>3
  <1> QED BY <1>1, <1>4 DEF Streamed

LEMMA LoginKeeps ==
    ASSUME LaunchAssumption, LaunchInv, NEW h \in Host, Login(h)
    PROVE  LaunchInv'
  <1>1. /\ front = "ssh" /\ h \in Remote /\ runner[h] = "none" /\ FrontTypes /\ Ordered
        /\ runner' = [runner EXCEPT ![h] = "exec"]
        /\ UNCHANGED <<optionVars, local, streams, backlog, data, stdin, ctrlc>>
    BY DEF Login, LaunchInv
  <1>2. /\ h \notin local /\ host[h] = "none" /\ Settled /\ FrontRuns
        /\ \A g \in local : host[g] = "none"
    BY <1>1 DEF Ordered, Remote, FrontRuns
  <1>3. UNCHANGED <<Settled, Remote>>
    BY <1>1 DEF Settled, Remote, Room
  <1>4. CASE \A g \in Remote : runner'[g] # "none"
    <2>1. /\ front' = "run"
          /\ host' = [g \in Host |-> IF g \in local THEN "connect" ELSE host[g]]
          /\ ports' = [g \in Host |-> IF g \in local THEN Handed ELSE ports[g]]
      BY <1>4 DEF Login
    <2>2. LinkTypes' /\ Streamed'
      <3> DEFINE how == [g \in local |-> "connect"]
      <3>1. local \in SUBSET Host /\ how \in [local -> Starting]
        BY <1>1 DEF FrontTypes, Starting
      <3>2. host' = [g \in Host |-> IF g \in local THEN how[g] ELSE host[g]]
        BY <2>1
      <3> HIDE DEF how
      <3> QED BY <1>1, <1>2, <2>1, <3>1, <3>2, BeginsKeeps
    <2>3. FrontTypes'
      BY <1>1, <2>1 DEF FrontTypes
    <2>4. Ordered'
      BY <1>1, <1>2, <1>3, <2>1 DEF Ordered, FrontTypes, Remote
    <2> QED BY <2>2, <2>3, <2>4 DEF LaunchInv
  <1>5. CASE ~(\A g \in Remote : runner'[g] # "none")
    <2>1. UNCHANGED <<front, host, ports>>
      BY <1>5 DEF Login
    <2>2. LinkTypes' /\ FrontTypes'
      BY <1>1, <2>1 DEF LaunchInv, LinkTypes, FrontTypes
    <2>3. Ordered'
      BY <1>1, <1>2, <1>3, <2>1 DEF Ordered, FrontTypes, Remote
    <2>4. Streamed'
      BY <1>1, <2>1, StreamsStay DEF LaunchInv, Stays
    <2> QED BY <2>2, <2>3, <2>4 DEF LaunchInv
  <1> QED BY <1>4, <1>5

LEMMA ExecKeeps ==
    ASSUME LaunchAssumption, LaunchInv, NEW h \in Host, Exec(h)
    PROVE  LaunchInv'
  <1> DEFINE role == IF Connects(h) THEN "connect" ELSE "bind"
  <1>1. /\ FrontRuns /\ runner[h] = "exec" /\ FrontTypes /\ Ordered /\ LinkTypes
        /\ runner' = [runner EXCEPT ![h] = "wait"]
        /\ host' = [host EXCEPT ![h] = role]
        /\ ports' = [ports EXCEPT ![h] = Handed]
        /\ UNCHANGED <<optionVars, local, front, streams, backlog, data, stdin, ctrlc>>
    BY DEF Exec, LaunchInv
  <1>2. role \in Starting /\ role \in {"connect", "bind"}
    BY DEF Starting
  <1> HIDE DEF role
  <1>3. h \notin local /\ host[h] = "none" /\ Settled
    BY <1>1 DEF Ordered, Remote
  <1>4. LinkTypes' /\ Streamed'
    <2> DEFINE how == [g \in {h} |-> role]
    <2>1. {h} \in SUBSET Host /\ how \in [{h} -> Starting] /\ \A g \in {h} : host[g] = "none"
      BY <1>2, <1>3
    <2>2. /\ host' = [g \in Host |-> IF g \in {h} THEN how[g] ELSE host[g]]
          /\ ports' = [g \in Host |-> IF g \in {h} THEN Handed ELSE ports[g]]
      BY <1>1 DEF FrontTypes, LinkTypes
    <2> HIDE DEF how
    <2> QED BY <1>1, <2>1, <2>2, BeginsKeeps
  <1>5. FrontTypes'
    BY <1>1, <1>2 DEF FrontTypes
  <1>6. Ordered'
    <2>1. UNCHANGED <<Settled, Remote>>
      BY <1>1 DEF Settled, Remote, Room
    <2> QED BY <1>1, <1>3, <2>1 DEF Ordered, FrontTypes, Remote, FrontRuns
  <1> QED BY <1>4, <1>5, <1>6 DEF LaunchInv

LEMMA OpenSocketsKeeps ==
    ASSUME LaunchAssumption, LaunchInv, NEW h \in Host, OpenSockets(h)
    PROVE  LaunchInv'
  <1>1. /\ host[h] = "setup" /\ FrontTypes /\ LinkTypes /\ Ordered
        /\ data' = [data EXCEPT ![h] = ports[h].start .. ports[h].end]
        /\ host' = [host EXCEPT ![h] = "select"]
        /\ UNCHANGED <<frontVars, ports, streams, backlog, stdin>>
    BY DEF OpenSockets, LaunchInv, Phase
  <1>2. Reached(h, 2)
    BY <1>1 DEF LaunchInv, Streamed, Reached, Joined
  <1>3. ports[h].start = options.start + 2 /\ ports[h].end = options.end
    BY <1>1, <1>2 DEF Reached, Left
  <1>4. options \in OptionTypes
    BY <1>1 DEF LinkTypes
  <1>5. (options.start + 2)..options.end \subseteq Port
    BY <1>4 DEF OptionTypes, Port
  <1>6. FrontTypes' /\ LinkTypes'
    BY <1>1, <1>3, <1>5 DEF FrontTypes, LinkTypes, frontVars
  <1>7. Ordered'
    <2>1. UNCHANGED <<Settled, Remote>>
      BY <1>1 DEF Settled, Remote, Room, frontVars
    <2> QED BY <1>1, <2>1 DEF Ordered, FrontTypes, Remote, FrontRuns, frontVars
  <1>8. Streamed'
    <2> SUFFICES ASSUME NEW g \in Host PROVE (\E n \in 0..2 : Reached(g, n))'
      BY DEF Streamed
    <2>1. \A m \in 0..2 : Opened(m)' = Opened(m) /\ Left(m)' = Left(m)
      BY <1>1 DEF Opened, Left, frontVars
    <2>2. CASE g = h
      <3>1. data'[h] = (options.start + 2)..options.end /\ host'[h] = "select"
        BY <1>1, <1>3 DEF LinkTypes, FrontTypes
      <3>2. Reached(h, 2)'
        BY <1>1, <1>2, <2>1, <3>1 DEF Reached, Starting, frontVars
      <3> QED BY <2>2, <3>2
    <2>3. CASE g # h
      <3>1. PICK m \in 0..2 : Reached(g, m)
        BY DEF LaunchInv, Streamed
      <3>2. data'[g] = data[g] /\ host'[g] = host[g]
        BY <1>1, <2>3 DEF LinkTypes, FrontTypes
      <3>3. Reached(g, m)'
        BY <1>1, <2>1, <3>1, <3>2 DEF Reached, frontVars
      <3> QED BY <3>3
    <2> QED BY <2>2, <2>3
  <1> QED BY <1>6, <1>7, <1>8 DEF LaunchInv

LEMMA StreamStepKeeps ==
    ASSUME LaunchAssumption, LaunchInv, NEW h \in Host, Connect(h) \/ Accept(h)
    PROVE  LaunchInv'
  <1>1. ports[h].start \in Port /\ backlog \subseteq Port
    BY DEF LaunchInv, LinkTypes
  <1>2. CASE Connect(h)
    <2>1. backlog' \subseteq Port
      BY <1>1, <1>2 DEF Connect
    <2> QED BY <1>2, <2>1, StreamingKeeps DEF Connect, Starting
  <1>3. CASE Accept(h)
    <2>1. backlog' \subseteq Port
      BY <1>1, <1>3 DEF Accept
    <2> QED BY <1>3, <2>1, StreamingKeeps DEF Accept, Starting
  <1> QED BY <1>2, <1>3

(* Every other step. *)
LEMMA LeaveKeeps ==
    ASSUME LaunchAssumption, LaunchInv, NEW how \in {"ok", "err", "killed"}, Leave(how),
           ctrlc' \in 0..2
    PROVE  LaunchInv'
  <1>1. /\ front' = how /\ host' = Dropped /\ FrontTypes
        /\ UNCHANGED <<optionVars, local, runner, linkVars, stdin>>
    BY DEF Leave, LaunchInv
  <1>2. FrontTypes'
    BY <1>1 DEF FrontTypes, Dropped
  <1>3. \A h \in Host : Stays(h)
    BY <1>1 DEF Stays, Dropped, Starting, Joined, Exited
  <1> QED BY <1>1, <1>2, <1>3, StayingKeeps

LEMMA FrontKeeps ==
    ASSUME LaunchAssumption, LaunchInv, LoginFails \/ FrontReturns \/ User
    PROVE  LaunchInv'
  <1> USE DEF FrontExited
  <1>1. FrontTypes
    BY DEF LaunchInv
  <1>2. CASE LoginFails
    <2>1. FrontTypes'
      BY <1>1, <1>2 DEF LoginFails, FrontTypes
    <2> QED BY <1>2, <2>1, StayingKeeps DEF LoginFails, Stays
  <1>3. CASE FrontReturns
    <2>1. \E how \in {"ok", "err", "killed"} : Leave(how)
      BY <1>3 DEF FrontReturns
    <2>2. ctrlc' \in 0..2
      BY <1>1, <1>3 DEF FrontReturns, FrontTypes
    <2> QED BY <2>1, <2>2, LeaveKeeps
  <1>4. CASE CtrlC
    <2>1. /\ runner' = [h \in Host |-> IF runner[h] = "wait" THEN "notified" ELSE runner[h]]
          /\ host' = [h \in Host |-> IF h \in local /\ host[h] = "select"
                                     THEN "cancelled" ELSE host[h]]
          /\ ctrlc' = 1 /\ UNCHANGED <<optionVars, local, front, linkVars, stdin>>
      BY <1>4 DEF CtrlC
    <2>2. FrontTypes'
      BY <1>1, <2>1 DEF FrontTypes
    <2>3. \A h \in Host : Stays(h)
      BY <2>1 DEF Stays, Starting, Joined
    <2> QED BY <2>1, <2>2, <2>3, StayingKeeps
  <1>5. CASE CtrlCAgain
    BY <1>5, LeaveKeeps DEF CtrlCAgain
  <1> QED BY <1>2, <1>3, <1>4, <1>5 DEF User

LEMMA RunnerKeeps ==
    ASSUME LaunchAssumption, LaunchInv, NEW h \in Host,
           \/ RunnerLoops(h) \/ RunnerStops(h) \/ RunnerEnds(h)
           \/ RunnerMessage(h) \/ RunnerBreaks(h)
    PROVE  LaunchInv'
  <1> DEFINE Working == {"wait", "notified", "busy", "broken", "zero", "failed"}
  <1>1. FrontTypes
    BY DEF LaunchInv
  <1>2. /\ runner[h] # "none"
        /\ \E r \in Working : runner' = [runner EXCEPT ![h] = r]
        /\ \E t \in {"none", "sent", "read"} : stdin' = [stdin EXCEPT ![h] = t]
        /\ UNCHANGED <<optionVars, local, front, host, linkVars, ctrlc>>
    <2>1. stdin[h] \in {"none", "sent", "read"} /\ stdin = [stdin EXCEPT ![h] = stdin[h]]
      BY <1>1 DEF FrontTypes
    <2>2. CASE RunnerLoops(h)
      BY <2>1, <2>2 DEF RunnerLoops
    <2>3. CASE RunnerStops(h)
      BY <2>1, <2>3 DEF RunnerStops
    <2>4. CASE RunnerEnds(h)
      BY <2>1, <2>4 DEF RunnerEnds
    <2>5. CASE RunnerMessage(h)
      BY <2>1, <2>5 DEF RunnerMessage
    <2>6. CASE RunnerBreaks(h)
      BY <2>1, <2>6 DEF RunnerBreaks
    <2> QED BY <2>2, <2>3, <2>4, <2>5, <2>6
  <1>3. FrontTypes'
    BY <1>1, <1>2 DEF FrontTypes
  <1>4. \A g \in Host : runner'[g] = runner[g]
                        \/ (runner[g] # "none" /\ runner'[g] \notin {"none", "exec"})
    BY <1>1, <1>2 DEF FrontTypes
  <1> QED BY <1>2, <1>3, <1>4, StayingKeeps DEF Stays

LEMMA HostKeeps ==
    ASSUME LaunchAssumption, LaunchInv, NEW h \in Host,
           Bind(h) \/ SetupEnds(h) \/ PeerGone(h) \/ TransferEnds(h) \/ ReadStop(h)
    PROVE  LaunchInv'
  <1>1. FrontTypes
    BY DEF LaunchInv
  <1>2. /\ \/ \E p \in {"ok", "err", "cancelled", host[h]} : host' = [host EXCEPT ![h] = p]
           \/ host[h] = "bind" /\ host' = [host EXCEPT ![h] = "accept"]
        /\ host[h] # "none" /\ UNCHANGED <<frontVars, linkVars>>
        /\ \E t \in {"none", "sent", "read"} : stdin' = [stdin EXCEPT ![h] = t]
    <2>1. stdin[h] \in {"none", "sent", "read"} /\ stdin = [stdin EXCEPT ![h] = stdin[h]]
      BY <1>1 DEF FrontTypes
    <2>2. CASE Bind(h)
      BY <2>1, <2>2 DEF Bind, Phase
    <2>3. CASE SetupEnds(h)
      BY <2>1, <2>3 DEF SetupEnds, Phase
    <2>4. CASE PeerGone(h)
      BY <2>1, <2>4 DEF PeerGone, Phase
    <2>5. CASE TransferEnds(h)
      BY <2>1, <2>5 DEF TransferEnds, Phase
    <2>6. CASE ReadStop(h)
      <3>1. host = [host EXCEPT ![h] = host[h]]
        BY <1>1 DEF FrontTypes
      <3> QED BY <2>6, <3>1 DEF ReadStop
    <2> QED BY <2>2, <2>3, <2>4, <2>5, <2>6
  <1>3. FrontTypes'
    BY <1>1, <1>2 DEF FrontTypes, frontVars
  <1>4. \A g \in Host : Stays(g)
    BY <1>1, <1>2 DEF FrontTypes, Stays, Starting, Joined
  <1> QED BY <1>2, <1>3, <1>4, StayingKeeps DEF frontVars

LEMMA NextInv == LaunchAssumption /\ LaunchInv /\ [Next]_vars => LaunchInv'
  <1> SUFFICES ASSUME LaunchAssumption, LaunchInv, [Next]_vars PROVE LaunchInv'
    OBVIOUS
  <1>1. CASE FrontStep \/ User
    <2>1. CASE Parse
      BY <2>1, ParseKeeps
    <2>2. CASE LoginFails \/ FrontReturns \/ User
      BY <2>2, FrontKeeps
    <2>3. CASE \E h \in Host : Login(h)
      BY <2>3, LoginKeeps
    <2> QED BY <1>1, <2>1, <2>2, <2>3 DEF FrontStep
  <1>2. ASSUME NEW h \in Host,
               \/ RunnerStep(h) \/ RunnerMessage(h) \/ RunnerBreaks(h)
               \/ HostStep(h) \/ TransferEnds(h) \/ ReadStop(h)
        PROVE  LaunchInv'
    <2>1. CASE Exec(h)
      BY <2>1, ExecKeeps
    <2>2. CASE Connect(h) \/ Accept(h)
      BY <2>2, StreamStepKeeps
    <2>3. CASE OpenSockets(h)
      BY <2>3, OpenSocketsKeeps
    <2>4. CASE \/ RunnerLoops(h) \/ RunnerStops(h) \/ RunnerEnds(h)
               \/ RunnerMessage(h) \/ RunnerBreaks(h)
      BY <2>4, RunnerKeeps
    <2>5. CASE Bind(h) \/ SetupEnds(h) \/ PeerGone(h) \/ TransferEnds(h) \/ ReadStop(h)
      BY <2>5, HostKeeps
    <2> QED BY <1>2, <2>1, <2>2, <2>3, <2>4, <2>5 DEF RunnerStep, HostStep
  <1>3. CASE UNCHANGED vars
    <2>1. UNCHANGED <<frontVars, host, linkVars, stdin>>
      BY <1>3 DEF vars
    <2>2. FrontTypes'
      BY <2>1 DEF LaunchInv, FrontTypes, frontVars
    <2> QED BY <2>1, <2>2, StayingKeeps DEF frontVars, Stays
  <1> QED BY <1>1, <1>2, <1>3 DEF Next

LEMMA LaunchInvAlways == LaunchAssumption => (Spec => []LaunchInv)
  <1> SUFFICES ASSUME LaunchAssumption PROVE Spec => []LaunchInv
    OBVIOUS
  <1>1. Init => LaunchInv
    BY InitInv
  <1>2. LaunchInv /\ [Next]_vars => LaunchInv'
    BY NextInv
  <1> QED BY <1>1, <1>2, PTL DEF Spec

-----------------------------------------------------------------------------
(* Every variable keeps its type, and no port number and no iv leaves its  *)
(* range, in spite of the arithmetic of u16 (main.rs 172, 174, 662).       *)
THEOREM LaunchTypes == Spec => []TypeOK
  <1>1. LaunchInv => TypeOK
    BY TypesAre DEF LaunchInv
  <1> QED BY <1>1, LaunchInvAlways, LaunchAssumption, PTL

(* Whatever the hosts have opened, and in whatever order they connect,     *)
(* bind and accept: stream by stream both mean the same port and the same  *)
(* iv (main.rs 244, 651, 662).                                             *)
THEOREM StreamsArePaired == Spec => []StreamsPaired
  <1>1. LaunchInv => StreamsPaired
    <2> SUFFICES ASSUME LaunchInv, NEW h \in Host,
                        NEW i \in DOMAIN streams[h] \cap DOMAIN streams[Other(h)]
                 PROVE  streams[h][i] = streams[Other(h)][i]
      BY DEF StreamsPaired
    <2>1. Other(h) \in Host
      BY DEF Other, Host
    <2>2. /\ \E n \in 0..2 : streams[h] = Opened(n)
          /\ \E n \in 0..2 : streams[Other(h)] = Opened(n)
      BY <2>1 DEF LaunchInv, Streamed, Reached
    <2> QED BY <2>2 DEF Opened
  <1> QED BY <1>1, LaunchInvAlways, LaunchAssumption, PTL

(* The hosts of a transfer open the same UDP ports, none of them a control *)
(* port, and one for each thread; and whatever main makes of the options,  *)
(* no port of either kind is outside the range the user gave (main.rs 161, *)
(* 423).  --threads is taken to be below 2^16 where ports are counted.     *)
THEOREM PortsDoAgree == Spec => []PortsAgree
  <1>1. LaunchInv => PortsAgree
    <2> DEFINE control(h) == {streams[h][i].port : i \in DOMAIN streams[h]}
               ours == (options.start + 2)..options.end
    <2> SUFFICES ASSUME LaunchInv, NEW h \in Host, host[h] = "select"
                 PROVE  /\ host[Other(h)] = "select" => data[h] = data[Other(h)]
                        /\ data[h] \cap control(h) = {}
                        /\ data[h] \cup control(h) \subseteq asked.start .. asked.end
                        /\ asked.threads \in 1..(Width - 1) =>
                              Cardinality(data[h]) =
                                  IF Room < asked.threads THEN Room ELSE asked.threads
      BY DEF PortsAgree, Room
    <2>1. Other(h) \in Host
      BY DEF Other, Host
    <2>2. \A g \in Host : host[g] = "select" => data[g] = ours /\ streams[g] = Opened(2)
      BY DEF LaunchInv, Streamed, Reached, Joined
    <2>3. /\ options.start \in Nat /\ options.end \in Nat /\ options.threads \in Nat
          /\ asked.end \in Nat /\ asked.threads \in Nat /\ Width \in Nat \ {0}
      BY LaunchAssumption DEF LaunchInv, LinkTypes, OptionTypes, Port, LaunchAssumption
    <2>a. /\ options.end = options.start + (options.threads % Width) + 1
          /\ options.start = asked.start /\ options.end <= asked.end
          /\ options.threads = IF Room < asked.threads % Width THEN Room ELSE asked.threads
      BY DEF LaunchInv, Ordered, Settled
    <2>b. options.threads % Width \in 0..(Width - 1)
      <3>1. options.threads \in Int
        BY <2>3
      <3> QED BY <2>3, <3>1, ModRange, Zenon
    <2>c. options.end \in Nat /\ options.start + 1 <= options.end
      BY <2>3, <2>a, <2>b
    <2>4. control(h) \subseteq options.start..(options.start + 1)
      <3>1. streams[h] = [i \in 1..2 |-> [port |-> options.start + (i - 1), iv |-> i - 1]]
        BY <2>2 DEF Opened
      <3>2. /\ DOMAIN streams[h] = 1..2
            /\ \A i \in 1..2 : streams[h][i].port = options.start + (i - 1)
        BY <3>1
      <3>3. \A i \in DOMAIN streams[h] :
               streams[h][i].port \in options.start..(options.start + 1)
        BY <2>3, <3>2
      <3> QED BY <3>3
    <2>5. data[h] \cap control(h) = {}
      <3>1. ours \cap (options.start..(options.start + 1)) = {}
        BY <2>3
      <3> QED BY <2>2, <2>4, <3>1
    <2>6. data[h] \cup control(h) \subseteq asked.start .. asked.end
      <3>1. data[h] \subseteq asked.start .. asked.end
        <4>1. \A p \in ours : p \in asked.start .. asked.end
          BY <2>3, <2>a, <2>c
        <4> QED BY <2>2, <4>1
      <3>2. options.start..(options.start + 1) \subseteq asked.start .. asked.end
        BY <2>3, <2>a, <2>c
      <3> QED BY <2>4, <3>1, <3>2
    <2>7. ASSUME asked.threads \in 1..(Width - 1)
          PROVE  Cardinality(data[h]) = IF Room < asked.threads THEN Room ELSE asked.threads
      <3>1. asked.threads % Width = asked.threads
        BY <2>3, <2>7, SmallMod
      <3>2. /\ options.threads < Width
            /\ options.threads = IF Room < asked.threads THEN Room ELSE asked.threads
        BY <2>3, <2>a, <2>7, <3>1
      <3>3. options.threads % Width = options.threads
        BY <2>3, <3>2, SmallMod
      <3>4. options.start + 2 \in Int /\ options.end \in Int
        BY <2>3
      <3>5. Cardinality(ours) = IF options.start + 2 > options.end THEN 0
                                ELSE options.end - (options.start + 2) + 1
        BY <3>4, FS_Interval
      <3>6. Cardinality(ours) = options.threads
        <4>1. options.end = options.start + options.threads + 1
          BY <2>a, <3>3
        <4> HIDE DEF ours
        <4> QED BY <2>3, <4>1, <3>5
      <3> QED BY <2>2, <3>2, <3>6
    <2> QED BY <2>1, <2>2, <2>5, <2>6, <2>7
  <1> QED BY <1>1, LaunchInvAlways, LaunchAssumption, PTL

=============================================================================
