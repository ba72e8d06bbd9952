----------------------------- MODULE Discovery -----------------------------
(***************************************************************************)
(* internal/discovery, and the part of engine.poll that merges what it     *)
(* finds: the ports of the remote host's containers (docker ps and, for    *)
(* ports that are not published, docker inspect), the sockets the host     *)
(* listens on (ss), and the forwards declared on the command line.         *)
(*                                                                         *)
(* The remote host changes between the commands of one poll.  A container  *)
(* is its id, a name its user sees is left out; the text the commands      *)
(* print is modelled by the entries the parsers find in it.                *)
(***************************************************************************)
EXTENDS Naturals, Sequences, SequencesExt

CONSTANTS
  Containers,        \* container ids
  Hidden,            \* those whose name -include and -exclude filter out
  NoNetwork,         \* those on no network: they have no address while they run
  OddIds,            \* those whose id filterIDs keeps off the command line
  Columns,           \* of each container: the Ports columns docker may show
  Services,          \* the host's own sockets: [addr, port]
  SkipPorts,         \* our own SSH port
  ExcludedPorts,     \* host ports matched by -host-exclude
  Forwards,          \* the -forward flags, in order
  MaxPortsPerRange,
  MaxChanges,        \* bound: changes of the remote host
  MaxFailures        \* bound: commands that fail for no reason of the model

ASSUME LimitAssumption == MaxPortsPerRange \in Nat \ {0}

Loopback == "127.0.0.1"
Wildcards == {"", "*", "0.0.0.0", "::"}
\* A container that docker ps does not list, or that shows no port: nothing here
\* tells them apart.
Down == <<>>

\* An entry of a Ports column is published ("5->6"), exposed ("6") or neither; a
\* port range is <<low>> or <<low, high>>.
Ranges == [1..1 -> Nat] \cup [1..2 -> Nat]
Entries ==
  [kind : {"published"}, ip : STRING, host : Ranges, cont : Ranges, proto : STRING]
  \cup [kind : {"exposed", "odd"}, ip : STRING, host : {<<>>}, cont : Ranges,
       proto : STRING]

ASSUME HostAssumption ==
  /\ \A c \in Containers : Columns[c] \subseteq Seq(Entries)
  /\ Services \subseteq [addr : STRING, port : Nat]
  /\ Forwards \in Seq([label : STRING, local : Ranges \cup {<<>>}, remote : Ranges,
                       host : STRING])

\* No container's id looks like an address.
ASSUME IdAssumption == {"", Loopback} \cap Containers = {}

\* A definition named Faulty... is a seeded fault: the definition that follows
\* it with a plausible slip of the code.  Nothing uses it; the properties below
\* are expected to reject it.

-----------------------------------------------------------------------------
(* The Ports column of docker ps.                                          *)

Refused == <<>>

ExpandRange(r) ==
  IF Len(r) = 1 THEN r
  ELSE IF r[2] < r[1] \/ r[2] - r[1] + 1 > MaxPortsPerRange THEN Refused
  ELSE [i \in 1..(r[2] - r[1] + 1) |-> r[1] + i - 1]

\* An entry that cannot be understood is a warning and gives no port.
SpecsOf(entry) ==
  LET inner == ExpandRange(entry.cont)
      outer == ExpandRange(entry.host)
      Spec(i, h) == [ip |-> entry.ip, hostPort |-> h, port |-> inner[i],
                     proto |-> entry.proto]
  IN CASE entry.kind = "exposed" -> [i \in DOMAIN inner |-> Spec(i, 0)]
       [] entry.kind = "published" /\ Len(outer) = Len(inner) ->
            [i \in DOMAIN inner |-> Spec(i, outer[i])]
       [] OTHER -> <<>>

Mentioned(column) == FlattenSeq([i \in DOMAIN column |-> SpecsOf(column[i])])

IsPublished(spec) == spec.hostPort # 0
SamePort(s, t) == s.port = t.port /\ s.proto = t.proto

\* The rows for IPv4 and IPv6 collapse; a published one is preferred, and the
\* first among those.
FaultyCollapse(specs, s) == {t \in specs : ~SamePort(s, t)} \cup {s}

Collapse(specs, s) ==
  LET same == {t \in specs : SamePort(s, t)} IN
  IF same = {} THEN specs \cup {s}
  ELSE IF IsPublished(s) /\ \A t \in same : ~IsPublished(t)
    THEN (specs \ same) \cup {s}
  ELSE specs

\* The loop of ParsePorts: what is kept of the first i mentions.
Collapsed(mentions) ==
  LET kept[i \in 0..Len(mentions)] ==
        IF i = 0 THEN {} ELSE Collapse(kept[i - 1], mentions[i])
  IN kept[Len(mentions)]

ParsePorts(column) == Collapsed(Mentioned(column))

-----------------------------------------------------------------------------
(* Candidates.  A row is what PortMap.Key and Target tell apart.           *)

KeyOf(row) == <<row.src, row.owner, row.port, row.proto>>

DockerRow(c, s) ==
  [src |-> "docker", owner |-> c, port |-> s.port, proto |-> s.proto,
   hostPort |-> s.hostPort, pref |-> IF IsPublished(s) THEN s.hostPort ELSE s.port,
   target |-> IF IsPublished(s) THEN Loopback ELSE ""]

\* Where a socket is reached from the remote host's own point of view.
DialHost(addr) == IF addr \in Wildcards THEN Loopback ELSE addr

HostRow(socket) ==
  [src |-> "host", owner |-> "host", port |-> socket.port, proto |-> "tcp",
   hostPort |-> socket.port, pref |-> socket.port,
   target |-> DialHost(socket.addr)]

\* One -forward flag: a row per port, with the local port it asks for.
ForwardRows(f) ==
  LET remote == ExpandRange(f.remote)
      local  == ExpandRange(f.local)
  IN [i \in DOMAIN remote |->
       [src |-> "static", owner |-> f.label, port |-> remote[i],
        proto |-> "tcp", hostPort |-> remote[i],
        pref |-> IF f.local = <<>> THEN remote[i] ELSE local[i],
        target |-> f.host]]

\* ParseForwards turns the program down when one flag is bad.
ValidForward(f) ==
  /\ ExpandRange(f.remote) # Refused
  /\ f.local # <<>> => Len(ExpandRange(f.local)) = Len(ExpandRange(f.remote))

\* dedupeKeys: the first candidate of each key.  Docker's rows and the host's
\* have one per key as they come.
FaultyFirstPerKey(rowSeq) == ToSet(rowSeq)

FirstPerKey(rowSeq) ==
  {rowSeq[i] : i \in {j \in DOMAIN rowSeq :
                   \A k \in 1..(j - 1) : KeyOf(rowSeq[k]) # KeyOf(rowSeq[j])}}

StaticRows ==
  FirstPerKey(FlattenSeq([i \in DOMAIN Forwards |-> ForwardRows(Forwards[i])]))

ASSUME ForwardsAssumption == \A i \in DOMAIN Forwards : ValidForward(Forwards[i])


DropDockerPublished(docker, host) ==
  {h \in host : \A d \in docker : ~IsPublished(d) \/ d.hostPort # h.port}

Merged(docker, host) ==
  docker \cup DropDockerPublished(docker, host) \cup StaticRows

-----------------------------------------------------------------------------
VARIABLES
  up,          \* the remote host: the column of each container, or Down
  removed,     \* the containers it no longer knows
  services,    \* its own sockets that are listening
  unpublished, \* the flag -include-unpublished
  pc,          \* where the poll stands
  found,       \* Discover's result between docker ps and docker inspect
  lastDocker,  \* engine.lastDocker
  lastHost,    \* engine.lastHost
  rows,        \* the merged set handed to the manager
  seen,        \* history: the containers as docker ps last listed them
  shown,       \* history: seen, as of the last merge
  changes, failures

remoteVars == <<up, removed, services>>
cacheVars  == <<lastDocker, lastHost>>
seenVars   == <<seen, shown>>
vars == <<remoteVars, unpublished, pc, found, cacheVars, rows, seenVars,
          changes, failures>>

\* The sockets of the remote host: one for every published port of a running
\* container (docker-proxy), collapsed or not, and its own.
Proxies(column) ==
  {[addr |-> s.ip, port |-> s.hostPort] :
     s \in {t \in Range(Mentioned(column)) : IsPublished(t) /\ t.proto = "tcp"}}

Sockets == services \cup UNION {Proxies(up[c]) : c \in Containers}

\* The containers Discover keeps, and the ports of theirs it asks for.
Listed == {c \in Containers \ Hidden : up[c] # Down}

Wanted ==
  UNION {{DockerRow(c, s) : s \in {t \in ParsePorts(up[c]) :
                                     IsPublished(t) \/ unpublished}} : c \in Listed}

NeedsIP(docker) == {d \in docker : d.target = ""}
Owners(docker) == {d.owner : d \in docker}

\* A container that has stopped or is on no network has no address.
HasAddress(c) == up[c] # Down /\ c \notin NoNetwork

\* The ids docker inspect is called with.
Asked(docker) == Owners(NeedsIP(docker)) \ OddIds

\* What becomes of the rows that wait for an address: those of the containers
\* with one get it (an address is as good as the container's name), the others
\* are dropped.
Attached(docker, resolved) ==
  (docker \ NeedsIP(docker))
    \cup {[d EXCEPT !.target = d.owner] :
            d \in {n \in NeedsIP(docker) : n.owner \in resolved}}

Init ==
  /\ up = [c \in Containers |-> Down]
  /\ removed = {}
  /\ services = {}
  /\ unpublished \in BOOLEAN
  /\ pc = "ps"
  /\ found = {}
  /\ lastDocker = {} /\ lastHost = {}
  /\ rows = {}
  /\ seen = up /\ shown = up
  /\ changes = 0 /\ failures = 0

-----------------------------------------------------------------------------
(* One poll.                                                               *)

\* docker ps answers; ports without an address send for docker inspect.
PsAnswers ==
  /\ pc = "ps"
  /\ seen' = up
  /\ IF NeedsIP(Wanted) = {}
       THEN /\ lastDocker' = Wanted
            /\ pc' = "host"
            /\ UNCHANGED found
       ELSE /\ found' = Wanted
            /\ pc' = "inspect"
            /\ UNCHANGED lastDocker
  /\ UNCHANGED <<remoteVars, unpublished, lastHost, rows, shown, changes,
                 failures>>

Fails == failures < MaxFailures /\ failures' = failures + 1

\* The last good answer stands in.
FaultyDockerAfterFailure == {}
DockerAfterFailure == lastDocker

PsFails ==
  /\ pc = "ps"
  /\ Fails
  /\ lastDocker' = DockerAfterFailure
  /\ pc' = "host"
  /\ UNCHANGED <<remoteVars, unpublished, found, lastHost, rows, seenVars,
                 changes>>

\* docker inspect knows every container it is asked about.  One that has no
\* address, stopped or on no network, costs its own rows alone.
InspectAnswers ==
  /\ pc = "inspect"
  /\ Asked(found) \cap removed = {}
  /\ lastDocker' = Attached(found, {c \in Asked(found) : HasAddress(c)})
  /\ found' = {}
  /\ pc' = "host"
  /\ UNCHANGED <<remoteVars, unpublished, lastHost, rows, seenVars, changes,
                 failures>>

\* One id that is unknown makes the whole command fail, and a failure counts as a
\* warning: nobody has an address, the rest is a good answer.
InspectFails ==
  /\ pc = "inspect"
  /\ \/ Asked(found) # {} /\ Fails
     \/ Asked(found) \cap removed # {} /\ UNCHANGED failures
  /\ lastDocker' = Attached(found, {})
  /\ found' = {}
  /\ pc' = "host"
  /\ UNCHANGED <<remoteVars, unpublished, lastHost, rows, seenVars, changes>>

\* ss answers: of the sockets on one port, the one it happens to list first
\* gives the row.
HostAnswers ==
  /\ pc = "host"
  /\ \E first \in [{s.port : s \in Sockets} -> Sockets] :
       /\ \A p \in DOMAIN first : first[p].port = p
       /\ lastHost' = {HostRow(first[p]) :
                         p \in DOMAIN first \ (SkipPorts \cup ExcludedPorts)}
  /\ pc' = "merge"
  /\ UNCHANGED <<remoteVars, unpublished, found, lastDocker, rows, seenVars,
                 changes, failures>>

HostFails ==
  /\ pc = "host"
  /\ Fails
  /\ pc' = "merge"
  /\ UNCHANGED <<remoteVars, unpublished, found, cacheVars, rows, seenVars,
                 changes>>

Merge ==
  /\ pc = "merge"
  /\ rows' = Merged(lastDocker, lastHost)
  /\ shown' = seen
  /\ pc' = "ps"
  /\ UNCHANGED <<remoteVars, unpublished, found, cacheVars, seen, changes,
                 failures>>

-----------------------------------------------------------------------------
(* The remote host.  Two owners never listen on one port.                  *)

Changes == changes < MaxChanges /\ changes' = changes + 1

PortsUsed == {s.port : s \in Sockets}

ContainerStarts(c, column) ==
  /\ up[c] = Down /\ c \notin removed
  /\ Changes
  /\ up' = [up EXCEPT ![c] = column]
  /\ {s.port : s \in Proxies(column)} \cap PortsUsed = {}
  /\ UNCHANGED <<removed, services, unpublished, pc, found, cacheVars, rows,
                 seenVars, failures>>

\* A container stops and can be started again, or it is removed at once (a
\* container run with --rm, docker rm -f) and another one takes its place.
ContainerEnds(c) ==
  /\ up[c] # Down
  /\ Changes
  /\ up' = [up EXCEPT ![c] = Down]
  /\ removed' \in {removed, removed \cup {c}}
  /\ UNCHANGED <<services, unpublished, pc, found, cacheVars, rows, seenVars,
                 failures>>

ServiceStarts(s) ==
  /\ s \notin services
  /\ Changes
  /\ s.port \notin PortsUsed \ {t.port : t \in services}
  /\ services' = services \cup {s}
  /\ UNCHANGED <<up, removed, unpublished, pc, found, cacheVars, rows,
                 seenVars, failures>>

ServiceStops(s) ==
  /\ s \in services
  /\ Changes
  /\ services' = services \ {s}
  /\ UNCHANGED <<up, removed, unpublished, pc, found, cacheVars, rows, seenVars,
                 failures>>

-----------------------------------------------------------------------------
Poll == PsAnswers \/ PsFails \/ InspectAnswers \/ InspectFails \/ HostAnswers
          \/ HostFails \/ Merge

Next ==
  \/ Poll
  \/ \E c \in Containers :
       (\E column \in Columns[c] : ContainerStarts(c, column)) \/ ContainerEnds(c)
  \/ \E s \in Services : ServiceStarts(s) \/ ServiceStops(s)

Spec == Init /\ [][Next]_vars

\* Polls go on for as long as the engine runs (module Engine), and each of their
\* commands answers or fails.  Nothing makes the remote host change.
Fairness == WF_vars(Poll)

FairSpec == Spec /\ Fairness

-----------------------------------------------------------------------------
(* Properties.                                                             *)

\* README.md: the IPv4 and IPv6 entries of one port are one candidate, "the same
\* 64-port cap" holds for ranges, and a published mapping is preferred.  Stated
\* without the loop of ParsePorts: of all the mentions of a port by entries
\* whose ranges are small enough, the first published one, else the first.
FitsCap(r) == Len(r) = 2 => r[2] >= r[1] /\ r[2] - r[1] < MaxPortsPerRange

Fits(entry) ==
  FitsCap(entry.cont) /\ (entry.kind = "published" => FitsCap(entry.host))

MentionsThatFit(column) ==
  FlattenSeq([i \in DOMAIN column |->
                IF Fits(column[i]) THEN SpecsOf(column[i]) ELSE <<>>])

\* Mention i of m is the one that counts for its port.
Rivals(m, i) == {j \in DOMAIN m : SamePort(m[i], m[j])}
Wins(m, i) ==
  /\ \A j \in Rivals(m, i) : j < i => IsPublished(m[i]) /\ ~IsPublished(m[j])
  /\ \A j \in Rivals(m, i) : IsPublished(m[j]) => IsPublished(m[i])

Best(m) == {m[i] : i \in {k \in DOMAIN m : Wins(m, k)}}

ParseTakesTheBest ==
  \A c \in Containers : up[c] # Down => ParsePorts(up[c]) = Best(MentionsThatFit(up[c]))

\* What a poll hands to the manager has one row per key, whichever source is
\* fresh and whichever is cached, and the declared forwards are always in it,
\* the first of two with one label and port.
OneRowPerKey ==
  /\ \A r, s \in rows : KeyOf(r) = KeyOf(s) => r = s
  /\ rows # {} => \A i \in DOMAIN Forwards : \A f \in Range(ForwardRows(Forwards[i])) :
       \E r \in rows : KeyOf(r) = KeyOf(f)

\* The rows docker should give: of each container that is listed, the best
\* mention of each port that is published, or that is asked for all the same and
\* can be reached at the container's address.
Reachable(c, s) ==
  IsPublished(s) \/ (unpublished /\ HasAddress(c) /\ c \notin OddIds)

PortsOf(c) == {s \in Best(MentionsThatFit(up[c])) : Reachable(c, s)}

RowsFrom(src) == {r \in rows : r.src = src}

DockerIsTrue ==
  {<<r.owner, r.port, r.proto, r.hostPort, r.target>> : r \in RowsFrom("docker")}
    = UNION {{<<c, s.port, s.proto, s.hostPort, IF IsPublished(s) THEN Loopback ELSE c>> :
                s \in PortsOf(c)} : c \in Listed}

\* The host's rows are its services, each at its address.  Two exceptions are the
\* code's.  A service is hidden behind a container's port that is published on
\* the same number over UDP; and docker-proxy's own sockets are told from services
\* only by the port of a container's row, so that those of a hidden container,
\* and those of a further host port of one container port, have rows.
ShownPorts(protos) ==
  {s.hostPort : s \in {t \in UNION {PortsOf(c) : c \in Listed} : t.proto \in protos}}

BehindUdp == ShownPorts({"udp"})

Leftovers ==
  LET containers == ShownPorts({"tcp", "udp"}) IN
  {s \in UNION {Proxies(up[c]) : c \in Containers} : s.port \notin containers}

HostIsTrue ==
  /\ {s.port : s \in services} \ (SkipPorts \cup ExcludedPorts \cup BehindUdp)
       \subseteq {r.port : r \in RowsFrom("host")}
  /\ {<<r.port, r.target>> : r \in RowsFrom("host")}
       \subseteq {<<s.port, DialHost(s.addr)>> : s \in services \cup Leftovers}


\* README.md: "A source that fails a poll contributes what it last reported".  A
\* row of a published port stays, target and all, when docker lists its container
\* as it did before, or does not answer.
Stays(r) == r.src = "docker" /\ shown[r.owner] = seen[r.owner]

PublishedAreUndisturbed ==
  [][pc = "merge" =>
       \A r \in rows : Stays(r) /\ r.target = Loopback => r \in rows']_vars

\* README.md: "Unrelated container churn never disturbs a working tunnel".  A row
\* that docker ps has just listed again, and whose container runs and has its
\* address, is still in the answer when docker inspect is through.
ListedAgain(r) == \E d \in found : r = [d EXCEPT !.target = r.target]

ChurnDisturbsNothing ==
  [][pc = "inspect" /\ pc' # "inspect" =>
       \A r \in rows :
         r.src = "docker" /\ ListedAgain(r) /\ HasAddress(r.owner) => r \in lastDocker']_vars
=============================================================================
