------------------------------ MODULE Registry ------------------------------
(***************************************************************************)
(* Which container a host name reaches: labels to Config (config.go),      *)
(* listings to s.configs and s.states (docker.go discover, syncContainers),*)
(* Host header to Config (subdomain.go, the head of proxy.go handleProxy). *)
(*                                                                         *)
(* Containers are created, removed, renamed, started and stopped by their  *)
(* owner at any time; several may claim one subdomain, and a name may come *)
(* back with other labels.  Timers, start locks and startedAt, which the   *)
(* same code touches, are in Lifecycle.                                    *)
(*                                                                         *)
(* A dotted name is the sequence of its labels; a subdomain is one too, as *)
(* strings.Join(parts, ".") is found again under the same parts.           *)
(***************************************************************************)
EXTENDS Naturals, FiniteSets, Sequences, SequencesExt

CONSTANTS
  Names,          \* container names
  Labels,         \* the label maps containers carry, records of texts
  Subs,           \* subdomains that Labels or requests mention
  Zones,          \* what requests put behind a subdomain
  TLDCount,       \* DOCKNAP_TLD_COUNT
  AdminHost,      \* DOCKNAP_ADMIN_HOST
  Numerals,       \* the texts strconv.Atoi accepts
  Durations,      \* the texts time.ParseDuration accepts
  IdleDefault, StartDefault, \* DOCKNAP_IDLE_DEFAULT, DOCKNAP_START_TIMEOUT
  MaxChanges,     \* bound: what the containers' owner does in one behaviour
  None            \* no entry in a map

ASSUME RegistryAssumption ==
  /\ TLDCount \in Nat \ {0}           \* envOrInt
  /\ \A z \in Zones : z \in Seq(STRING) /\ Len(z) = TLDCount
  /\ IsFiniteSet(Subs) /\ \A x \in Subs : x \in Seq(STRING) /\ x # <<>>
  /\ \A l \in Labels : l.subdomain \in Subs \cup {<<>>}
  /\ {IdleDefault, StartDefault} \subseteq Durations
  /\ MaxChanges \in Nat

VARIABLES
  daemon,     \* the containers on the network, newest first as the daemon
              \* lists them: records of name, labels and state ("exited"
              \* stands for every state but "running")
  sync,       \* where the one goroutine that lists containers is (Watch:
              \* OneSyncer): "start", "discover", "idle", "listed", "apply"
  listed,     \* the listing it applies
  turn,       \* how many containers of it the registering loop has done
  configs,    \* s.configs: subdomain -> Config
  states,     \* s.states: subdomain -> the cached container state
  registered, \* the gauge docknap_registered_containers
  reused,     \* history: names that were taken by another container while
              \* docknap still knew them
  changes     \* how often the owner has acted

vars == <<daemon, sync, listed, turn, configs, states, registered, reused, changes>>

Init ==
  /\ daemon = <<>> /\ listed = <<>>
  /\ sync = "start" /\ turn = 0
  /\ configs = [x \in Subs |-> None]
  /\ states = [x \in Subs |-> None]
  /\ registered = 0
  /\ reused = {}
  /\ changes = 0
-----------------------------------------------------------------------------
(* config.go *)

\* An absent or malformed duration is replaced by the default.
DurationOr(text, default) == IF text \in Durations THEN text ELSE default

ParseStrategy(text) == IF text = "pause" THEN "pause" ELSE "stop"

\* parseLabels, without the labels that only decorate the loading page.
ParseLabels(l) ==
  IF l.enable = "true" /\ l.subdomain # <<>> /\ l.target_port \in Numerals
  THEN [subdomain   |-> l.subdomain,
        container   |-> "",
        port        |-> l.target_port,
        idle        |-> DurationOr(l.idle_timeout, IdleDefault),
        startup     |-> DurationOr(l.startup_timeout, StartDefault),
        disableIdle |-> l.disable_idle = "true",
        strategy    |-> ParseStrategy(l.strategy)]
  ELSE None

Named(cfg, n) == [cfg EXCEPT !.container = n]
-----------------------------------------------------------------------------
(* Routing *)

\* Mutant: the subdomain is the first label (the rule of version 0.1).
ExtractFirst(host) == IF Len(host) <= TLDCount THEN <<>> ELSE SubSeq(host, 1, 1)

\* extractSubdomain of a name (the port is cut off; an address has none).
ExtractSubdomain(host) ==
  IF Len(host) <= TLDCount THEN <<>> ELSE SubSeq(host, 1, Len(host) - TLDCount)

\* handleProxy up to the start lock: the Config that serves a request.
Route(host) ==
  LET x == ExtractSubdomain(host)
  IN  IF host = AdminHost \/ x \notin Subs THEN None ELSE configs[x]
-----------------------------------------------------------------------------
(* discover and syncContainers *)

Claims(c, x) == ParseLabels(c.labels) # None /\ ParseLabels(c.labels).subdomain = x
NamesIn(list) == {list[i].name : i \in DOMAIN list}
Containers(cs) == {cs[x].container : x \in {y \in Subs : cs[y] # None}}

\* Mutant: the first of several containers keeps the subdomain.
DiscoverFirst(r, c) ==
  LET cfg == ParseLabels(c.labels)
  IN  IF cfg = None \/ r.configs[cfg.subdomain] # None THEN r
      ELSE [configs |-> [r.configs EXCEPT ![cfg.subdomain] = Named(cfg, c.name)],
            states |-> [r.states EXCEPT ![cfg.subdomain] = c.state]]

\* One turn of discover's loop: the last container gets the subdomain, the
\* first one decides the state.
DiscoverOne(r, c) ==
  LET cfg == ParseLabels(c.labels)
  IN  IF cfg = None THEN r
      ELSE [configs |-> [r.configs EXCEPT ![cfg.subdomain] = Named(cfg, c.name)],
            states |-> [r.states EXCEPT ![cfg.subdomain] = IF @ = None THEN c.state ELSE @]]

\* Mutant: a renamed container's service gets the new name in its old Config.
SyncRenames(r, c) ==
  LET cfg == ParseLabels(c.labels)
  IN  IF cfg = None THEN r
      ELSE [configs |-> [r.configs EXCEPT ![cfg.subdomain] =
                           IF @ = None THEN Named(cfg, c.name) ELSE Named(@, c.name)],
            states |-> [r.states EXCEPT ![cfg.subdomain] = c.state]]

\* One turn of syncContainers' registering loop: a service that is registered
\* under the same container name keeps its Config.
SyncOne(r, c) ==
  LET cfg == ParseLabels(c.labels)
  IN  IF cfg = None THEN r
      ELSE [configs |-> [r.configs EXCEPT ![cfg.subdomain] =
                           IF @ = None \/ @.container # c.name THEN Named(cfg, c.name) ELSE @],
            states |-> [r.states EXCEPT ![cfg.subdomain] = c.state]]

\* The map `known`, keyed by container name: of several subdomains that hold
\* one container it has the one the iteration over s.configs meets last.
KnownMaps ==
  {k \in [Containers(configs) -> Subs] :
     \A n \in DOMAIN k : configs[k[n]] # None /\ configs[k[n]].container = n}

\* Services whose container the listing no longer shows are deleted.
Dropped(k) ==
  LET gone == {k[n] : n \in DOMAIN k \ NamesIn(listed)}
  IN  [configs |-> [x \in Subs |-> IF x \in gone THEN None ELSE configs[x]],
       states |-> [x \in Subs |-> IF x \in gone THEN None ELSE states[x]]]

\* ContainerList.  A call that fails changes nothing (at start-up it ends the
\* process: Process).
List ==
  /\ \/ sync = "start" /\ sync' = "discover"
     \/ sync = "idle" /\ sync' = "listed"
  /\ listed' = daemon
  /\ UNCHANGED <<daemon, turn, configs, states, registered, reused, changes>>

Maps == [configs |-> configs, states |-> states]

\* The loops inspect running containers as they go: the daemon's containers
\* change between two turns.
Turn(r) ==
  /\ turn < Len(listed)
  /\ configs' = r.configs /\ states' = r.states
  /\ turn' = turn + 1
  /\ UNCHANGED <<daemon, sync, listed, registered, reused, changes>>

\* After the loop the gauge is set (main sets it after discover).
LoopEnds ==
  /\ turn = Len(listed)
  /\ registered' = Cardinality({x \in Subs : configs[x] # None})
  /\ reused' = reused \cap Containers(configs)
  /\ sync' = "idle" /\ listed' = <<>> /\ turn' = 0
  /\ UNCHANGED <<daemon, configs, states, changes>>

DiscoverTurn == sync = "discover" /\ Turn(DiscoverOne(Maps, listed[turn + 1]))
DiscoverEnds == sync = "discover" /\ LoopEnds

\* syncContainers takes s.mu, and holds it to the end of its second loop.
SyncDrops ==
  /\ sync = "listed" /\ sync' = "apply"
  /\ \E k \in KnownMaps : configs' = Dropped(k).configs /\ states' = Dropped(k).states
  /\ UNCHANGED <<daemon, listed, turn, registered, reused, changes>>

SyncTurn == sync = "apply" /\ Turn(SyncOne(Maps, listed[turn + 1]))
SyncEnds == sync = "apply" /\ LoopEnds
-----------------------------------------------------------------------------
(* The containers' owner *)

docknap == <<sync, listed, turn, configs, states, registered>>

\* A name that docknap still knows is taken by another container.
Taken(n) == reused' = reused \cup ({n} \cap (Containers(configs) \cup NamesIn(listed)))

Create(n, l) ==
  /\ n \notin NamesIn(daemon)
  /\ daemon' = <<[name |-> n, labels |-> l, state |-> "exited"]>> \o daemon
  /\ Taken(n)
  /\ UNCHANGED docknap

Destroy(i) ==
  /\ daemon' = RemoveAt(daemon, i)
  /\ UNCHANGED <<docknap, reused>>

Rename(i, n) ==
  /\ n \notin NamesIn(daemon)
  /\ daemon' = [daemon EXCEPT ![i].name = n]
  /\ Taken(n)
  /\ UNCHANGED docknap

Switch(i) ==
  /\ daemon' = [daemon EXCEPT ![i].state = IF @ = "running" THEN "exited" ELSE "running"]
  /\ UNCHANGED <<docknap, reused>>

Owner ==
  /\ changes < MaxChanges
  /\ changes' = changes + 1
  /\ \/ \E n \in Names : \/ \E l \in Labels : Create(n, l)
                         \/ \E i \in DOMAIN daemon : Rename(i, n)
     \/ \E i \in DOMAIN daemon : Destroy(i) \/ Switch(i)

Syncer == List \/ DiscoverTurn \/ DiscoverEnds \/ SyncDrops \/ SyncTurn \/ SyncEnds

Next == Syncer \/ Owner

\* The watch loop lists again and again (Watch: EventuallySynced).
Spec == Init /\ [][Next]_vars /\ WF_vars(Syncer)
-----------------------------------------------------------------------------
Container == [name : Names, labels : Labels, state : {"running", "exited"}]
Config == [subdomain : Subs, container : Names, port : Numerals, idle : Durations,
           startup : Durations, disableIdle : BOOLEAN, strategy : {"stop", "pause"}]

\* TypeOK: every variable has its type; a Config is stored under its own
\* subdomain and, once stored, names its container.
TypeOK ==
  /\ daemon \in Seq(Container) /\ listed \in Seq(Container) /\ turn \in 0..Len(listed)
  /\ sync \in {"start", "discover", "idle", "listed", "apply"}
  /\ configs \in [Subs -> Config \cup {None}]
  /\ \A x \in Subs : configs[x] # None => configs[x].subdomain = x
  /\ states \in [Subs -> {"running", "exited", None}]
  /\ registered \in 0..Cardinality(Subs)
  /\ reused \subseteq Names /\ changes \in 0..MaxChanges

\* LabelsFollow: a service is served with the labels of the container that
\* bears its name now, through removals, renames and rival claims, unless that
\* name was taken again before docknap noticed (docker.go:180 keeps the Config
\* of a name it knows).
LabelsFollow ==
  \A x \in Subs : \A i \in DOMAIN daemon :
    configs[x] # None /\ configs[x].container = daemon[i].name /\ daemon[i].name \notin reused
      => configs[x] = Named(ParseLabels(daemon[i].labels), daemon[i].name)

\* The container that claims x, of the first n of a list the last one; 0: none.
LastClaimant(list, n, x) ==
  LET claims == {i \in 1..n : Claims(list[i], x)}
  IN  IF claims = {} THEN 0 ELSE Max(claims)

\* The registry agrees with the daemon: every host of a claimed subdomain
\* reaches the container listed last among the claimants and the cached state
\* is that container's; nothing else is registered, except under a name that
\* was taken again.
Follows ==
  /\ \A x \in Subs :
       LET i == LastClaimant(daemon, Len(daemon), x)
       IN  IF i = 0
           THEN \/ configs[x] = None /\ states[x] = None
                \/ configs[x] # None /\ configs[x].container \in reused \cap NamesIn(daemon)
           ELSE /\ states[x] = daemon[i].state
                /\ \A z \in Zones : x \o z # AdminHost =>
                     Route(x \o z) # None /\ Route(x \o z).container = daemon[i].name
  /\ registered = Cardinality({x \in Subs : configs[x] # None})

\* Converges: once the containers are left alone, the registry comes to agree
\* with them and stays so, whatever came before and however stale the listing
\* then being applied is, for everyone who waits for s.mu while syncContainers
\* holds it (discover, syncContainers, extractSubdomain).
Converges == <>[][FALSE]_daemon => <>[](sync # "apply" => Follows)

\* The Config for x after n turns of discover's loop.
Granted(list, n, x) ==
  LET i == LastClaimant(list, n, x)
  IN  IF i = 0 THEN None ELSE Named(ParseLabels(list[i].labels), list[i].name)

\* DiscoverFollows: the listing at start-up already gives every subdomain to
\* the container syncContainers will keep it with, so that no route moves at
\* the first sync, also when containers compete for it (docker.go discover).
DiscoverFollows ==
  [][sync = "discover" /\ sync' = "idle" =>
       \A x \in Subs : configs'[x] = Granted(listed, Len(listed), x)]_vars

\* SyncFollows: when syncContainers releases s.mu, every host of a subdomain
\* that the listing claims reaches the last container that claims it, and the
\* state is that one's, whoever had it before and whoever was dropped.
SyncFollows ==
  [][sync = "apply" /\ sync' = "idle" =>
       \A x \in Subs :
         LET i == LastClaimant(listed, Len(listed), x)
         IN  i # 0 => /\ states'[x] = listed[i].state
                      /\ \A z \in Zones : x \o z # AdminHost =>
                           Route(x \o z)'.container = listed[i].name]_vars

\* LabelsPickedUp: what CHANGELOG.md:39 says of the watch loop: "Label changes on
\* running containers are picked up immediately rather than waiting for a
\* restart."  Docker changes labels by replacing the container, and a container
\* replaced under its name between two listings keeps the old Config for good
\* (docker.go:180).
LabelsPickedUp ==
  <>[][FALSE]_daemon => <>[](sync # "apply" =>
    \A x \in Subs : LET i == LastClaimant(daemon, Len(daemon), x)
                    IN  i # 0 => configs[x] = Named(ParseLabels(daemon[i].labels), daemon[i].name))
=============================================================================
