--------------------------- MODULE RegistryProofs ---------------------------
(***************************************************************************)
(* Theorems about Registry: routes follow the containers' labels for all   *)
(* names, labels and subdomains, however many containers there are.        *)
(***************************************************************************)
EXTENDS Registry, FiniteSetTheorems, SequenceTheorems, TLAPS

-----------------------------------------------------------------------------
(* Labels *)

\* cfg.Container = name.
LEMMA NamedRecord ==
  ASSUME NEW x, NEW c, NEW p, NEW i, NEW u, NEW d, NEW y, NEW n
  PROVE  Named([subdomain |-> x, container |-> c, port |-> p, idle |-> i, startup |-> u,
                disableIdle |-> d, strategy |-> y], n)
           = [subdomain |-> x, container |-> n, port |-> p, idle |-> i, startup |-> u,
              disableIdle |-> d, strategy |-> y]
  BY DEF Named

\* What parseLabels makes of the labels of a container named n.
LEMMA ParsedLabels ==
  ASSUME NEW l \in Labels, ParseLabels(l) # None, NEW n \in Names
  PROVE  /\ ParseLabels(l).subdomain \in Subs
         /\ Named(ParseLabels(l), n) \in Config
         /\ Named(ParseLabels(l), n).container = n
         /\ Named(ParseLabels(l), n).subdomain = ParseLabels(l).subdomain
<1>1. PICK b, e : b \in BOOLEAN /\ b = (l.disable_idle = "true") /\ e = ""
  BY Zenon
<1> DEFINE idle == DurationOr(l.idle_timeout, IdleDefault)
           startup == DurationOr(l.startup_timeout, StartDefault)
           p == [subdomain |-> l.subdomain, container |-> e, port |-> l.target_port, idle |-> idle,
                 startup |-> startup, disableIdle |-> b, strategy |-> ParseStrategy(l.strategy)]
           q == [subdomain |-> l.subdomain, container |-> n, port |-> l.target_port, idle |-> idle,
                 startup |-> startup, disableIdle |-> b, strategy |-> ParseStrategy(l.strategy)]
<1>2. ParseLabels(l) = p /\ l.subdomain # <<>> /\ l.target_port \in Numerals
  <2>1. l.enable = "true" /\ l.subdomain # <<>> /\ l.target_port \in Numerals
    BY Zenon DEF ParseLabels
  <2>2. ParseLabels(l) = [subdomain |-> l.subdomain, container |-> "", port |-> l.target_port, idle |-> idle,
                          startup |-> startup, disableIdle |-> l.disable_idle = "true",
                          strategy |-> ParseStrategy(l.strategy)]
    BY <2>1, Zenon DEF ParseLabels
  <2>3. QED
    BY <1>1, <2>1, <2>2, Zenon
<1>3. l.subdomain \in Subs
  BY <1>2, RegistryAssumption
<1>4. idle \in Durations /\ startup \in Durations /\ ParseStrategy(l.strategy) \in {"stop", "pause"}
  BY RegistryAssumption DEF DurationOr, ParseStrategy
<1>5. Named(p, n) = q
  BY NamedRecord
<1>6. q \in Config
  BY <1>1, <1>2, <1>3, <1>4 DEF Config
<1>7. p.subdomain = l.subdomain /\ q.subdomain = l.subdomain /\ q.container = n
  OBVIOUS
<1> HIDE DEF p, q
<1>8. QED
  BY <1>2, <1>3, <1>5, <1>6, <1>7
-----------------------------------------------------------------------------
(* Hosts *)

\* What is put behind a subdomain is cut off again.
LEMMA CutOff ==
  ASSUME NEW S, NEW x \in Seq(S), NEW z \in Seq(S), Len(z) = TLDCount, x # <<>>
  PROVE  ExtractSubdomain(x \o z) = x
<1> DEFINE h == x \o z
           m == Len(x)
           n == Len(z)
<1>1. m \in Nat /\ n \in Nat /\ n # 0 /\ m # 0
  BY RegistryAssumption, LenProperties, EmptySeq
<1>2. h \in Seq(S) /\ Len(h) = m + n /\ \A i \in 1..(m + n) : h[i] = IF i <= m THEN x[i] ELSE z[i - m]
  BY ConcatProperties
<1> HIDE DEF h
<1>3. ~ (Len(h) <= TLDCount) /\ Len(h) - TLDCount = m
  BY <1>1, <1>2
<1>4. ExtractSubdomain(h) = SubSeq(h, 1, m)
  BY <1>3 DEF ExtractSubdomain
<1> HIDE DEF m, n
<1>5. \A i \in 1..m : h[i] = x[i] /\ x[i] \in S
  <2>1. \A i \in 1..m : i \in 1..(m + n) /\ i <= m
    BY <1>1
  <2>2. QED
    BY <1>2, <2>1, ElementOfSeq DEF m
<1>6. /\ SubSeq(h, 1, m) \in Seq(S) /\ Len(SubSeq(h, 1, m)) = IF 1 <= m THEN m - 1 + 1 ELSE 0
      /\ \A i \in 1..(m - 1 + 1) : SubSeq(h, 1, m)[i] = h[1 + i - 1]
  <2>1. 1 \in Int /\ m \in Int /\ \A i \in 1..m : h[i] \in S
    BY <1>1, <1>5
  <2>2. QED
    BY <2>1, SubSeqProperties
<1>7. /\ (IF 1 <= m THEN m - 1 + 1 ELSE 0) = m /\ m - 1 + 1 = m
      /\ \A i \in 1..m : 1 + i - 1 = i
  BY <1>1
<1>8. Len(SubSeq(h, 1, m)) = Len(x) /\ \A i \in 1..Len(x) : SubSeq(h, 1, m)[i] = x[i]
  BY <1>5, <1>6, <1>7 DEF m
<1>9. SubSeq(h, 1, m) = x
  <2>1. PICK s : s = SubSeq(h, 1, m)
    OBVIOUS
  <2>2. QED
    BY <1>6, <1>8, <2>1, SeqEqual
<1>10. QED
  BY <1>4, <1>9 DEF h

\* A host of a subdomain is split where it was put together.
LEMMA HostSplits ==
  ASSUME NEW x \in Subs, NEW z \in Zones
  PROVE  ExtractSubdomain(x \o z) = x
<1>1. PICK S : S = STRING
  OBVIOUS
<1>2. x \in Seq(S) /\ x # <<>> /\ z \in Seq(S) /\ Len(z) = TLDCount
  BY <1>1, RegistryAssumption
<1>3. QED
  BY <1>2, CutOff
-----------------------------------------------------------------------------
(* The invariant *)

\* No two containers have one name.
NamesApart == \A i, j \in DOMAIN daemon : daemon[i].name = daemon[j].name => i = j

\* A listed container has the labels of the one that bears its name now, if
\* the name was not taken again.
ListedFollow ==
  \A j \in DOMAIN listed : \A i \in DOMAIN daemon :
    listed[j].name = daemon[i].name /\ daemon[i].name \notin reused => listed[j].labels = daemon[i].labels

\* After n turns every subdomain claimed so far is with the last claimant.
Routed(cs, ss, list, n) ==
  \A x \in Subs :
    LET i == LastClaimant(list, n, x)
    IN  i # 0 => cs[x].container = list[i].name /\ ss[x] = list[i].state

\* RoutesInv is inductive: the registry follows the labels, and each loop has
\* done its work up to the present turn.
RoutesInv ==
  /\ TypeOK /\ NamesApart /\ ListedFollow /\ LabelsFollow
  /\ sync = "start" => \A x \in Subs : configs[x] = None
  /\ sync \notin {"discover", "apply"} => turn = 0
  /\ sync = "discover" => \A x \in Subs : configs[x] = Granted(listed, turn, x)
  /\ sync = "apply" => Routed(configs, states, listed, turn)

\* One more turn: x goes to the container of this turn if that one claims it.
LEMMA ClaimNext ==
  ASSUME NEW list, NEW n \in Nat, NEW x
  PROVE  LastClaimant(list, n + 1, x) = IF Claims(list[n + 1], x) THEN n + 1 ELSE LastClaimant(list, n, x)
<1> DEFINE A == {i \in 1..n : Claims(list[i], x)}
           B == {i \in 1..(n + 1) : Claims(list[i], x)}
<1>1. 1..(n + 1) = (1..n) \cup {n + 1}
  OBVIOUS
<1>2. CASE Claims(list[n + 1], x)
  <2>1. n + 1 \in B /\ \A i \in B : i \in Nat /\ n + 1 >= i
    BY <1>2
  <2>2. Max(B) = n + 1
    <3> HIDE DEF B
    <3>1. QED
      BY <2>1 DEF Max
  <2>3. QED
    BY <1>2, <2>1, <2>2 DEF LastClaimant
<1>3. CASE ~ Claims(list[n + 1], x)
  <2>1. B = A
    BY <1>1, <1>3
  <2>2. QED
    BY <1>3, <2>1 DEF LastClaimant
<1>4. QED
  BY <1>2, <1>3

\* No turn, no claim.
LEMMA ClaimNone ==
  ASSUME NEW list, NEW x
  PROVE  LastClaimant(list, 0, x) = 0
<1>1. {i \in 1..0 : Claims(list[i], x)} = {}
  OBVIOUS
<1>2. QED
  BY <1>1 DEF LastClaimant
-----------------------------------------------------------------------------
(* The containers' owner *)

\* Every container was there before, with its name and its labels, or bears a
\* name of N, and those that docknap knew are noted.
Descends(N) ==
  /\ daemon' \in Seq(Container) /\ NamesApart'
  /\ \A i \in DOMAIN daemon' :
       \/ daemon'[i].name \in N
       \/ \E j \in DOMAIN daemon : daemon'[i].name = daemon[j].name /\ daemon'[i].labels = daemon[j].labels
  /\ N \subseteq Names /\ reused' = reused \cup (N \cap (Containers(configs) \cup NamesIn(listed)))

LEMMA CreateDescends ==
  ASSUME TypeOK, NamesApart, NEW n \in Names, NEW l \in Labels, Create(n, l)
  PROVE  Descends({n})
<1> DEFINE c == [name |-> n, labels |-> l, state |-> "exited"]
           m == Len(daemon)
<1>1. c \in Container /\ c.name = n
  BY DEF Container
<1>2. daemon \in Seq(Container) /\ m \in Nat /\ DOMAIN daemon = 1..m
  BY LenProperties DEF TypeOK
<1>3. daemon' = <<c>> \o daemon /\ n \notin NamesIn(daemon) /\ Taken(n)
  BY DEF Create
<1> HIDE DEF c
<1>4. <<c>> \in Seq(Container) /\ Len(<<c>>) = 1 /\ <<c>>[1] = c
  BY <1>1
<1>5. /\ daemon' \in Seq(Container) /\ Len(daemon') = m + 1
      /\ \A i \in 1..(m + 1) : daemon'[i] = IF i <= 1 THEN <<c>>[i] ELSE daemon[i - 1]
  <2>1. /\ daemon' \in Seq(Container) /\ Len(daemon') = Len(<<c>>) + Len(daemon)
        /\ \A i \in 1..(Len(<<c>>) + Len(daemon)) :
             daemon'[i] = IF i <= Len(<<c>>) THEN <<c>>[i] ELSE daemon[i - Len(<<c>>)]
    BY <1>2, <1>3, <1>4, ConcatProperties
  <2>2. Len(<<c>>) + Len(daemon) = m + 1
    BY <1>2, <1>4
  <2>3. QED
    BY <1>4, <2>1, <2>2
<1>6. DOMAIN daemon' = 1..(m + 1)
  BY <1>5, LenProperties
<1> HIDE DEF m
<1>7. daemon'[1] = c /\ \A i \in 2..(m + 1) : i - 1 \in DOMAIN daemon /\ daemon'[i] = daemon[i - 1]
  BY <1>2, <1>4, <1>5
<1>8. \A j \in DOMAIN daemon : daemon[j].name # n
  BY <1>3 DEF NamesIn
<1>9. \A i \in DOMAIN daemon' : i = 1 \/ i \in 2..(m + 1)
  BY <1>2, <1>6
<1>10. NamesApart'
  <2> SUFFICES ASSUME NEW i \in DOMAIN daemon', NEW j \in DOMAIN daemon', daemon'[i].name = daemon'[j].name
               PROVE  i = j
    BY DEF NamesApart
  <2>1. i \in Int /\ j \in Int
    BY <1>2, <1>6
  <2>2. QED
    BY <1>1, <1>7, <1>8, <1>9, <2>1 DEF NamesApart
<1>11. QED
  BY <1>1, <1>3, <1>5, <1>7, <1>9, <1>10 DEF Descends, Taken

LEMMA DestroyDescends ==
  ASSUME TypeOK, NamesApart, NEW d \in DOMAIN daemon, Destroy(d)
  PROVE  Descends({})
<1> DEFINE m == Len(daemon)
           a == SubSeq(daemon, 1, d - 1)
           b == SubSeq(daemon, d + 1, m)
<1>1. daemon \in Seq(Container) /\ m \in Nat /\ DOMAIN daemon = 1..m
  BY LenProperties DEF TypeOK
<1>2. d \in 1..m /\ d \in Nat
  BY <1>1
<1>3. daemon' = a \o b /\ reused' = reused
  BY DEF Destroy, RemoveAt
<1> HIDE DEF m
<1>4. a \in Seq(Container) /\ Len(a) = d - 1 /\ \A i \in 1..(d - 1) : a[i] = daemon[i]
  <2>1. 1 \in 1..(m + 1) /\ d - 1 \in 0..m /\ 1 \in Int /\ d - 1 \in Int
    BY <1>1, <1>2
  <2>2. \A i \in 1..(d - 1) : i \in 1..m
    BY <1>1, <1>2
  <2>3. QED
    BY <1>1, <1>2, <2>1, <2>2, SubSeqProperties DEF m
<1>5. b \in Seq(Container) /\ Len(b) = m - d /\ \A i \in 1..(m - d) : b[i] = daemon[d + i]
  <2>1. /\ d + 1 \in Int /\ m \in Int
        /\ \A i \in (d + 1)..m : i \in 1..m
        /\ (IF d + 1 <= m THEN m - (d + 1) + 1 ELSE 0) = m - d /\ m - (d + 1) + 1 = m - d
    BY <1>1, <1>2
  <2>2. \A i \in (d + 1)..m : daemon[i] \in Container
    BY <1>1, <2>1, ElementOfSeq DEF m
  <2>3. /\ b \in Seq(Container) /\ Len(b) = IF d + 1 <= m THEN m - (d + 1) + 1 ELSE 0
        /\ \A i \in 1..(m - (d + 1) + 1) : b[i] = daemon[(d + 1) + i - 1]
    BY <2>1, <2>2, SubSeqProperties
  <2>4. \A i \in 1..(m - d) : (d + 1) + i - 1 = d + i
    BY <1>2
  <2>5. QED
    BY <2>1, <2>3, <2>4
<1> HIDE DEF a, b
<1>6. /\ daemon' \in Seq(Container) /\ Len(daemon') = m - 1
      /\ \A i \in 1..(m - 1) : daemon'[i] = IF i <= d - 1 THEN a[i] ELSE b[i - (d - 1)]
  <2>1. /\ daemon' \in Seq(Container) /\ Len(daemon') = Len(a) + Len(b)
        /\ \A i \in 1..(Len(a) + Len(b)) : daemon'[i] = IF i <= Len(a) THEN a[i] ELSE b[i - Len(a)]
    BY <1>3, <1>4, <1>5, ConcatProperties
  <2>2. Len(a) + Len(b) = m - 1
    BY <1>1, <1>2, <1>4, <1>5
  <2>3. QED
    BY <1>4, <2>1, <2>2
<1>7. DOMAIN daemon' = 1..(m - 1)
  BY <1>6, LenProperties
<1>8. \A i \in 1..(m - 1) : IF i <= d - 1 THEN i \in 1..m /\ daemon'[i] = daemon[i]
                            ELSE i + 1 \in 1..m /\ daemon'[i] = daemon[i + 1]
  <2> SUFFICES ASSUME NEW i \in 1..(m - 1)
               PROVE  IF i <= d - 1 THEN i \in 1..m /\ daemon'[i] = daemon[i]
                      ELSE i + 1 \in 1..m /\ daemon'[i] = daemon[i + 1]
    OBVIOUS
  <2>1. CASE i <= d - 1
    BY <1>1, <1>2, <1>4, <1>6, <2>1
  <2>2. CASE ~ (i <= d - 1)
    <3>1. i - (d - 1) \in 1..(m - d) /\ d + (i - (d - 1)) = i + 1
      BY <1>1, <1>2, <2>2
    <3>2. b[i - (d - 1)] = daemon[i + 1]
      BY <1>5, <3>1
    <3>3. QED
      BY <1>1, <1>2, <1>6, <2>2, <3>2
  <2>3. QED
    BY <2>1, <2>2
<1>9. NamesApart'
  <2> SUFFICES ASSUME NEW i \in 1..(m - 1), NEW j \in 1..(m - 1), daemon'[i].name = daemon'[j].name
               PROVE  i = j
    BY <1>7 DEF NamesApart
  <2>1. i \in Int /\ j \in Int
    BY <1>1
  <2>2. PICK e \in DOMAIN daemon : daemon'[i] = daemon[e] /\ e = IF i <= d - 1 THEN i ELSE i + 1
    BY <1>1, <1>8
  <2>3. PICK f \in DOMAIN daemon : daemon'[j] = daemon[f] /\ f = IF j <= d - 1 THEN j ELSE j + 1
    BY <1>1, <1>8
  <2>4. e = f
    BY <2>2, <2>3 DEF NamesApart
  <2>5. QED
    BY <1>2, <2>1, <2>2, <2>3, <2>4
<1>10. \A i \in DOMAIN daemon' :
         \E j \in DOMAIN daemon : daemon'[i].name = daemon[j].name /\ daemon'[i].labels = daemon[j].labels
  BY <1>1, <1>7, <1>8
<1>11. QED
  BY <1>3, <1>6, <1>9, <1>10 DEF Descends

LEMMA RenameDescends ==
  ASSUME TypeOK, NamesApart, NEW d \in DOMAIN daemon, NEW n \in Names, Rename(d, n)
  PROVE  Descends({n})
<1>1. daemon \in Seq(Container) /\ Len(daemon) \in Nat /\ DOMAIN daemon = 1..Len(daemon)
  BY LenProperties DEF TypeOK
<1>2. daemon' = [daemon EXCEPT ![d].name = n] /\ n \notin NamesIn(daemon) /\ Taken(n)
  BY DEF Rename
<1>3. \A j \in DOMAIN daemon : daemon[j] \in Container /\ daemon[j].name # n
  BY <1>1, <1>2, ElementOfSeq DEF NamesIn
<1>4. [daemon[d] EXCEPT !.name = n] \in Container /\ [daemon[d] EXCEPT !.name = n].name = n
  BY <1>3 DEF Container
<1>5. daemon' \in Seq(Container)
  BY <1>1, <1>2, <1>4, ExceptSeq
<1>6. /\ DOMAIN daemon' = DOMAIN daemon /\ daemon'[d].name = n
      /\ \A j \in DOMAIN daemon \ {d} : daemon'[j] = daemon[j]
  BY <1>1, <1>2, <1>4
<1>7. NamesApart'
  BY <1>3, <1>6 DEF NamesApart
<1>8. QED
  BY <1>2, <1>5, <1>6, <1>7 DEF Descends, Taken

LEMMA SwitchDescends ==
  ASSUME TypeOK, NamesApart, NEW d \in DOMAIN daemon, Switch(d)
  PROVE  Descends({})
<1>1. daemon \in Seq(Container) /\ Len(daemon) \in Nat /\ DOMAIN daemon = 1..Len(daemon)
  BY LenProperties DEF TypeOK
<1>2. PICK st \in {"running", "exited"} : daemon' = [daemon EXCEPT ![d] = [@ EXCEPT !.state = st]]
  BY DEF Switch
<1>3. reused' = reused
  BY DEF Switch
<1>4. daemon[d] \in Container
  BY <1>1, ElementOfSeq
<1>5. /\ [daemon[d] EXCEPT !.state = st] \in Container
      /\ [daemon[d] EXCEPT !.state = st].name = daemon[d].name
      /\ [daemon[d] EXCEPT !.state = st].labels = daemon[d].labels
  BY <1>4 DEF Container
<1>6. daemon' \in Seq(Container)
  BY <1>1, <1>2, <1>5, ExceptSeq
<1>7. /\ DOMAIN daemon' = DOMAIN daemon
      /\ \A j \in DOMAIN daemon : daemon'[j].name = daemon[j].name /\ daemon'[j].labels = daemon[j].labels
  BY <1>1, <1>2, <1>5
<1>8. NamesApart'
  BY <1>7 DEF NamesApart
<1>9. QED
  BY <1>3, <1>6, <1>7, <1>8 DEF Descends

\* Whatever the owner does, the registry follows the labels it knew, except
\* under names that were taken again.
LEMMA OwnerInv ==
  ASSUME RoutesInv, Owner
  PROVE  RoutesInv'
<1>1. TypeOK /\ NamesApart /\ ListedFollow /\ LabelsFollow
  BY DEF RoutesInv
<1>2. UNCHANGED docknap /\ changes' \in 0..MaxChanges
  <2>1. changes \in 0..MaxChanges /\ MaxChanges \in Nat /\ changes < MaxChanges /\ changes' = changes + 1
    BY <1>1, RegistryAssumption DEF TypeOK, Owner
  <2>2. UNCHANGED docknap
    BY DEF Owner, Create, Destroy, Rename, Switch
  <2>3. QED
    BY <2>1, <2>2
<1>3. PICK N : Descends(N)
  BY <1>1, CreateDescends, DestroyDescends, RenameDescends, SwitchDescends DEF Owner
<1>4. UNCHANGED <<sync, listed, turn, configs, states, registered>>
  BY <1>2 DEF docknap
<1>5. /\ N \subseteq Names /\ reused \subseteq reused'
      /\ N \cap Containers(configs) \subseteq reused' /\ N \cap NamesIn(listed) \subseteq reused'
  BY <1>3 DEF Descends
<1>6. \A i \in DOMAIN daemon' :
        \/ daemon'[i].name \in N
        \/ \E j \in DOMAIN daemon : daemon'[i].name = daemon[j].name /\ daemon'[i].labels = daemon[j].labels
  BY <1>3 DEF Descends
<1>7. TypeOK'
  <2>1. reused' \subseteq Names
    BY <1>1, <1>3 DEF Descends, TypeOK
  <2>2. daemon' \in Seq(Container)
    BY <1>3 DEF Descends
  <2>3. QED
    BY <1>1, <1>2, <1>4, <2>1, <2>2 DEF TypeOK
<1>8. ListedFollow'
  <2> SUFFICES ASSUME NEW j \in DOMAIN listed, NEW i \in DOMAIN daemon',
                      listed[j].name = daemon'[i].name, daemon'[i].name \notin reused'
               PROVE  listed[j].labels = daemon'[i].labels
    BY <1>4 DEF ListedFollow
  <2>1. listed[j].name \in NamesIn(listed)
    BY DEF NamesIn
  <2>2. daemon'[i].name \notin N
    BY <1>5, <2>1
  <2>3. PICK h \in DOMAIN daemon : daemon'[i].name = daemon[h].name /\ daemon'[i].labels = daemon[h].labels
    BY <1>6, <2>2
  <2>4. QED
    BY <1>1, <1>5, <2>3 DEF ListedFollow
<1>9. LabelsFollow'
  <2> SUFFICES ASSUME NEW x \in Subs, NEW i \in DOMAIN daemon', configs[x] # None,
                      configs[x].container = daemon'[i].name, daemon'[i].name \notin reused'
               PROVE  configs[x] = Named(ParseLabels(daemon'[i].labels), daemon'[i].name)
    BY <1>4 DEF LabelsFollow
  <2>1. configs[x].container \in Containers(configs)
    BY DEF Containers
  <2>2. daemon'[i].name \notin N
    BY <1>5, <2>1
  <2>3. PICK h \in DOMAIN daemon : daemon'[i].name = daemon[h].name /\ daemon'[i].labels = daemon[h].labels
    BY <1>6, <2>2
  <2>4. QED
    BY <1>1, <1>5, <2>3 DEF LabelsFollow
<1>10. NamesApart'
  BY <1>3 DEF Descends
<1>11. QED
  BY <1>4, <1>7, <1>8, <1>9, <1>10 DEF RoutesInv
-----------------------------------------------------------------------------
(* The loops *)

\* What one turn may do to the Configs: keep one, or store the one made of the
\* container of this turn.
LEMMA StoredFollow ==
  ASSUME RoutesInv, NEW c, NEW j \in DOMAIN listed, c = listed[j], UNCHANGED <<daemon, reused>>,
         \A x \in Subs : \/ configs'[x] = configs[x]
                         \/ ParseLabels(c.labels) # None /\ configs'[x] = Named(ParseLabels(c.labels), c.name)
  PROVE  LabelsFollow'
<1> SUFFICES ASSUME NEW x \in Subs, NEW i \in DOMAIN daemon, configs'[x] # None,
                    configs'[x].container = daemon[i].name, daemon[i].name \notin reused
             PROVE  configs'[x] = Named(ParseLabels(daemon[i].labels), daemon[i].name)
  BY DEF LabelsFollow
<1>1. CASE configs'[x] = configs[x]
  BY <1>1 DEF RoutesInv, LabelsFollow
<1>2. CASE ParseLabels(c.labels) # None /\ configs'[x] = Named(ParseLabels(c.labels), c.name)
  <2>1. c \in Container
    <3>1. listed \in Seq(Container) /\ j \in 1..Len(listed)
      BY LenProperties DEF RoutesInv, TypeOK
    <3>2. QED
      BY <3>1, ElementOfSeq
  <2>2. c.name \in Names /\ c.labels \in Labels
    BY <2>1 DEF Container
  <2>3. configs'[x].container = c.name
    BY <1>2, <2>2, ParsedLabels
  <2>4. c.labels = daemon[i].labels /\ c.name = daemon[i].name
    BY <2>3 DEF RoutesInv, ListedFollow
  <2>5. QED
    BY <1>2, <2>4
<1>3. QED
  BY <1>1, <1>2

\* The container of the next turn.
LEMMA NextListed ==
  ASSUME TypeOK, turn < Len(listed)
  PROVE  /\ turn \in Nat /\ turn + 1 \in DOMAIN listed /\ turn + 1 \in 0..Len(listed)
         /\ listed[turn + 1].name \in Names /\ listed[turn + 1].labels \in Labels
         /\ listed[turn + 1].state \in {"running", "exited"}
<1>1. listed \in Seq(Container) /\ Len(listed) \in Nat /\ DOMAIN listed = 1..Len(listed) /\ turn \in 0..Len(listed)
  BY LenProperties DEF TypeOK
<1>2. turn \in Nat /\ turn + 1 \in 1..Len(listed) /\ turn + 1 \in 0..Len(listed)
  BY <1>1
<1>3. listed[turn + 1] \in Container
  BY <1>1, <1>2, ElementOfSeq
<1>4. QED
  BY <1>1, <1>2, <1>3 DEF Container

\* discover: the last container gets the subdomain.
LEMMA DiscoverTurnInv ==
  ASSUME RoutesInv, DiscoverTurn
  PROVE  RoutesInv'
<1>1. PICK c : c = listed[turn + 1]
  OBVIOUS
<1>2. PICK p : p = ParseLabels(c.labels)
  OBVIOUS
<1>3. TypeOK /\ sync = "discover" /\ turn < Len(listed) /\ turn' = turn + 1
  BY DEF RoutesInv, DiscoverTurn, Turn
<1>4. UNCHANGED <<daemon, sync, listed, registered, reused, changes>>
  BY DEF DiscoverTurn, Turn
<1>5. /\ turn \in Nat /\ turn + 1 \in DOMAIN listed /\ turn + 1 \in 0..Len(listed)
      /\ c.name \in Names /\ c.labels \in Labels /\ c.state \in {"running", "exited"}
  BY <1>1, <1>3, NextListed
<1>6. configs \in [Subs -> Config \cup {None}] /\ states \in [Subs -> {"running", "exited", None}]
  BY <1>3 DEF TypeOK
<1>7. \A x : Claims(c, x) <=> p # None /\ p.subdomain = x
  BY <1>2 DEF Claims
<1>8. p = None => configs' = configs /\ states' = states
  <2>1. ASSUME p = None PROVE DiscoverOne(Maps, c) = Maps
    BY <1>2, <2>1 DEF DiscoverOne
  <2>2. QED
    BY <1>1, <2>1 DEF DiscoverTurn, Turn, Maps
<1>9. p # None => /\ p.subdomain \in Subs /\ Named(p, c.name) \in Config /\ Named(p, c.name).subdomain = p.subdomain
                  /\ configs' = [configs EXCEPT ![p.subdomain] = Named(p, c.name)]
                  /\ states' = [states EXCEPT ![p.subdomain] = IF @ = None THEN c.state ELSE @]
  <2>1. ASSUME p # None
        PROVE  DiscoverOne(Maps, c) = [configs |-> [configs EXCEPT ![p.subdomain] = Named(p, c.name)],
                                       states |-> [states EXCEPT ![p.subdomain] = IF @ = None THEN c.state ELSE @]]
    BY <1>2, <2>1 DEF DiscoverOne, Maps
  <2>2. p # None => /\ p.subdomain \in Subs /\ Named(p, c.name) \in Config
                    /\ Named(p, c.name).subdomain = p.subdomain /\ Named(p, c.name).container = c.name
    BY <1>2, <1>5, ParsedLabels
  <2>3. configs' = DiscoverOne(Maps, c).configs /\ states' = DiscoverOne(Maps, c).states
    BY <1>1 DEF DiscoverTurn, Turn
  <2>4. QED
    BY <2>1, <2>2, <2>3
<1>10. TypeOK'
  <2>1. /\ configs' \in [Subs -> Config \cup {None}] /\ states' \in [Subs -> {"running", "exited", None}]
        /\ \A x \in Subs : configs'[x] # None => configs'[x].subdomain = x
    <3>1. CASE p = None
      BY <1>3, <1>8, <3>1 DEF TypeOK
    <3>2. CASE p # None
      BY <1>3, <1>5, <1>6, <1>9, <3>2 DEF TypeOK
    <3>3. QED
      BY <3>1, <3>2
  <2>2. QED
    BY <1>3, <1>4, <1>5, <2>1 DEF TypeOK
<1>11. \A x \in Subs : configs'[x] = IF Claims(c, x) THEN Named(p, c.name) ELSE configs[x]
  BY <1>6, <1>7, <1>8, <1>9
<1>12. \A x \in Subs : configs'[x] = Granted(listed, turn + 1, x)
  <2> SUFFICES ASSUME NEW x \in Subs
               PROVE  configs'[x] = Granted(listed, turn + 1, x)
    OBVIOUS
  <2>1. configs[x] = Granted(listed, turn, x)
    BY <1>3 DEF RoutesInv
  <2>2. LastClaimant(listed, turn + 1, x) = IF Claims(c, x) THEN turn + 1 ELSE LastClaimant(listed, turn, x)
    BY <1>1, <1>5, ClaimNext
  <2>3. CASE Claims(c, x)
    BY <1>1, <1>2, <1>5, <1>11, <2>2, <2>3 DEF Granted
  <2>4. CASE ~ Claims(c, x)
    BY <1>11, <2>1, <2>2, <2>4 DEF Granted
  <2>5. QED
    BY <2>3, <2>4
<1>13. LabelsFollow'
  <2>1. \A x \in Subs : \/ configs'[x] = configs[x]
                        \/ ParseLabels(c.labels) # None /\ configs'[x] = Named(ParseLabels(c.labels), c.name)
    BY <1>2, <1>7, <1>11
  <2>2. QED
    BY <1>1, <1>4, <1>5, <2>1, StoredFollow
<1>14. QED
  BY <1>3, <1>4, <1>10, <1>12, <1>13 DEF RoutesInv, NamesApart, ListedFollow

\* syncContainers: the last container gets the subdomain and the state.
LEMMA SyncTurnInv ==
  ASSUME RoutesInv, SyncTurn
  PROVE  RoutesInv'
<1>1. PICK c : c = listed[turn + 1]
  OBVIOUS
<1>2. PICK p : p = ParseLabels(c.labels)
  OBVIOUS
<1>3. TypeOK /\ sync = "apply" /\ turn < Len(listed) /\ turn' = turn + 1
  BY DEF RoutesInv, SyncTurn, Turn
<1>4. UNCHANGED <<daemon, sync, listed, registered, reused, changes>>
  BY DEF SyncTurn, Turn
<1>5. /\ turn \in Nat /\ turn + 1 \in DOMAIN listed /\ turn + 1 \in 0..Len(listed)
      /\ c.name \in Names /\ c.labels \in Labels /\ c.state \in {"running", "exited"}
  BY <1>1, <1>3, NextListed
<1>6. configs \in [Subs -> Config \cup {None}] /\ states \in [Subs -> {"running", "exited", None}]
  BY <1>3 DEF TypeOK
<1>7. \A x : Claims(c, x) <=> p # None /\ p.subdomain = x
  BY <1>2 DEF Claims
<1>8. p = None => configs' = configs /\ states' = states
  <2>1. ASSUME p = None PROVE SyncOne(Maps, c) = Maps
    BY <1>2, <2>1 DEF SyncOne
  <2>2. QED
    BY <1>1, <2>1 DEF SyncTurn, Turn, Maps
<1>9. p # None => /\ p.subdomain \in Subs /\ Named(p, c.name) \in Config /\ Named(p, c.name).subdomain = p.subdomain
                  /\ Named(p, c.name).container = c.name
                  /\ configs' = [configs EXCEPT ![p.subdomain] =
                                   IF @ = None \/ @.container # c.name THEN Named(p, c.name) ELSE @]
                  /\ states' = [states EXCEPT ![p.subdomain] = c.state]
  <2>1. ASSUME p # None
        PROVE  SyncOne(Maps, c) = [configs |-> [configs EXCEPT ![p.subdomain] =
                                                  IF @ = None \/ @.container # c.name THEN Named(p, c.name) ELSE @],
                                   states |-> [states EXCEPT ![p.subdomain] = c.state]]
    BY <1>2, <2>1 DEF SyncOne, Maps
  <2>2. p # None => /\ p.subdomain \in Subs /\ Named(p, c.name) \in Config
                    /\ Named(p, c.name).subdomain = p.subdomain /\ Named(p, c.name).container = c.name
    BY <1>2, <1>5, ParsedLabels
  <2>3. configs' = SyncOne(Maps, c).configs /\ states' = SyncOne(Maps, c).states
    BY <1>1 DEF SyncTurn, Turn
  <2>4. QED
    BY <2>1, <2>2, <2>3
<1>10. TypeOK'
  <2>1. /\ configs' \in [Subs -> Config \cup {None}] /\ states' \in [Subs -> {"running", "exited", None}]
        /\ \A x \in Subs : configs'[x] # None => configs'[x].subdomain = x
    <3>1. CASE p = None
      BY <1>3, <1>8, <3>1 DEF TypeOK
    <3>2. CASE p # None
      BY <1>3, <1>5, <1>6, <1>9, <3>2 DEF TypeOK
    <3>3. QED
      BY <3>1, <3>2
  <2>2. QED
    BY <1>3, <1>4, <1>5, <2>1 DEF TypeOK
<1>11. \A x \in Subs :
         /\ ~ Claims(c, x) => configs'[x] = configs[x] /\ states'[x] = states[x]
         /\ Claims(c, x) => /\ configs'[x].container = c.name /\ states'[x] = c.state
                            /\ configs'[x] = configs[x] \/ configs'[x] = Named(p, c.name)
  <2>1. CASE p = None
    BY <1>7, <1>8, <2>1
  <2>2. CASE p # None
    BY <1>6, <1>7, <1>9, <2>2
  <2>3. QED
    BY <2>1, <2>2
<1>12. Routed(configs', states', listed, turn + 1)
  <2> SUFFICES ASSUME NEW x \in Subs, LastClaimant(listed, turn + 1, x) # 0
               PROVE  /\ configs'[x].container = listed[LastClaimant(listed, turn + 1, x)].name
                      /\ states'[x] = listed[LastClaimant(listed, turn + 1, x)].state
    BY DEF Routed
  <2>1. LastClaimant(listed, turn + 1, x) = IF Claims(c, x) THEN turn + 1 ELSE LastClaimant(listed, turn, x)
    BY <1>1, <1>5, ClaimNext
  <2>2. CASE Claims(c, x)
    BY <1>1, <1>11, <2>1, <2>2
  <2>3. CASE ~ Claims(c, x)
    <3>1. Routed(configs, states, listed, turn)
      BY <1>3 DEF RoutesInv
    <3>2. QED
      BY <1>11, <2>1, <2>3, <3>1 DEF Routed
  <2>4. QED
    BY <2>2, <2>3
<1>13. LabelsFollow'
  <2>1. \A x \in Subs : \/ configs'[x] = configs[x]
                        \/ ParseLabels(c.labels) # None /\ configs'[x] = Named(ParseLabels(c.labels), c.name)
    BY <1>2, <1>7, <1>11
  <2>2. QED
    BY <1>1, <1>4, <1>5, <2>1, StoredFollow
<1>14. QED
  BY <1>3, <1>4, <1>10, <1>12, <1>13 DEF RoutesInv, NamesApart, ListedFollow
-----------------------------------------------------------------------------
(* Listing, dropping, the end of a loop *)

LEMMA InitRoutes ==
  ASSUME Init
  PROVE  RoutesInv
<1>1. daemon = <<>> /\ listed = <<>>
  BY DEF Init
<1>2. daemon \in Seq(Container) /\ listed \in Seq(Container) /\ Len(listed) = 0 /\ Len(daemon) = 0
  BY <1>1, EmptySeq
<1>3. DOMAIN daemon = {} /\ DOMAIN listed = {}
  BY <1>2, LenProperties
<1>4. Cardinality(Subs) \in Nat /\ MaxChanges \in Nat
  BY RegistryAssumption, FS_CardinalityType
<1>5. TypeOK
  BY <1>2, <1>4 DEF Init, TypeOK
<1>6. QED
  BY <1>3, <1>5 DEF Init, RoutesInv, NamesApart, ListedFollow, LabelsFollow

LEMMA ListInv ==
  ASSUME RoutesInv, List
  PROVE  RoutesInv'
<1>1. /\ listed' = daemon /\ UNCHANGED <<daemon, turn, configs, states, registered, reused, changes>>
      /\ turn = 0 /\ turn' = 0
      /\ \/ sync = "start" /\ sync' = "discover"
         \/ sync = "idle" /\ sync' = "listed"
  BY DEF List, RoutesInv
<1>2. TypeOK /\ NamesApart /\ LabelsFollow
  BY DEF RoutesInv
<1>3. TypeOK'
  <2>1. daemon \in Seq(Container) /\ Len(daemon) \in Nat
    BY <1>2, LenProperties DEF TypeOK
  <2>2. QED
    BY <1>1, <1>2, <2>1 DEF TypeOK
<1>4. ListedFollow'
  BY <1>1, <1>2 DEF ListedFollow, NamesApart
<1>5. sync' = "discover" => \A x \in Subs : configs'[x] = Granted(listed', turn', x)
  <2>1. \A x : Granted(listed', 0, x) = None
    BY ClaimNone DEF Granted
  <2>2. QED
    BY <1>1, <2>1 DEF RoutesInv
<1>6. NamesApart' /\ LabelsFollow'
  BY <1>1, <1>2 DEF NamesApart, LabelsFollow
<1>7. QED
  BY <1>1, <1>3, <1>4, <1>5, <1>6 DEF RoutesInv

LEMMA DropsInv ==
  ASSUME RoutesInv, SyncDrops
  PROVE  RoutesInv'
<1>1. /\ sync' = "apply" /\ turn' = 0 /\ sync = "listed"
      /\ UNCHANGED <<daemon, listed, turn, registered, reused, changes>>
  BY DEF SyncDrops, RoutesInv
<1>2. PICK G : /\ configs' = [x \in Subs |-> IF x \in G THEN None ELSE configs[x]]
               /\ states' = [x \in Subs |-> IF x \in G THEN None ELSE states[x]]
  <2>1. PICK k : configs' = Dropped(k).configs /\ states' = Dropped(k).states
    BY DEF SyncDrops
  <2>2. QED
    BY <2>1 DEF Dropped
<1>3. TypeOK /\ NamesApart /\ LabelsFollow /\ ListedFollow
  BY DEF RoutesInv
<1>4. TypeOK'
  BY <1>1, <1>2, <1>3 DEF TypeOK
<1>5. LabelsFollow'
  BY <1>1, <1>2, <1>3 DEF LabelsFollow
<1>6. Routed(configs', states', listed', turn')
  BY <1>1, ClaimNone DEF Routed
<1>7. NamesApart' /\ ListedFollow'
  BY <1>1, <1>3 DEF NamesApart, ListedFollow
<1>8. QED
  BY <1>1, <1>4, <1>5, <1>6, <1>7 DEF RoutesInv

LEMMA EndsInv ==
  ASSUME RoutesInv, LoopEnds
  PROVE  RoutesInv'
<1>1. /\ registered' = Cardinality({x \in Subs : configs[x] # None})
      /\ reused' = reused \cap Containers(configs)
      /\ sync' = "idle" /\ listed' = <<>> /\ turn' = 0
      /\ UNCHANGED <<daemon, configs, states, changes>>
  BY DEF LoopEnds
<1>2. TypeOK /\ NamesApart /\ LabelsFollow
  BY DEF RoutesInv
<1>3. registered' \in 0..Cardinality(Subs)
  <2> DEFINE R == {x \in Subs : configs[x] # None}
  <2>1. IsFiniteSet(Subs) /\ R \in SUBSET Subs
    BY RegistryAssumption
  <2> HIDE DEF R
  <2>2. Cardinality(R) \in Nat /\ Cardinality(Subs) \in Nat /\ Cardinality(R) <= Cardinality(Subs)
    BY <2>1, FS_Subset, FS_CardinalityType
  <2>3. QED
    BY <1>1, <2>2 DEF R
<1>4. listed' \in Seq(Container) /\ Len(listed') = 0 /\ DOMAIN listed' = {}
  BY <1>1, EmptySeq, LenProperties
<1>5. TypeOK'
  BY <1>1, <1>2, <1>3, <1>4 DEF TypeOK
<1>6. LabelsFollow'
  <2> SUFFICES ASSUME NEW x \in Subs, NEW i \in DOMAIN daemon, configs[x] # None,
                      configs[x].container = daemon[i].name, daemon[i].name \notin reused'
               PROVE  configs[x] = Named(ParseLabels(daemon[i].labels), daemon[i].name)
    BY <1>1 DEF LabelsFollow
  <2>1. daemon[i].name \in Containers(configs)
    BY DEF Containers
  <2>2. QED
    BY <1>1, <1>2, <2>1 DEF LabelsFollow
<1>7. NamesApart' /\ ListedFollow'
  BY <1>1, <1>2, <1>4 DEF NamesApart, ListedFollow
<1>8. QED
  BY <1>1, <1>5, <1>6, <1>7 DEF RoutesInv

LEMMA NextRoutes ==
  ASSUME RoutesInv, [Next]_vars
  PROVE  RoutesInv'
<1>1. CASE UNCHANGED vars
  BY <1>1 DEF vars, RoutesInv, TypeOK, NamesApart, ListedFollow, LabelsFollow
<1>2. CASE Syncer
  BY <1>2, ListInv, DiscoverTurnInv, EndsInv, DropsInv, SyncTurnInv DEF Syncer, DiscoverEnds, SyncEnds
<1>3. CASE Owner
  BY <1>3, OwnerInv
<1>4. QED
  BY <1>1, <1>2, <1>3 DEF Next
-----------------------------------------------------------------------------
(* Theorems *)

\* RoutesInv, the inductive invariant of the registry, always holds.
THEOREM RoutesSound == Spec => []RoutesInv
<1>1. Init => RoutesInv
  BY InitRoutes
<1>2. RoutesInv /\ [Next]_vars => RoutesInv'
  BY NextRoutes
<1>3. QED
  BY <1>1, <1>2, PTL DEF Spec

\* Every variable keeps its type; a Config is stored under its own subdomain.
THEOREM RegistryTypeCorrect == Spec => []TypeOK
<1>1. RoutesInv => TypeOK
  BY DEF RoutesInv
<1>2. QED
  BY <1>1, RoutesSound, PTL

\* A service is served with the labels of the container that bears its name,
\* unless the name was taken again before docknap noticed.
THEOREM LabelsFollowHolds == Spec => []LabelsFollow
<1>1. RoutesInv => LabelsFollow
  BY DEF RoutesInv
<1>2. QED
  BY <1>1, RoutesSound, PTL

\* discover gives every subdomain to the container listed last of those that
\* claim it, and to nobody else.
THEOREM DiscoverFollowsHolds == Spec => DiscoverFollows
<1> DEFINE Grants == sync = "discover" /\ sync' = "idle" =>
                       \A x \in Subs : configs'[x] = Granted(listed, Len(listed), x)
<1>1. RoutesInv /\ [Next]_vars => [Grants]_vars
  <2> SUFFICES ASSUME RoutesInv, Next, sync = "discover", sync' = "idle"
               PROVE  \A x \in Subs : configs'[x] = Granted(listed, Len(listed), x)
    OBVIOUS
  <2>1. DiscoverEnds
    BY DEF Next, Syncer, List, DiscoverTurn, SyncDrops, SyncTurn, SyncEnds, Turn,
           Owner, Create, Destroy, Rename, Switch, docknap
  <2>2. turn = Len(listed) /\ configs' = configs
    BY <2>1 DEF DiscoverEnds, LoopEnds
  <2>3. QED
    BY <2>2 DEF RoutesInv
<1>2. QED
  BY <1>1, RoutesSound, PTL DEF Spec, DiscoverFollows

\* When syncContainers is done, every host of a subdomain that its listing
\* claims reaches the container listed last of the claimants.
THEOREM SyncFollowsHolds == Spec => SyncFollows
<1> DEFINE Routes == sync = "apply" /\ sync' = "idle" =>
                       \A x \in Subs :
                         LET i == LastClaimant(listed, Len(listed), x)
                         IN  i # 0 => /\ states'[x] = listed[i].state
                                      /\ \A z \in Zones : x \o z # AdminHost =>
                                           Route(x \o z)'.container = listed[i].name
<1>1. RoutesInv /\ [Next]_vars => [Routes]_vars
  <2> SUFFICES ASSUME RoutesInv, Next, sync = "apply", sync' = "idle",
                      NEW x \in Subs, LastClaimant(listed, Len(listed), x) # 0
               PROVE  /\ states'[x] = listed[LastClaimant(listed, Len(listed), x)].state
                      /\ \A z \in Zones : x \o z # AdminHost =>
                           Route(x \o z)'.container = listed[LastClaimant(listed, Len(listed), x)].name
    OBVIOUS
  <2>1. SyncEnds
    BY DEF Next, Syncer, List, DiscoverTurn, SyncDrops, SyncTurn, DiscoverEnds, Turn,
           Owner, Create, Destroy, Rename, Switch, docknap
  <2>2. turn = Len(listed) /\ configs' = configs /\ states' = states
    BY <2>1 DEF SyncEnds, LoopEnds
  <2>3. Routed(configs', states', listed, Len(listed))
    BY <2>2 DEF RoutesInv
  <2>4. \A z \in Zones : x \o z # AdminHost => Route(x \o z)' = configs'[x]
    BY HostSplits DEF Route
  <2>5. QED
    BY <2>3, <2>4 DEF Routed
<1>2. QED
  BY <1>1, RoutesSound, PTL DEF Spec, SyncFollows
=============================================================================
