------------------------------ MODULE Lookups ------------------------------
(***************************************************************************)
(* How a client's word for a container, a network or a volume finds one in *)
(* the collections the manager keeps (Get of cluster/container.go,         *)
(* network.go and volume.go), how the listings show their names, and which *)
(* containers the listing of containers selects, in which order            *)
(* (api/handlers.go).                                                      *)
(*                                                                         *)
(* A text is a sequence of words and slashes: "h/w" is <<h, "/", w>>.      *)
(* Names of engines and of resources are made of the words of one set, and *)
(* two engines may have the same name.  A text without a slash can also be *)
(* an ID, in full or its first twelve digits, or the beginning of one.  A  *)
(* lookup returns the entries the code may return, which iterates over     *)
(* maps: none for nil.                                                     *)
(***************************************************************************)
EXTENDS Integers, Sequences, FiniteSets

CONSTANTS
  Hosts,      \* the engines, as they are known by their ID
  Words,      \* what names are made of
  Names,      \* names of networks and volumes, texts
  ConNames,   \* names of containers, "/w", and the aliases links give them, "/u/w"
  NetIDs,     \* network IDs
  ConIDs,     \* container IDs
  SwarmIDs,   \* Swarm IDs, which the copies of a rescheduled container share
  ListIDs,    \* IDs of the containers of a listing
  Times,      \* when containers were created
  Nothing

\* seconds, and a fraction of them of two digits (bound; a daemon writes nine)
Instants == Nat \X (0 .. 9) \X (0 .. 9)

ASSUME NamesAssumption == Names \cup ConNames \subseteq Seq(Words \cup {"/"})
ASSUME ListAssumption == Times \subseteq Instants /\ IsFiniteSet(ListIDs)

VARIABLES
  kind,       \* the kind of resource that is looked at
  hostName,   \* hostName[h]: the name of the engine h
  there,      \* what the daemons may say of it, a set of entries
  known       \* what the engines' lists hold, entries of there

lookVars == <<kind, hostName, there, known>>

NetworkEntries == [host : Hosts, id : NetIDs, name : Names, local : BOOLEAN]
VolumeEntries == [host : Hosts, name : Names, local : BOOLEAN]
ContainerEntries == [host : Hosts, id : ConIDs, swarm : SwarmIDs, names : SUBSET ConNames]
\* of a container in a listing: does it run, on a healthy engine, is its image
\* "swarm", do the filters refuse it
Classes == {"running", "stopped", "swarm", "refused"}
Candidates == [id : ListIDs, created : Times, class : Classes]

Entries == [network |-> NetworkEntries, volume |-> VolumeEntries,
            container |-> ContainerEntries, listing |-> Candidates]

\* a network has one name and one scope, and is on one engine if it is local
Everywhere(net) ==
  UNION {{[host |-> h, id |-> i, name |-> net[i].name, local |-> net[i].local] :
            h \in IF net[i].local THEN {net[i].home} ELSE Hosts} : i \in NetIDs}

\* ... a volume has one driver on each engine, and a container is on one engine
Facts(k) ==
  CASE k = "network" ->
         {Everywhere(net) : net \in [NetIDs -> [name : Names, local : BOOLEAN, home : Hosts]]}
    [] k = "volume" ->
         {{[host |-> p[1], name |-> p[2], local |-> local[p]] : p \in Hosts \X Names} :
            local \in [Hosts \X Names -> BOOLEAN]}
    [] k = "container" ->
         {{[host |-> c[i].host, id |-> i, swarm |-> c[i].swarm, names |-> c[i].names] : i \in ConIDs} :
            c \in [ConIDs -> [host : Hosts, swarm : SwarmIDs, names : SUBSET ConNames]]}
    [] k = "listing" ->
         {{[id |-> i, created |-> c[i].created, class |-> c[i].class] : i \in ListIDs} :
            c \in [ListIDs -> [created : Times, class : Classes]]}

LookTypeOK ==
  /\ kind \in DOMAIN Entries
  /\ hostName \in [Hosts -> Words]
  /\ there \subseteq Entries[kind]
  /\ known \subseteq there

LookInit ==
  /\ kind \in DOMAIN Entries
  /\ hostName \in [Hosts -> Words]
  /\ there \in Facts(kind)
  /\ known = {}

\* RefreshNetworks, RefreshVolumes: the list of an engine is replaced by what
\* its daemon has at the time
HostEntries(h) == {x \in there : kind = "listing" \/ x.host = h}

RefreshList(h) ==
  /\ \E list \in SUBSET HostEntries(h) : IsFiniteSet(list) /\ known' = (known \ HostEntries(h)) \cup list
  /\ UNCHANGED <<kind, hostName, there>>

\* refreshNetwork, refreshVolume, refreshContainer: one entry is written to, or
\* deleted from, the map it is kept in
RefreshEntry(x) ==
  /\ known' = known \cup {x} \/ known' = known \ {x}
  /\ UNCHANGED <<kind, hostName, there>>

LookNext == (\E h \in Hosts : RefreshList(h)) \/ (\E x \in there : RefreshEntry(x))
LookSpec == LookInit /\ [][LookNext]_lookVars
-----------------------------------------------------------------------------
(* Queries: the text that is written, the IDs it equals, in full or their  *)
(* first twelve digits, and the IDs it is the beginning of                 *)

Query(text, ids, begins) == [text |-> text, ids |-> ids, begins |-> begins]

\* a network or a volume: name or engine/name, with the engine's ID or name
NameMatches(x, text) ==
  text \in {x.name, <<x.host, "/">> \o x.name, <<hostName[x.host], "/">> \o x.name}

\* a container: one of its names, with or without the leading slash, or after
\* the engine's ID or name
ContainerMatches(x, text) ==
  \E n \in x.names :
    text = n \/ <<"/">> \o text = n \/ text \in {<<x.host>> \o n, <<hostName[x.host]>> \o n}

IDs(entries) == {x.id : x \in entries}
OnlyIf(condition, entries) == IF condition THEN entries ELSE {}

\* Networks.Uniq: of each network the entry of one engine
Uniq(nets) ==
  {s \in SUBSET nets : IDs(s) = IDs(nets) /\ Cardinality(s) = Cardinality(IDs(nets))}

\* Mutant: the beginning of an ID comes before a name
GetNetwork_PrefixFirst(nets, q) ==
  LET byID == {x \in nets : x.id \in q.ids}
      byName == {x \in nets : NameMatches(x, q.text)}
      bySlash == {x \in nets : x.name = <<"/">> \o q.text}
      byPrefix == {x \in nets : x.id \in q.begins}
  IN IF byID # {} THEN byID
     ELSE IF byPrefix # {} THEN OnlyIf(Cardinality(IDs(byPrefix)) = 1, byPrefix)
     ELSE IF byName # {} THEN OnlyIf(Cardinality(IDs(byName)) = 1, byName)
     ELSE bySlash

GetNetwork(nets, q) ==
  LET byID == {x \in nets : x.id \in q.ids}
      byName == {x \in nets : NameMatches(x, q.text)}
      bySlash == {x \in nets : x.name = <<"/">> \o q.text}
      byPrefix == {x \in nets : x.id \in q.begins}
  IN IF byID # {} THEN byID
     ELSE IF byName # {} THEN OnlyIf(Cardinality(IDs(byName)) = 1, byName)
     ELSE IF bySlash # {} THEN bySlash
     ELSE OnlyIf(Cardinality(IDs(byPrefix)) = 1, byPrefix)

GetVolume(vols, q) ==
  LET byName == {x \in vols : NameMatches(x, q.text)}
      bySlash == {x \in vols : x.name = <<"/">> \o q.text}
  IN IF byName = {} THEN bySlash
     ELSE IF Cardinality(byName) = 1 THEN byName
     ELSE {x \in byName : x.name = q.text /\ ~x.local}

\* a container of which both IDs begin like this is counted twice
GetContainer(cons, q) ==
  LET byID == {x \in cons : x.id \in q.ids}
      bySwarmID == {x \in cons : x.swarm \in q.ids}
      byName == {x \in cons : ContainerMatches(x, q.text)}
      idBegins == {x \in cons : x.id \in q.begins}
      swarmBegins == {x \in cons : x.swarm \in q.begins}
  IN IF byID # {} THEN byID
     ELSE IF bySwarmID # {} THEN bySwarmID
     ELSE IF byName # {} THEN OnlyIf(Cardinality(byName) = 1, byName)
     ELSE OnlyIf(Cardinality(idBegins) + Cardinality(swarmBegins) = 1,
                 idBegins \cup swarmBegins)

\* getNetworks and getVolumes put the engine's name before what is local to
\* it, getContainersJSON before every name of a container, and a slash
ShownNames(x) ==
  IF kind = "container" THEN {<<"/", hostName[x.host]>> \o n : n \in x.names}
  ELSE IF x.local THEN {<<hostName[x.host], "/">> \o x.name}
  ELSE {x.name}
-----------------------------------------------------------------------------
(* The listing of containers                                               *)

\* getContainersJSON: the containers it selects; limit is 0 and before Nothing
\* where the client gives none
Selected(all, limit, before) ==
  {c \in known : \/ c.class = "running"
                 \/ c.class = "stopped" /\ (all \/ before # Nothing \/ limit > 0)
                 \/ c.class = "swarm" /\ all}

Earlier(t, u) ==
  t[1] < u[1] \/ (t[1] = u[1] /\ (t[2] < u[2] \/ (t[2] = u[2] /\ t[3] < u[3])))

\* Info.Created is a text, RFC 3339 with as many digits as it takes: "05.5Z",
\* "05.52Z", "05Z".  The letter that ends it is greater than a digit and a point.
Z == 10
AsText(t) == <<t[1], IF t[2] = 0 /\ t[3] = 0 THEN Z ELSE t[2], IF t[3] = 0 THEN Z ELSE t[3]>>

Less(c, d) == Earlier(AsText(c.created), AsText(d.created))

\* sort.Sort(sort.Reverse(ContainerSorter)): any order of them, the sort is not
\* stable, in which none comes after a lesser one
NewestFirst(cs) ==
  {s \in [1 .. Cardinality(cs) -> cs] :
     \A i, j \in DOMAIN s : i < j => s[i] # s[j] /\ ~Less(s[i], s[j])}

Cut(s, limit) == IF limit > 0 /\ limit < Len(s) THEN SubSeq(s, 1, limit) ELSE s

\* what comes after before, nothing if it is not there
After(s, before) ==
  LET found == {i \in DOMAIN s : before # Nothing /\ s[i].id = before.id}
  IN IF before = Nothing THEN s
     ELSE IF found = {} THEN <<>>
     ELSE SubSeq(s, (CHOOSE i \in found : TRUE) + 1, Len(s))

\* Mutant: the limit counts from before
getContainersJSON_SkipFirst(all, limit, before) ==
  {Cut(After(s, before), limit) : s \in NewestFirst(Selected(all, limit, before))}

getContainersJSON(all, limit, before) ==
  {After(Cut(s, limit), before) : s \in NewestFirst(Selected(all, limit, before))}
-----------------------------------------------------------------------------
(* Properties                                                              *)

AllIDs == CASE kind = "network" -> NetIDs
            [] kind = "container" -> ConIDs \cup SwarmIDs
            [] OTHER -> {}

\* a text without a slash may be any ID, or the beginning of IDs
Queries(text) ==
  IF \E i \in DOMAIN text : text[i] = "/" THEN {Query(text, {}, {})}
  ELSE UNION {{Query(text, ids, begins) : ids \in SUBSET begins} : begins \in SUBSET AllIDs}

Found(q) ==
  CASE kind = "network" -> {GetNetwork(u, q) : u \in Uniq(known)}
    [] kind = "volume" -> {GetVolume(known, q)}
    [] kind = "container" -> {GetContainer(known, q)}

Matches(x, text) == IF kind = "container" THEN ContainerMatches(x, text) ELSE NameMatches(x, text)
HasID(x, q) == \/ kind = "network" /\ x.id \in q.ids
               \/ kind = "container" /\ (x.id \in q.ids \/ x.swarm \in q.ids)

\* entries of what is the same thing for a client
SameThing(x, y) ==
  CASE kind = "network" -> x.id = y.id
    [] kind = "volume" -> x = y \/ (x.name = y.name /\ ~x.local /\ ~y.local)
    [] OTHER -> x = y

\* a name as a client gives it back: that of a container without the slash it
\* is shown with, which Get does not take
GivenBack(shown) == IF kind = "container" THEN Tail(shown) ELSE shown

\* what q means before it is taken for a name: an ID, or, where several
\* volumes match, the one whose driver is not local and that is called just so
GoesFirst(x, q) == HasID(x, q) \/ (kind = "volume" /\ x.name = q.text /\ ~x.local)

\* A name that a listing shows, given back by a client, finds the thing it
\* was shown for, even if it happens to be the beginning of another one's ID.
\* There are two exceptions.  It may be what goes first: an ID, in full or its
\* first twelve digits, or the whole name of a volume that is not local.  And
\* something else may have that name (two engines of one name, an alias like
\* an engine's name, a local network called like a global one): then it finds
\* nothing rather than the wrong one.  (The listings of handlers.go against
\* Get of container.go, network.go and volume.go.)
ShownNamesResolve ==
  kind # "listing" =>
    \A x \in known : \A shown \in ShownNames(x) :
    \A q \in Queries(GivenBack(shown)) : \A found \in Found(q) :
      \/ found # {} /\ \A y \in found : SameThing(x, y)
      \/ found # {} /\ \A y \in found : GoesFirst(y, q)
      \/ found = {} /\ \E y \in known : ~SameThing(x, y) /\ Matches(y, q.text)

Texts == {<<w>> : w \in Words} \cup {<<u, "/", w>> : u, w \in Words}

\* The ID that a listing shows finds the thing, whatever else is called like
\* it or has an ID that begins like it.
IDsResolve ==
  kind \in {"network", "container"} =>
    \A x \in known, text \in Texts : \A begins \in SUBSET AllIDs :
    \A found \in Found(Query(text, {x.id}, begins \cup {x.id})) :
      found # {} /\ \A y \in found : SameThing(x, y)

\* A lookup never chooses between two containers (Containers.Get) by their
\* names or by the beginning of their IDs: only a short ID, or the Swarm ID of
\* a container that is there twice, the original and its copy, can mean two.
NeverGuesses ==
  kind = "container" =>
    \A text \in Texts : \A q \in Queries(text) :
      LET found == GetContainer(known, q)
      IN Cardinality(found) > 1 => \A x \in found : HasID(x, q)

\* What a client names is what it gets: the thing it was shown under that
\* name or ID, and never one of several.
LookupsRight == ShownNamesResolve /\ IDsResolve /\ NeverGuesses

\* the fraction of t, as it is written, is the beginning of that of u
Begins(t, u) ==
  t[1] = u[1] /\ ((t[2] = 0 /\ t[3] = 0) \/ (t[2] = u[2] /\ t[3] = 0))

\* c may be listed before d: it is no older, or compares like this as a text
InOrder(c, d) == ~Earlier(c.created, d.created) \/ Begins(c.created, d.created)

\* what is listed of the selected containers is what a client gets that gives
\* this limit and names this container as before
AsAsked(out, selected, limit, before) ==
  LET listed == {out[i] : i \in DOMAIN out}
  IN /\ \A i, j \in DOMAIN out : i < j => out[i] # out[j] /\ InOrder(out[i], out[j])
     /\ listed \subseteq selected
     /\ before = Nothing =>
          /\ Len(out) = IF limit > 0 /\ limit < Cardinality(selected) THEN limit
                        ELSE Cardinality(selected)
          /\ \A c \in selected \ listed, d \in listed : InOrder(d, c)
     /\ before # Nothing /\ before \notin selected => out = <<>>
     /\ before # Nothing /\ before \in selected =>
          /\ \A d \in listed : d # before /\ InOrder(before, d)
          /\ \A c \in selected \ (listed \cup {before}) :
               InOrder(c, before) \/ (limit > 0 /\ \A d \in listed : InOrder(d, c))
          /\ limit > 0 => Len(out) < limit
          /\ limit > 0 /\ Cardinality({c \in selected : ~InOrder(before, c)}) >= limit => out = <<>>

\* The listing of containers is what the client asked for: newest first,
\* where of two times in one second that with the shorter fraction may pass
\* for the newer one; the newest ones if there is a limit; and with "before",
\* if that container is itself selected, all that come after it.  With both,
\* the limit counts from the newest and not from the container that is named:
\* fewer than that many are listed, and none if as many are newer than it.
\* (getContainersJSON sorts texts, cuts and then skips.)
ListingRight ==
  kind = "listing" =>
    \A all \in BOOLEAN, limit \in 0 .. Cardinality(ListIDs), before \in there \cup {Nothing} :
    \A out \in getContainersJSON(all, limit, before) :
      AsAsked(out, Selected(all, limit, before), limit, before)
=============================================================================
