---------------------------- MODULE ServiceReply -----------------------------
(***************************************************************************)
(* Which local tag services Hydrus has, as the client reads it from a      *)
(* get_services reply (internal/hydrus/endpoints.go), and the choice among *)
(* them.  Depending on Hydrus's version a service is an item of a list, or *)
(* of several, or a member of an object, with its key inside or only as    *)
(* the member's name; services of other types stand among them.            *)
(***************************************************************************)
EXTENDS Naturals, FiniteSets

CONSTANTS
  Service,    \* keys of the local tag services Hydrus may have
  Name,       \* names they may have
  NoName,     \* no service name configured
  NoKey,      \* no key: an item of a list has no member name, a service may not tell its own
  EmptyKey,   \* the key "", which some client's reply may give for a service
  MaxEntries  \* bound: services in a reply, repetitions included

ASSUME ServiceAssumption ==
  /\ NoName \notin Name
  /\ {NoKey, EmptyKey} \cap Service = {} /\ NoKey # EmptyKey
  /\ IsFiniteSet(Service)
ASSUME EntriesAssumption == MaxEntries \in Nat

\* Hydrus's local tag services: functions from some keys to names.
Services == UNION {[S -> Name] : S \in SUBSET Service}

Entry == [member : Service \cup {NoKey}, key : Service \cup {NoKey, EmptyKey},
          local : BOOLEAN, name : Name]

\* Mutant: the member's name is not looked at.
OwnKey(e) == e.key

\* The service's own key, be it empty, else the member's name.
KeyOf(e) == IF e.key # NoKey THEN e.key ELSE e.member

\* Mutant: services of any type.
AnyType(e) == KeyOf(e) \notin {NoKey, EmptyKey}

\* Local tag services with a key; the rest is passed over.
Considered(e) == e.local /\ KeyOf(e) \notin {NoKey, EmptyKey}

\* A reply is read in document order, a later sighting of a key replacing the
\* earlier one.
Sightings(reply, k) == {i \in DOMAIN reply : Considered(reply[i]) /\ KeyOf(reply[i]) = k}
Last(S) == CHOOSE i \in S : \A j \in S : j <= i

Collected(reply) ==
  [k \in {c \in Service : Sightings(reply, c) # {}} |-> reply[Last(Sightings(reply, k))].name]

\* An entry of a reply when Hydrus has the local tag services s: one of them, in any
\* of the three forms, or a service of another type, or one whose key is missing or
\* empty.
OfService(e, k, s) == e.local /\ e.name = s[k] /\ {e.key, e.member} \cup {NoKey} = {k, NoKey}
OfAnother(e) == ~e.local \/ (e.key = NoKey /\ e.member = NoKey) \/ e.key = EmptyKey

Entries(s) == {e \in Entry : OfAnother(e) \/ \E k \in DOMAIN s : OfService(e, k, s)}

\* Every service is reported at least once.
Replies(s) ==
  {reply \in UNION {[1..n -> Entries(s)] : n \in 0..MaxEntries} :
     \A k \in DOMAIN s : \E i \in DOMAIN reply : OfService(reply[i], k, s)}

\* What Hydrus has, and what the client may read from its reply.
Readings == UNION {{<<s, Collected(reply)>> : reply \in Replies(s)} : s \in Services}

\* Mutant: any of several services will do.
ChoicesAny(s, wanted) ==
  IF wanted = NoName THEN DOMAIN s ELSE {k \in DOMAIN s : s[k] = wanted}

\* ResolveLocalTagServiceKey: the services that fit, if the choice is clear.
Choices(s, wanted) ==
  LET fit == IF wanted = NoName THEN DOMAIN s ELSE {k \in DOMAIN s : s[k] = wanted}
  IN  IF Cardinality(fit) = 1 THEN fit ELSE {}

=============================================================================
