-------------------- MODULE ConfigurationRegistry_proofs --------------------
(***************************************************************************)
(* Proofs that records keep their types and places, that the sources of a  *)
(* document agree, that temporary spaces are unconfigured, that            *)
(* the configuration generation tells whether a plan is current, and that  *)
(* plans follow the order of precedence, for any extensions, packs,        *)
(* spaces, repositories, authorities, files and requests.                  *)
(*                                                                         *)
(* A plan is made of sorted, concatenated and recursive sequences.  That   *)
(* they exist is shown by numbering what is sorted, and by induction over  *)
(* a set of naturals, which needs no operator as a parameter.              *)
(***************************************************************************)
EXTENDS ConfigurationRegistry, FiniteSetTheorems, SequenceTheorems, WellFoundedInduction, TLAPS

(* A request whose observed state is current has its file where it is.     *)
PendingIsLocated ==
    /\ DOMAIN binding = Clients
    /\ \A c \in Clients : binding[c] \notin {None, Stale} =>
          /\ binding[c].request \in Bindings
          /\ binding[c].location = Under(binding[c].request.file, registered)

(* Sources of one location do not exclude each other.                      *)
LocationsAreShared ==
    \A x, y \in sources :
        x # y /\ x.location = y.location =>
            "dedicated" \notin {x.layout, y.layout} /\ x.codec = y.codec

LEMMA LocatedFile == ASSUME NEW f, NEW there PROVE Under(f, there).file = f
BY DEF Under

-----------------------------------------------------------------------------
(* Sources are recorded where they are.                                    *)

LEMMA StepPending ==
    ASSUME PendingIsLocated, [Next]_vars
    PROVE  PendingIsLocated'
<1>1. CASE UNCHANGED vars
  BY <1>1 DEF vars, topology, records, PendingIsLocated
<1>2. ASSUME Outdate PROVE PendingIsLocated'
  BY <1>2 DEF Outdate, PendingIsLocated
<1>3. CASE Administer
  BY <1>2, <1>3 DEF Administer, RegisterRepository, RelateParent, Prepare, SetRoots, DefinePack, Attach,
                    Detach, RemoveSource
<1>4. ASSUME NEW c \in Clients, NEW request \in Bindings, BeginBind(c, request)
      PROVE  PendingIsLocated'
  <2>1. /\ registered' = registered
        /\ DOMAIN binding' = Clients
        /\ binding'[c] = [request |-> request, location |-> Under(request.file, registered)]
        /\ \A d \in Clients \ {c} : binding'[d] = binding[d]
    BY <1>4 DEF BeginBind, Locate, PendingIsLocated, topology
  <2>2. /\ binding'[c].location = Under(request.file, registered)
        /\ binding'[c].request = request
    BY <2>1
  <2> QED BY <2>1, <2>2 DEF PendingIsLocated
<1>5. ASSUME NEW c \in Clients, CommitBind(c) PROVE PendingIsLocated'
  BY <1>5 DEF CommitBind, PendingIsLocated
<1>6. ASSUME NEW c \in Clients, RefuseBind(c) PROVE PendingIsLocated'
  BY <1>6 DEF RefuseBind, PendingIsLocated, topology
<1>7. ASSUME NEW c \in Clients, NEW use \in Uses, BindExtension(c, use)
      PROVE  PendingIsLocated'
  BY <1>7 DEF BindExtension, PendingIsLocated, topology
<1> QED BY <1>1, <1>3, <1>4, <1>5, <1>6, <1>7 DEF Next

LEMMA StepRecords ==
    ASSUME PendingIsLocated, [Next]_vars, NEW x \in sources' \ sources
    PROVE  x.location = Locate(x.location.file)
<1>1. CASE UNCHANGED vars
  BY <1>1 DEF vars, topology, records
<1>2. CASE Administer
  BY <1>2 DEF Administer, RegisterRepository, RelateParent, Prepare, SetRoots, DefinePack, Attach,
              Detach, RemoveSource, records
<1>3. ASSUME NEW c \in Clients, CommitBind(c)
      PROVE  x.location = Locate(x.location.file)
  <2>1. x = Recorded(c)
    BY <1>3 DEF CommitBind
  <2>2. x.location = binding[c].location
    BY <2>1 DEF Recorded
  <2>3. binding[c] \notin {None, Stale} /\ registered' = registered
    BY <1>3 DEF CommitBind, topology
  <2>4. x.location = Under(binding[c].request.file, registered)
    BY <2>2, <2>3 DEF PendingIsLocated
  <2> QED BY <2>4, LocatedFile DEF Locate
<1>4. ASSUME NEW c \in Clients,
             \/ \E request \in Bindings : BeginBind(c, request)
             \/ RefuseBind(c)
             \/ \E use \in Uses : BindExtension(c, use)
      PROVE  FALSE
  BY <1>4 DEF BeginBind, RefuseBind, BindExtension, records
<1> QED BY <1>1, <1>2, <1>3, <1>4 DEF Next

(* RecordedWhereItIs: a source gets the deepest repository registered when *)
(* it is recorded; a registration in between makes the commit stale.       *)
THEOREM Recorded_WhereItIs == Spec => RecordedWhereItIs
<1>1. Init => PendingIsLocated
  BY DEF Init, PendingIsLocated
<1>2. PendingIsLocated /\ [Next]_vars => PendingIsLocated'
  BY StepPending
<1>3. PendingIsLocated /\ [Next]_vars =>
        [\A x \in sources' \ sources : x.location = Locate(x.location.file)]_vars
  BY StepRecords
<1> QED BY <1>1, <1>2, <1>3, PTL DEF Spec, RecordedWhereItIs

-----------------------------------------------------------------------------
(* The sources of a document agree.                                        *)

LEMMA StepShared == LocationsAreShared /\ [Next]_vars => LocationsAreShared'
<1> SUFFICES ASSUME LocationsAreShared, [Next]_vars PROVE LocationsAreShared'
  OBVIOUS
<1>1. ASSUME sources' \subseteq sources PROVE LocationsAreShared'
  BY <1>1 DEF LocationsAreShared
<1>2. CASE UNCHANGED vars
  BY <1>1, <1>2 DEF vars, topology, records
<1>3. CASE Administer
  BY <1>1, <1>3 DEF Administer, RegisterRepository, RelateParent, Prepare, SetRoots, DefinePack, Attach,
                    Detach, RemoveSource, records
<1>4. ASSUME NEW c \in Clients, CommitBind(c) PROVE LocationsAreShared'
  <2> DEFINE record == Recorded(c)
             others == sources \ SourcesOf(record.extension, record.identifier)
  <2>1. CASE Repeats(c)
    BY <1>1, <1>4, <2>1 DEF CommitBind
  <2>2. CASE ~Repeats(c)
    <3>1. Admissible(record, others) /\ sources' = others \cup {record}
      BY <1>4, <2>2 DEF CommitBind
    <3>2. \A x \in others : x.location = record.location =>
             "dedicated" \notin {x.layout, record.layout} /\ x.codec = record.codec
      BY <3>1 DEF Admissible
    <3>3. others \subseteq sources
      OBVIOUS
    <3> HIDE DEF record, others
    <3> QED BY <3>1, <3>2, <3>3 DEF LocationsAreShared
  <2> QED BY <2>1, <2>2
<1>5. ASSUME NEW c \in Clients,
             \/ \E request \in Bindings : BeginBind(c, request)
             \/ RefuseBind(c)
             \/ \E use \in Uses : BindExtension(c, use)
      PROVE  LocationsAreShared'
  BY <1>1, <1>5 DEF BeginBind, RefuseBind, BindExtension, records
<1> QED BY <1>2, <1>3, <1>4, <1>5 DEF Next

(* DocumentsAgree: validate_state admits no second source of a location    *)
(* where one of the two is dedicated or their codecs differ, and a file    *)
(* has one location at a time.                                             *)
THEOREM Documents_Agree == Spec => []DocumentsAgree
<1>1. Init => LocationsAreShared
  BY DEF Init, LocationsAreShared
<1>2. LocationsAreShared /\ [Next]_vars => LocationsAreShared'
  BY StepShared
<1>3. LocationsAreShared => DocumentsAgree
  BY DEF LocationsAreShared, DocumentsAgree
<1> QED BY <1>1, <1>2, <1>3, PTL DEF Spec

-----------------------------------------------------------------------------
(* Temporary spaces are unconfigured.                                      *)

LEMMA InitUnconfigured == Init => TemporaryIsUnconfigured
BY RegistryAssumption DEF Init, TemporaryIsUnconfigured, RegistryAssumption

LEMMA StepUnconfigured == TemporaryIsUnconfigured /\ [Next]_vars => TemporaryIsUnconfigured'
<1> SUFFICES ASSUME TemporaryIsUnconfigured, [Next]_vars PROVE TemporaryIsUnconfigured'
  OBVIOUS
<1>1. ASSUME temporary' \subseteq temporary, attachments' \subseteq attachments,
             sources' \subseteq sources
      PROVE  TemporaryIsUnconfigured'
  BY <1>1 DEF TemporaryIsUnconfigured
<1>2. CASE UNCHANGED vars
  BY <1>1, <1>2 DEF vars, topology, records
<1>3. ASSUME NEW s, NEW e, NEW p, NEW o, Attach(s, e, p, o)
      PROVE  TemporaryIsUnconfigured'
  <2>1. /\ \A x \in attachments' : x \in attachments \/ x.space = s
        /\ temporary' = temporary \ {s}
        /\ sources' = sources
    BY <1>3 DEF Attach
  <2> QED BY <2>1 DEF TemporaryIsUnconfigured
<1>4. CASE Administer /\ ~(\E s, e, p, o : Attach(s, e, p, o))
  BY <1>1, <1>4 DEF Administer, RegisterRepository, RelateParent, Prepare, SetRoots, DefinePack, Detach,
                    RemoveSource, records
<1>5. ASSUME NEW c \in Clients, CommitBind(c) PROVE TemporaryIsUnconfigured'
  <2> DEFINE record == Recorded(c)
  <2>1. /\ \A x \in sources' : x \in sources \/ x = record
        /\ attachments' = attachments
        /\ temporary' = temporary \ Promoted(record.scope)
    BY <1>5 DEF CommitBind
  <2>2. ASSUME NEW s \in temporary' PROVE record.scope # [kind |-> "space", of |-> s]
    <3> HIDE DEF record
    <3>1. SUFFICES ASSUME record.scope = [kind |-> "space", of |-> s] PROVE FALSE
      OBVIOUS
    <3>2. record.scope.kind = "space" /\ record.scope.of = s
      BY <3>1
    <3> QED BY <2>1, <2>2, <3>2 DEF Promoted
  <2> HIDE DEF record
  <2> QED BY <2>1, <2>2 DEF TemporaryIsUnconfigured
<1>6. ASSUME NEW c \in Clients,
             \/ \E request \in Bindings : BeginBind(c, request)
             \/ RefuseBind(c)
             \/ \E use \in Uses : BindExtension(c, use)
      PROVE  TemporaryIsUnconfigured'
  BY <1>1, <1>6 DEF BeginBind, RefuseBind, BindExtension, records
<1> QED BY <1>2, <1>3, <1>4, <1>5, <1>6 DEF Next, Administer

(* TemporaryIsUnconfigured: whatever configures a space makes it durable.  *)
THEOREM Temporary_IsUnconfigured == Spec => []TemporaryIsUnconfigured
BY InitUnconfigured, StepUnconfigured, PTL DEF Spec

-----------------------------------------------------------------------------
(* The configuration generation tells whether a plan is current.           *)

(* A space attaches a pack once.                                           *)
AttachedOnce ==
    \A x, y \in attachments :
        x.space = y.space /\ x.extension = y.extension /\ x.pack = y.pack => x = y

(* Bound extensions are of the past: neither the generation nor the        *)
(* checkouts they have seen are ahead of the state's.                      *)
BoundIsPast ==
    /\ generation \in Nat
    /\ roots \in [Extensions -> Policies]
    /\ DOMAIN generated = Spaces
    /\ DOMAIN bound = Clients
    /\ \A c \in Clients : bound[c] # None =>
          /\ bound[c].generation \in 0 .. generation
          /\ bound[c].space \in Spaces
          /\ bound[c].checkouts \subseteq generated[bound[c].space]

\* The plan with the chain of authorities given.
ScopesAlong(e, s, t, chain) ==
    LET attached == Attached(e, s)
    IN  <<Machine>>
          \o [i \in DOMAIN attached |-> [kind |-> "pack", of |-> attached[i].pack]]
          \o <<[kind |-> "space", of |-> s], [kind |-> "repository", of |-> TargetRepository(t)]>>
          \o [i \in DOMAIN chain |-> [kind |-> "authority", of |-> chain[i]]]

PlanAlong(e, s, t, chain) ==
    LET scopes == ScopesAlong(e, s, t, chain)
        planned == FlattenSeq([i \in DOMAIN scopes |-> InScope(e, scopes[i])])
    IN  [i \in DOMAIN planned |-> [source |-> planned[i], checkout |-> Checkout(s, planned[i])]]

LEMMA PlanIsAlong ==
    ASSUME NEW e, NEW s, NEW t
    PROVE  Plan(e, s, t) = PlanAlong(e, s, t, AuthorityChain(t))
BY DEF Plan, ScopesOf, PlanAlong, ScopesAlong

(* What a bound extension has is what the current records give along the   *)
(* chain that it was bound with, whatever that chain is by now.            *)
BoundKeepsPlan ==
    \A c \in Clients :
        LET b == bound[c]
        IN  b # None /\ b.generation = generation /\ b.checkouts = generated[b.space] =>
              /\ b.plan = PlanAlong(b.extension, b.space, b.target, b.chain)
              /\ b.root = Root(b.extension)

PlanInv == AttachedOnce /\ BoundIsPast /\ BoundKeepsPlan

(* Along a given chain, a plan only depends on the attachments, the        *)
(* sources and the checkouts.                                              *)
LEMMA PlanUnchanged ==
    ASSUME NEW c, bound' = bound, attachments' = attachments, sources' = sources,
           generated'[bound[c].space] = generated[bound[c].space]
    PROVE  PlanAlong(bound[c].extension, bound[c].space, bound[c].target, bound[c].chain)'
             = PlanAlong(bound[c].extension, bound[c].space, bound[c].target, bound[c].chain)
BY DEF PlanAlong, ScopesAlong, Attached, AttachmentsOf, InScope, Checkout

(* A step that counts outdates every bound extension.                      *)
LEMMA CountedStep ==
    ASSUME PlanInv, bound' = bound, generation' = generation + 1
    PROVE  BoundKeepsPlan'
<1> SUFFICES ASSUME NEW c \in Clients, bound[c] # None, bound[c].generation = generation'
             PROVE  FALSE
  BY DEF BoundKeepsPlan
<1> QED BY DEF PlanInv, BoundIsPast

(* A step that changes no record leaves the plans of the spaces whose      *)
(* checkouts it leaves.                                                    *)
LEMMA KeptStep ==
    ASSUME PlanInv, UNCHANGED <<attachments, sources, roots, generation, bound>>,
           \A s \in Spaces : generated[s] # {} => generated'[s] = generated[s]
    PROVE  BoundKeepsPlan'
<1> SUFFICES ASSUME NEW c \in Clients, bound[c] # None, bound[c].generation = generation,
                    bound[c].checkouts = generated'[bound[c].space]
             PROVE  /\ bound[c].plan
                         = PlanAlong(bound[c].extension, bound[c].space, bound[c].target, bound[c].chain)'
                    /\ bound[c].root = Root(bound[c].extension)'
  BY DEF BoundKeepsPlan
<1>1. /\ bound[c].space \in Spaces
      /\ bound[c].checkouts \subseteq generated[bound[c].space]
  BY DEF PlanInv, BoundIsPast
<1>2. generated'[bound[c].space] = generated[bound[c].space]
  BY <1>1
<1>3. /\ bound[c].plan
           = PlanAlong(bound[c].extension, bound[c].space, bound[c].target, bound[c].chain)
      /\ bound[c].root = Root(bound[c].extension)
  BY <1>2 DEF PlanInv, BoundKeepsPlan
<1>4. Root(bound[c].extension)' = Root(bound[c].extension)
  BY DEF Root
<1> QED BY <1>2, <1>3, <1>4, PlanUnchanged

LEMMA AttachKept ==
    ASSUME AttachedOnce, NEW s, NEW e, NEW p, NEW o, Attach(s, e, p, o), Reattached(s, e, p, o)
    PROVE  attachments' = attachments
<1> DEFINE x == [space |-> s, extension |-> e, pack |-> p, order |-> o]
<1>1. x \in attachments /\ x.space = s /\ x.extension = e /\ x.pack = p
  BY DEF Reattached
<1>2. attachments' = (attachments \ AttachmentsOf(s, e, p)) \cup {x}
  BY DEF Attach
<1> HIDE DEF x
<1>3. \A y \in AttachmentsOf(s, e, p) : y = x
  BY <1>1 DEF AttachmentsOf, AttachedOnce
<1> QED BY <1>1, <1>2, <1>3

-----------------------------------------------------------------------------

LEMMA StepAttachedOnce == AttachedOnce /\ [Next]_vars => AttachedOnce'
<1> SUFFICES ASSUME AttachedOnce, [Next]_vars PROVE AttachedOnce'
  OBVIOUS
<1>1. ASSUME attachments' \subseteq attachments PROVE AttachedOnce'
  BY <1>1 DEF AttachedOnce
<1>2. CASE UNCHANGED vars
  BY <1>1, <1>2 DEF vars, topology, records
<1>3. ASSUME NEW s, NEW e, NEW p, NEW o, Attach(s, e, p, o) PROVE AttachedOnce'
  <2> DEFINE x == [space |-> s, extension |-> e, pack |-> p, order |-> o]
  <2>1. /\ attachments' = (attachments \ AttachmentsOf(s, e, p)) \cup {x}
        /\ x.space = s /\ x.extension = e /\ x.pack = p
    BY <1>3 DEF Attach
  <2> HIDE DEF x
  <2> QED BY <2>1 DEF AttachedOnce, AttachmentsOf
<1>4. CASE Administer /\ ~(\E s, e, p, o : Attach(s, e, p, o))
  BY <1>1, <1>4 DEF Administer, RegisterRepository, RelateParent, Prepare, SetRoots, DefinePack, Detach,
                    RemoveSource, records
<1>5. ASSUME NEW c \in Clients,
             \/ \E request \in Bindings : BeginBind(c, request)
             \/ CommitBind(c)
             \/ RefuseBind(c)
             \/ \E use \in Uses : BindExtension(c, use)
      PROVE  AttachedOnce'
  BY <1>1, <1>5 DEF BeginBind, CommitBind, RefuseBind, BindExtension, records
<1> QED BY <1>2, <1>3, <1>4, <1>5 DEF Next, Administer

LEMMA StepBoundIsPast == BoundIsPast /\ [Next]_vars => BoundIsPast'
<1> SUFFICES ASSUME BoundIsPast, [Next]_vars PROVE BoundIsPast'
  OBVIOUS
<1>1. ASSUME bound' = bound, generated' = generated, roots' \in [Extensions -> Policies],
             generation' \in {generation, generation + 1}
      PROVE  BoundIsPast'
  BY <1>1 DEF BoundIsPast
<1>2. CASE UNCHANGED vars
  BY <1>1, <1>2 DEF vars, topology, records, BoundIsPast
<1>3. ASSUME NEW s \in Spaces, Prepare(s) PROVE BoundIsPast'
  <2>1. /\ bound' = bound /\ generation' = generation /\ roots' = roots
        /\ DOMAIN generated' = Spaces
        /\ \A x \in Spaces : generated[x] \subseteq generated'[x]
    BY <1>3 DEF Prepare, records, BoundIsPast
  <2> QED BY <2>1 DEF BoundIsPast
<1>4. ASSUME NEW e \in Extensions, NEW policy \in Policies, SetRoots(e, policy) PROVE BoundIsPast'
  <2>1. roots' \in [Extensions -> Policies]
    BY <1>4 DEF SetRoots, BoundIsPast
  <2> QED BY <1>1, <1>4, <2>1 DEF SetRoots, Count, topology
<1>5. CASE \/ \E r \in Repositories : RegisterRepository(r)
           \/ \E child, above \in Authorities : RelateParent(child, above)
           \/ \E x \in Offered : DefinePack(x.extension, x.pack)
           \/ \E x \in Attaching : \/ Attach(x.space, x.extension, x.pack, x.order)
                                   \/ Detach(x.space, x.extension, x.pack)
           \/ \E e \in Extensions, i \in Sources : RemoveSource(e, i)
  BY <1>1, <1>5 DEF RegisterRepository, RelateParent, DefinePack, Attach, Detach, RemoveSource,
                    Count, records, topology, BoundIsPast
<1>6. ASSUME NEW c \in Clients,
             \/ \E request \in Bindings : BeginBind(c, request)
             \/ CommitBind(c)
             \/ RefuseBind(c)
      PROVE  BoundIsPast'
  BY <1>1, <1>6 DEF BeginBind, CommitBind, RefuseBind, Count, records, BoundIsPast, topology
<1>7. ASSUME NEW c \in Clients, NEW use \in Uses, BindExtension(c, use) PROVE BoundIsPast'
  <2> DEFINE handle == Handle(use.extension, use.space, use.target)
  <2>1. use.space \in Spaces
    BY RegistryAssumption DEF RegistryAssumption
  <2>2. /\ handle.generation = generation
        /\ handle.space = use.space
        /\ handle.checkouts = generated[use.space]
    BY DEF Handle
  <2>3. /\ UNCHANGED <<generation, generated, roots>>
        /\ bound' = [bound EXCEPT ![c] = handle]
    BY <1>7 DEF BindExtension, records, topology
  <2> HIDE DEF handle
  <2> QED BY <2>1, <2>2, <2>3 DEF BoundIsPast
<1>8. CASE Administer
  <2>1. CASE \E appointed \in Appointed : SetRoots(appointed[1], appointed[2])
    <3>1. \A x \in Appointed : x[1] \in Extensions /\ x[2] \in Policies
      BY RegistryAssumption DEF RegistryAssumption
    <3> QED BY <1>4, <2>1, <3>1
  <2> QED BY <1>3, <1>5, <1>8, <2>1 DEF Administer
<1> QED BY <1>2, <1>6, <1>7, <1>8 DEF Next

LEMMA StepTells == PlanInv /\ [Next]_vars => BoundKeepsPlan'
<1> SUFFICES ASSUME PlanInv, [Next]_vars PROVE BoundKeepsPlan'
  OBVIOUS
<1>1. ASSUME UNCHANGED <<attachments, sources, roots, generation, bound, generated>>
      PROVE  BoundKeepsPlan'
  BY <1>1, KeptStep
<1>2. CASE UNCHANGED vars
  BY <1>1, <1>2 DEF vars, topology, records
<1>3. CASE \/ \E r \in Repositories : RegisterRepository(r)
           \/ \E child, above \in Authorities : RelateParent(child, above)
  BY <1>1, <1>3, KeptStep DEF RegisterRepository, RelateParent, records
<1>4. ASSUME NEW s \in Spaces, Prepare(s) PROVE BoundKeepsPlan'
  <2>1. \A x \in Spaces : generated[x] # {} => generated'[x] = generated[x]
    BY <1>4 DEF Prepare, PlanInv, BoundIsPast
  <2> QED BY <1>4, <2>1, KeptStep DEF Prepare, records
<1>5. ASSUME NEW e \in Extensions, NEW policy \in Policies, SetRoots(e, policy)
      PROVE  BoundKeepsPlan'
  <2>1. CASE roots[e] # policy
    BY <1>5, <2>1, CountedStep DEF SetRoots, Count
  <2>2. CASE roots[e] = policy
    <3>1. roots' = roots
      BY <1>5, <2>2 DEF SetRoots, PlanInv, BoundIsPast
    <3> QED BY <1>1, <1>5, <2>2, <3>1 DEF SetRoots, Count, topology
  <2> QED BY <2>1, <2>2
<1>6. ASSUME NEW e, NEW p, DefinePack(e, p) PROVE BoundKeepsPlan'
  BY <1>1, <1>6, CountedStep DEF DefinePack, Count, topology
<1>7. ASSUME NEW s, NEW e, NEW p, NEW o, Attach(s, e, p, o) PROVE BoundKeepsPlan'
  <2>1. CASE Reattached(s, e, p, o)
    <3>1. attachments' = attachments
      BY <1>7, <2>1, AttachKept DEF PlanInv
    <3> QED BY <1>1, <1>7, <2>1, <3>1 DEF Attach, Count, topology
  <2>2. CASE ~Reattached(s, e, p, o)
    BY <1>7, <2>2, CountedStep DEF Attach, Count
  <2> QED BY <2>1, <2>2
<1>8. ASSUME NEW s, NEW e, NEW p, Detach(s, e, p) PROVE BoundKeepsPlan'
  <2>1. CASE AttachmentsOf(s, e, p) = {}
    <3>1. attachments' = attachments
      BY <1>8, <2>1 DEF Detach
    <3> QED BY <1>1, <1>8, <2>1, <3>1 DEF Detach, Count, topology
  <2>2. CASE AttachmentsOf(s, e, p) # {}
    BY <1>8, <2>2, CountedStep DEF Detach, Count
  <2> QED BY <2>1, <2>2
<1>9. ASSUME NEW e, NEW i, RemoveSource(e, i) PROVE BoundKeepsPlan'
  <2>1. CASE SourcesOf(e, i) = {}
    <3>1. sources' = sources
      BY <1>9, <2>1 DEF RemoveSource
    <3> QED BY <1>1, <1>9, <2>1, <3>1 DEF RemoveSource, Count, topology
  <2>2. CASE SourcesOf(e, i) # {}
    BY <1>9, <2>2, CountedStep DEF RemoveSource, Count
  <2> QED BY <2>1, <2>2
<1>10. ASSUME NEW c \in Clients, CommitBind(c) PROVE BoundKeepsPlan'
  <2>1. CASE Repeats(c)
    BY <1>1, <1>10, <2>1 DEF CommitBind, Count, topology
  <2>2. CASE ~Repeats(c)
    BY <1>10, <2>2, CountedStep DEF CommitBind, Count
  <2> QED BY <2>1, <2>2
<1>11. ASSUME NEW c \in Clients,
              \/ \E request \in Bindings : BeginBind(c, request)
              \/ RefuseBind(c)
       PROVE  BoundKeepsPlan'
  BY <1>1, <1>11 DEF BeginBind, RefuseBind, records, topology
<1>12. ASSUME NEW c \in Clients, NEW use \in Uses, BindExtension(c, use)
       PROVE  BoundKeepsPlan'
  <2> DEFINE handle == Handle(use.extension, use.space, use.target)
             Tells(b) == b # None /\ b.generation = generation /\ b.checkouts = generated[b.space] =>
                            /\ b.plan = PlanAlong(b.extension, b.space, b.target, b.chain)
                            /\ b.root = Root(b.extension)
  <2>1. /\ UNCHANGED <<attachments, sources, roots, generation, generated>>
        /\ \A d \in Clients \ {c} : bound'[d] = bound[d]
        /\ bound'[c] \in {handle, bound[c]}
    BY <1>12 DEF BindExtension, records, PlanInv, BoundIsPast, topology
  <2>2. \A d \in Clients : Tells(bound[d])
    BY DEF PlanInv, BoundKeepsPlan
  <2>3. Tells(handle)
    BY PlanIsAlong DEF Handle
  <2>4. ASSUME NEW d \in Clients PROVE Tells(bound[d])'
    <3>1. Tells(bound'[d])
      BY <2>1, <2>2, <2>3
    <3>2. PlanAlong(bound[d].extension, bound[d].space, bound[d].target, bound[d].chain)'
            = PlanAlong(bound'[d].extension, bound'[d].space, bound'[d].target, bound'[d].chain)
      BY <2>1 DEF PlanAlong, ScopesAlong, Attached, AttachmentsOf, InScope, Checkout
    <3>3. Root(bound[d].extension)' = Root(bound'[d].extension)
      BY <2>1 DEF Root
    <3> QED BY <2>1, <3>1, <3>2, <3>3
  <2> QED BY <2>4 DEF BoundKeepsPlan
<1>13. CASE Administer
  <2>1. CASE \E appointed \in Appointed : SetRoots(appointed[1], appointed[2])
    <3>1. \A x \in Appointed : x[1] \in Extensions /\ x[2] \in Policies
      BY RegistryAssumption DEF RegistryAssumption
    <3> QED BY <1>5, <2>1, <3>1
  <2> QED BY <1>3, <1>4, <1>6, <1>7, <1>8, <1>9, <1>13, <2>1 DEF Administer
<1> QED BY <1>2, <1>10, <1>11, <1>12, <1>13 DEF Next

(* GenerationTellsPlan: every change of a configuration record counts, so  *)
(* a bound extension at the current configuration generation has the       *)
(* current plan, for any containment that hosts relate meanwhile, unless   *)
(* its own chain of authorities or the checkouts of its space changed.     *)
THEOREM Generation_TellsPlan == Spec => []GenerationTellsPlan
<1>1. Init => PlanInv
  BY RegistryAssumption DEF RegistryAssumption, Init, PlanInv, AttachedOnce, BoundIsPast,
                            BoundKeepsPlan, Policies, NoPolicy
<1>2. PlanInv /\ [Next]_vars => PlanInv'
  BY StepAttachedOnce, StepBoundIsPast, StepTells DEF PlanInv
<1>3. PlanInv => GenerationTellsPlan
  BY PlanIsAlong DEF PlanInv, BoundKeepsPlan, GenerationTellsPlan
<1> QED BY <1>1, <1>2, <1>3, PTL DEF Spec

-----------------------------------------------------------------------------
(* Induction.                                                              *)

(* A set of naturals that is not empty has a least element.                *)
LEMMA LeastNatural ==
    ASSUME NEW S \in SUBSET Nat, S # {}
    PROVE  \E m \in S : \A n \in S : m <= n
<1> DEFINE less == OpToRel(<, Nat)
<1>1. IsWellFoundedOn(less, Nat)
  BY NatLessThanWellFounded
<1>2. PICK m \in S : \A n \in S : ~ (<<n, m>> \in less)
  <2> HIDE DEF less
  <2> QED BY <1>1, WFMin
<1>3. less = {ss \in Nat \X Nat : ss[1] < ss[2]}
  BY DEF OpToRel
<1>4. \A n \in S : n < m => <<n, m>> \in less
  BY <1>3
<1>5. \A n \in S : ~ (n < m)
  <2> HIDE DEF less
  <2> QED BY <1>2, <1>4
<1> QED BY <1>5

(* Induction over the members of a set.                                    *)
LEMMA NaturalInduction ==
    ASSUME NEW S, 0 \in S, \A n \in Nat : n \in S => n + 1 \in S
    PROVE  \A n \in Nat : n \in S
<1> SUFFICES ASSUME NEW x \in Nat, x \notin S PROVE FALSE
  OBVIOUS
<1> DEFINE missing == {n \in Nat : n \notin S}
<1>1. PICK m \in missing : \A n \in missing : m <= n
  <2>1. missing \in SUBSET Nat /\ missing # {}
    OBVIOUS
  <2> HIDE DEF missing
  <2> QED BY <2>1, LeastNatural
<1>2. m # 0 /\ m - 1 \in Nat
  OBVIOUS
<1>3. m - 1 \in S
  BY <1>1, <1>2
<1> QED BY <1>2, <1>3

-----------------------------------------------------------------------------
(* Sorting.                                                                *)

Precedes(x, y, name) == x.order < y.order \/ (x.order = y.order /\ name[x] < name[y])

\* Records that can be sorted: no two have the same order and name.
Sortable(S, name) ==
    /\ IsFiniteSet(S)
    /\ name \in [S -> Nat]
    /\ \A x \in S : x.order \in Nat
    /\ \A x, y \in S : x.order = y.order /\ name[x] = name[y] => x = y

(* The place of a record is one more than the number of those before it.   *)
LEMMA PlacesExist ==
    ASSUME NEW S, NEW name, Sortable(S, name)
    PROVE  \E place \in Bijection(S, 1 .. Cardinality(S)) :
               \A x, y \in S : Precedes(x, y, name) => place[x] < place[y]
<1> DEFINE n == Cardinality(S)
           lower(x) == {y \in S : Precedes(y, x, name)}
           place == [x \in S |-> Cardinality(lower(x)) + 1]
<1>0. IsFiniteSet(S) /\ n \in Nat
  BY FS_CardinalityType DEF Sortable
<1>1. ASSUME NEW x \in S
      PROVE  /\ IsFiniteSet(lower(x)) /\ Cardinality(lower(x)) \in Nat
             /\ x \notin lower(x)
             /\ Cardinality(lower(x)) < n
  <2>1. x \notin lower(x)
    BY DEF Precedes, Sortable
  <2>2. lower(x) \subseteq S
    OBVIOUS
  <2> HIDE DEF lower
  <2> QED BY <1>0, <2>1, <2>2, FS_Subset, FS_CardinalityType
<1>2. ASSUME NEW x \in S, NEW y \in S, Precedes(x, y, name)
      PROVE  Cardinality(lower(x)) < Cardinality(lower(y))
  <2>1. lower(x) \subseteq lower(y)
    BY <1>2 DEF Precedes, Sortable
  <2>2. x \in lower(y)
    BY <1>2
  <2>3. x \notin lower(x) /\ IsFiniteSet(lower(y)) /\ Cardinality(lower(y)) \in Nat
    BY <1>1
  <2> HIDE DEF lower
  <2> QED BY <2>1, <2>2, <2>3, FS_Subset, FS_CardinalityType
<1>3. place \in [S -> 1 .. n]
  <2>1. \A x \in S : Cardinality(lower(x)) + 1 \in 1 .. n
    <3> HIDE DEF lower
    <3> QED BY <1>0, <1>1
  <2> QED BY <2>1
<1>4. \A x, y \in S : Precedes(x, y, name) => place[x] < place[y]
  <2>1. \A x \in S : place[x] = Cardinality(lower(x)) + 1 /\ Cardinality(lower(x)) \in Nat
    BY <1>1
  <2> HIDE DEF lower, place
  <2> QED BY <1>2, <2>1
<1>5. \A x, y \in S : x # y => Precedes(x, y, name) \/ Precedes(y, x, name)
  BY DEF Precedes, Sortable
<1> HIDE DEF lower, place
<1>6. place \in Injection(S, 1 .. n)
  <2>1. \A x, y \in S : x # y => place[x] # place[y]
    BY <1>0, <1>3, <1>4, <1>5
  <2> QED BY <1>3, <2>1 DEF Injection, IsInjective
<1>7. IsFiniteSet(1 .. n) /\ Cardinality(1 .. n) = n
  BY <1>0, FS_Interval
<1>8. place \in Surjection(S, 1 .. n)
  BY <1>6, <1>7, FS_Injection
<1> QED BY <1>4, <1>6, <1>8 DEF Bijection

(* Sorting lists every record once, in order.                              *)
LEMMA SortedLists ==
    ASSUME NEW S, NEW name, Sortable(S, name)
    PROVE  /\ Sorted(S, name) \in Seq(S)
           /\ \A x \in S : \E i \in 1 .. Len(Sorted(S, name)) : Sorted(S, name)[i] = x
           /\ \A i, j \in 1 .. Len(Sorted(S, name)) :
                  i < j => Precedes(Sorted(S, name)[i], Sorted(S, name)[j], name)
<1> DEFINE n == Cardinality(S)
           InOrder(s) == \A i, j \in DOMAIN s : i < j => Precedes(s[i], s[j], name)
<1>0. IsFiniteSet(S) /\ n \in Nat
  BY FS_CardinalityType DEF Sortable
<1>1. PICK place \in Bijection(S, 1 .. n) :
          \A x, y \in S : Precedes(x, y, name) => place[x] < place[y]
  BY PlacesExist
<1>2. /\ place \in [S -> 1 .. n]
      /\ \A x, y \in S : place[x] = place[y] => x = y
      /\ \A i \in 1 .. n : \E x \in S : place[x] = i
  BY <1>1 DEF Bijection, Injection, Surjection, IsInjective
<1> DEFINE list == [i \in 1 .. n |-> CHOOSE x \in S : place[x] = i]
<1>3. \A i \in 1 .. n : list[i] \in S /\ place[list[i]] = i
  BY <1>2
<1>4. list \in [1 .. n -> S] /\ DOMAIN list = 1 .. n
  BY <1>3
<1> HIDE DEF list
<1>5. list \in SetToSeqs(S)
  BY <1>3, <1>4 DEF SetToSeqs
<1>6. InOrder(list)
  <2> SUFFICES ASSUME NEW i \in 1 .. n, NEW j \in 1 .. n, i < j
               PROVE  Precedes(list[i], list[j], name)
    BY <1>4
  <2>1. list[i] \in S /\ list[j] \in S /\ place[list[i]] = i /\ place[list[j]] = j
    BY <1>3
  <2>2. ~Precedes(list[j], list[i], name)
    BY <1>0, <1>1, <2>1
  <2>3. list[i] # list[j]
    BY <1>0, <2>1
  <2> QED BY <2>1, <2>2, <2>3 DEF Precedes, Sortable
<1> DEFINE sorted == Sorted(S, name)
<1>7. sorted = CHOOSE s \in SetToSeqs(S) : InOrder(s)
  BY DEF Sorted, Precedes
<1>8. sorted \in SetToSeqs(S) /\ InOrder(sorted)
  <2> HIDE DEF InOrder, sorted
  <2> QED BY <1>5, <1>6, <1>7
<1> HIDE DEF sorted
<1>9. sorted \in [1 .. n -> S] /\ \A i, j \in 1 .. n : i # j => sorted[i] # sorted[j]
  BY <1>8 DEF SetToSeqs
<1>10. sorted \in Seq(S) /\ Len(sorted) = n
  BY <1>0, <1>9
<1>11. sorted \in Injection(1 .. n, S)
  BY <1>9 DEF Injection, IsInjective
<1>12. sorted \in Surjection(1 .. n, S)
  BY <1>0, <1>11, FS_Interval, FS_Injection
<1> QED BY <1>8, <1>9, <1>10, <1>12 DEF Surjection, sorted

-----------------------------------------------------------------------------
(* Concatenation of a sequence of sequences.                               *)

Flattens(f, seqs, n) ==
    \A i \in 1 .. n : f[i] = IF i = 1 THEN seqs[i] ELSE f[i - 1] \o seqs[i]

LEMMA FlatteningExists ==
    ASSUME NEW seqs, NEW n \in Nat
    PROVE  \E f : f = [i \in 1 .. n |-> f[i]] /\ Flattens(f, seqs, n)
<1> DEFINE S == {m \in Nat : \E f : f = [i \in 1 .. m |-> f[i]] /\ Flattens(f, seqs, m)}
<1>1. 0 \in S
  <2> DEFINE f == [i \in 1 .. 0 |-> seqs[i]]
  <2>1. f = [i \in 1 .. 0 |-> f[i]] /\ Flattens(f, seqs, 0)
    BY DEF Flattens
  <2> QED BY <2>1
<1>2. ASSUME NEW m \in Nat, m \in S PROVE m + 1 \in S
  <2>1. PICK f : Flattens(f, seqs, m)
    BY <1>2
  <2> DEFINE last == IF m = 0 THEN seqs[1] ELSE f[m] \o seqs[m + 1]
             g == [i \in 1 .. m + 1 |-> IF i = m + 1 THEN last ELSE f[i]]
  <2>2. \A i \in 1 .. m + 1 : g[i] = IF i = m + 1 THEN last ELSE f[i]
    OBVIOUS
  <2>3. g = [i \in 1 .. m + 1 |-> g[i]]
    OBVIOUS
  <2> HIDE DEF g
  <2>4. ASSUME NEW i \in 1 .. m + 1
        PROVE  g[i] = IF i = 1 THEN seqs[i] ELSE g[i - 1] \o seqs[i]
    <3>1. CASE i = m + 1 /\ m = 0
      BY <2>2, <3>1
    <3>2. CASE i = m + 1 /\ m # 0
      <4>1. i - 1 = m /\ i - 1 \in 1 .. m + 1 /\ i - 1 # m + 1
        BY <3>2
      <4> QED BY <2>2, <3>2, <4>1
    <3>3. CASE i # m + 1
      <4>1. i \in 1 .. m /\ (i # 1 => i - 1 \in 1 .. m + 1 /\ i - 1 # m + 1)
        BY <3>3
      <4> QED BY <2>1, <2>2, <3>3, <4>1 DEF Flattens
    <3> QED BY <3>1, <3>2, <3>3
  <2>5. Flattens(g, seqs, m + 1)
    BY <2>4 DEF Flattens
  <2> QED BY <2>3, <2>5
<1>3. \A m \in Nat : m \in S
  <2> HIDE DEF S
  <2> QED BY <1>1, <1>2, NaturalInduction
<1> QED BY <1>3

(* FlattenSeq is the last of the partial concatenations.                   *)
LEMMA FlattenIsLast ==
    ASSUME NEW X, NEW n \in Nat \ {0}, NEW seqs \in [1 .. n -> Seq(X)]
    PROVE  \E f : Flattens(f, seqs, n) /\ FlattenSeq(seqs) = f[n]
<1> DEFINE Is(f) == f = [i \in 1 .. n |-> IF i = 1 THEN seqs[i] ELSE f[i - 1] \o seqs[i]]
           flat == CHOOSE f : Is(f)
<1>1. Len(seqs) = n
  OBVIOUS
<1>2. FlattenSeq(seqs) = flat[n]
  BY <1>1 DEF FlattenSeq
<1>3. PICK f : f = [i \in 1 .. n |-> f[i]] /\ Flattens(f, seqs, n)
  BY FlatteningExists
<1>4. Is(f)
  BY <1>3 DEF Flattens
<1>5. Is(flat)
  <2> HIDE DEF Is
  <2> QED BY <1>4
<1> HIDE DEF flat
<1>6. Flattens(flat, seqs, n)
  BY <1>5 DEF Flattens
<1> QED BY <1>2, <1>6

Of(s) == {s[p] : p \in 1 .. Len(s)}

Ordered(s, before) == \A p, q \in 1 .. Len(s) : p < q => <<s[p], s[q]>> \in before

(* Of two sequences, where every element of one is before all of the other *)
LEMMA ConcatKeepsOrder ==
    ASSUME NEW X, NEW s \in Seq(X), NEW u \in Seq(X), NEW before,
           Ordered(s, before), Ordered(u, before),
           \A x \in Of(s), y \in Of(u) : <<x, y>> \in before
    PROVE  /\ s \o u \in Seq(X)
           /\ Of(s \o u) = Of(s) \cup Of(u)
           /\ Ordered(s \o u, before)
<1> DEFINE t == s \o u
<1>1. /\ t \in Seq(X)
      /\ Len(t) = Len(s) + Len(u) /\ Len(s) \in Nat /\ Len(u) \in Nat
      /\ \A p \in 1 .. Len(t) : t[p] = IF p <= Len(s) THEN s[p] ELSE u[p - Len(s)]
  BY ConcatProperties, LenProperties
<1>2. \A p \in 1 .. Len(s) : p \in 1 .. Len(t) /\ t[p] = s[p]
  BY <1>1
<1>3. ASSUME NEW q \in 1 .. Len(u)
      PROVE  Len(s) + q \in 1 .. Len(t) /\ t[Len(s) + q] = u[q]
  <2>1. Len(s) + q \in 1 .. Len(t) /\ (Len(s) + q) - Len(s) = q /\ ~(Len(s) + q <= Len(s))
    BY <1>1
  <2> QED BY <1>1, <2>1
<1>4. \A p \in 1 .. Len(t) : p \notin 1 .. Len(s) =>
          p - Len(s) \in 1 .. Len(u) /\ t[p] = u[p - Len(s)]
  BY <1>1
<1> HIDE DEF t
<1>5. Of(t) = Of(s) \cup Of(u)
  <2>1. ASSUME NEW x \in Of(t) PROVE x \in Of(s) \cup Of(u)
    <3>1. PICK p \in 1 .. Len(t) : x = t[p]
      BY DEF Of
    <3> QED BY <1>2, <1>4, <3>1 DEF Of
  <2>2. Of(s) \subseteq Of(t)
    BY <1>2 DEF Of
  <2>3. Of(u) \subseteq Of(t)
    <3> SUFFICES ASSUME NEW q \in 1 .. Len(u) PROVE u[q] \in Of(t)
      BY DEF Of
    <3> QED BY <1>3 DEF Of
  <2> QED BY <2>1, <2>2, <2>3
<1>6. Ordered(t, before)
  <2> SUFFICES ASSUME NEW p \in 1 .. Len(t), NEW q \in 1 .. Len(t), p < q
               PROVE  <<t[p], t[q]>> \in before
    BY DEF Ordered
  <2>1. CASE p \in 1 .. Len(s) /\ q \in 1 .. Len(s)
    BY <1>2, <2>1 DEF Ordered
  <2>2. CASE p \in 1 .. Len(s) /\ q \notin 1 .. Len(s)
    <3>1. t[p] \in Of(s) /\ t[q] \in Of(u)
      BY <1>2, <1>4, <2>2 DEF Of
    <3> QED BY <3>1
  <2>3. CASE p \notin 1 .. Len(s)
    <3>1. q \notin 1 .. Len(s)
      BY <1>1, <2>3
    <3>2. /\ p - Len(s) \in 1 .. Len(u) /\ t[p] = u[p - Len(s)]
          /\ q - Len(s) \in 1 .. Len(u) /\ t[q] = u[q - Len(s)]
      BY <1>4, <2>3, <3>1
    <3>3. p - Len(s) < q - Len(s)
      BY <1>1
    <3> QED BY <3>2, <3>3 DEF Ordered
  <2> QED BY <2>1, <2>2, <2>3
<1> QED BY <1>1, <1>5, <1>6 DEF t

\* Each sequence is ordered and comes before all that follow it.
Layered(seqs, n, before) ==
    /\ \A i \in 1 .. n : Ordered(seqs[i], before)
    /\ \A i, j \in 1 .. n : i < j =>
          \A x \in Of(seqs[i]), y \in Of(seqs[j]) : <<x, y>> \in before

OfFirst(seqs, n) == UNION {Of(seqs[i]) : i \in 1 .. n}

(* The concatenation has the elements of all the sequences, in their order. *)
LEMMA FlattenKeepsOrder ==
    ASSUME NEW X, NEW n \in Nat \ {0}, NEW seqs \in [1 .. n -> Seq(X)], NEW before,
           Layered(seqs, n, before)
    PROVE  /\ FlattenSeq(seqs) \in Seq(X)
           /\ Of(FlattenSeq(seqs)) = OfFirst(seqs, n)
           /\ Ordered(FlattenSeq(seqs), before)
<1>1. PICK f : Flattens(f, seqs, n) /\ FlattenSeq(seqs) = f[n]
  BY FlattenIsLast
<1> DEFINE Good(m) == f[m] \in Seq(X) /\ Of(f[m]) = OfFirst(seqs, m) /\ Ordered(f[m], before)
           S == {m \in Nat : m + 1 <= n => Good(m + 1)}
<1>2. 0 \in S
  <2>1. f[1] = seqs[1] /\ 1 \in 1 .. n /\ seqs[1] \in Seq(X)
    BY <1>1 DEF Flattens
  <2>2. OfFirst(seqs, 1) = Of(seqs[1])
    BY DEF OfFirst
  <2>3. Ordered(seqs[1], before)
    BY <2>1 DEF Layered
  <2> QED BY <2>1, <2>2, <2>3
<1>3. ASSUME NEW k \in Nat, k \in S PROVE k + 1 \in S
  <2> SUFFICES ASSUME k + 2 <= n PROVE Good(k + 2)
    OBVIOUS
  <2> DEFINE m == k + 1
  <2>1. m \in Nat /\ m + 1 \in 1 .. n /\ m + 1 = k + 2 /\ m + 1 # 1 /\ (m + 1) - 1 = m
    OBVIOUS
  <2>2. Good(m)
    BY <1>3
  <2>3. f[m + 1] = f[m] \o seqs[m + 1]
    BY <1>1, <2>1 DEF Flattens
  <2> HIDE DEF m
  <2>4. seqs[m + 1] \in Seq(X) /\ Ordered(seqs[m + 1], before)
    BY <2>1 DEF Layered
  <2>5. ASSUME NEW x \in Of(f[m]), NEW y \in Of(seqs[m + 1]) PROVE <<x, y>> \in before
    <3>1. PICK i \in 1 .. m : x \in Of(seqs[i])
      BY <2>2 DEF OfFirst
    <3>2. i \in 1 .. n /\ i < m + 1
      BY <2>1
    <3> QED BY <2>1, <3>1, <3>2 DEF Layered
  <2>6. /\ f[m + 1] \in Seq(X)
        /\ Of(f[m + 1]) = Of(f[m]) \cup Of(seqs[m + 1])
        /\ Ordered(f[m + 1], before)
    BY <2>2, <2>3, <2>4, <2>5, ConcatKeepsOrder
  <2>7. OfFirst(seqs, m + 1) = OfFirst(seqs, m) \cup Of(seqs[m + 1])
    <3>1. 1 .. m + 1 = (1 .. m) \cup {m + 1}
      BY <2>1
    <3> QED BY <3>1 DEF OfFirst
  <2> QED BY <2>1, <2>2, <2>6, <2>7
<1>4. \A k \in Nat : k \in S
  <2> HIDE DEF S
  <2> QED BY <1>2, <1>3, NaturalInduction
<1>5. Good(n)
  <2>1. n - 1 \in Nat /\ (n - 1) + 1 = n
    OBVIOUS
  <2>2. n - 1 \in S
    <3> HIDE DEF S
    <3> QED BY <1>4, <2>1
  <2> HIDE DEF Good
  <2> QED BY <2>1, <2>2
<1> QED BY <1>1, <1>5

-----------------------------------------------------------------------------
(* The authorities that contain an authority.                              *)

Chained(x, f) == IF parent[x] = None THEN <<x>> ELSE Append(f[parent[x]], x)

\* What is contained lies deeper.
Deeper(depth) == \A a \in Authorities : parent[a] # None => depth[parent[a]] < depth[a]

(* Containment is acyclic, and chains of it are not longer than some bound. *)
Contained ==
    /\ parent \in [Authorities -> Authorities \cup {None}]
    /\ \E depth \in [Authorities -> Nat], most \in Nat :
          Deeper(depth) /\ \A a \in Authorities : depth[a] < most

(* The recursion along the parents ends, since no containment is a cycle.  *)
LEMMA ChainsExist ==
    ASSUME Contained
    PROVE  \E f : f = [x \in Authorities |-> Chained(x, f)]
<1>1. PICK depth \in [Authorities -> Nat], most \in Nat :
          Deeper(depth) /\ \A a \in Authorities : depth[a] < most
  BY DEF Contained
<1> DEFINE UpTo(f, n) == \A x \in Authorities : depth[x] < n => f[x] = Chained(x, f)
           S == {n \in Nat : \E f : UpTo(f, n)}
<1>2. 0 \in S
  BY <1>1
<1>3. ASSUME NEW n \in Nat, n \in S PROVE n + 1 \in S
  <2>1. PICK f : UpTo(f, n)
    BY <1>3
  <2> DEFINE g == [x \in Authorities |-> Chained(x, f)]
  <2>2. \A x \in Authorities : g[x] = Chained(x, f)
    OBVIOUS
  <2> HIDE DEF g
  <2>3. ASSUME NEW x \in Authorities, depth[x] < n + 1
        PROVE  g[x] = Chained(x, g)
    <3>1. CASE parent[x] = None
      BY <2>2, <3>1 DEF Chained
    <3>2. CASE parent[x] # None
      <4>1. parent[x] \in Authorities /\ depth[parent[x]] < depth[x]
        BY <1>1, <3>2, RegistryAssumption DEF RegistryAssumption, Contained, Deeper
      <4>2. depth[parent[x]] < n
        BY <1>1, <2>3, <4>1
      <4>3. g[parent[x]] = f[parent[x]]
        BY <2>1, <2>2, <4>1, <4>2
      <4> QED BY <2>2, <4>3 DEF Chained
    <3> QED BY <3>1, <3>2
  <2>4. UpTo(g, n + 1)
    BY <2>3
  <2> HIDE DEF UpTo
  <2> QED BY <2>4
<1>4. \A n \in Nat : n \in S
  <2> HIDE DEF S
  <2> QED BY <1>2, <1>3, NaturalInduction
<1>5. PICK f : UpTo(f, most)
  <2> HIDE DEF UpTo
  <2> QED BY <1>1, <1>4
<1> DEFINE g == [x \in Authorities |-> Chained(x, f)]
<1>6. \A x \in Authorities : g[x] = Chained(x, f)
  OBVIOUS
<1>7. \A x \in Authorities : g[x] = f[x]
  BY <1>1, <1>5
<1> HIDE DEF g
<1>8. \A x \in Authorities : Chained(x, g) = Chained(x, f)
  BY <1>7, RegistryAssumption DEF Chained, Contained, RegistryAssumption
<1>9. g = [x \in Authorities |-> Chained(x, g)]
  BY <1>8 DEF g
<1> QED BY <1>9

LEMMA LineageUnfolds ==
    ASSUME Contained, NEW a \in Authorities
    PROVE  Lineage(a) = IF parent[a] = None THEN <<a>> ELSE Append(Lineage(parent[a]), a)
<1> DEFINE Chains(f) == f = [x \in Authorities |-> Chained(x, f)]
           chain == CHOOSE f : Chains(f)
<1>1. Chains(chain)
  <2> HIDE DEF Chains
  <2>1. \E f : Chains(f)
    BY ChainsExist DEF Chains
  <2> QED BY <2>1
<1>2. \A x : Lineage(x) = chain[x]
  BY DEF Lineage, Chained
<1> HIDE DEF chain
<1>3. chain[a] = Chained(a, chain)
  BY <1>1
<1> QED BY <1>2, <1>3 DEF Chained

\* What a lineage is: it ends in the authority, each is deeper than the one
\* before, and those before each are in its own lineage.
IsLineage(a, depth) ==
    LET L == Lineage(a)
    IN  /\ L \in Seq(Authorities)
        /\ Len(L) >= 1
        /\ L[Len(L)] = a
        /\ \A i, j \in 1 .. Len(L) : i < j =>
              /\ depth[L[i]] < depth[L[j]]
              /\ \E k \in 1 .. Len(Lineage(L[j])) : Lineage(L[j])[k] = L[i]

LEMMA LineageOfContained ==
    ASSUME Contained, NEW depth \in [Authorities -> Nat], Deeper(depth), NEW a \in Authorities,
           parent[a] # None => IsLineage(parent[a], depth)
    PROVE  IsLineage(a, depth)
<1>1. CASE parent[a] = None
  <2>1. Lineage(a) = <<a>>
    BY <1>1, LineageUnfolds
  <2>2. <<a>> \in Seq(Authorities) /\ Len(<<a>>) = 1 /\ <<a>>[1] = a
    OBVIOUS
  <2> QED BY <2>1, <2>2 DEF IsLineage
<1>2. CASE parent[a] # None
  <2> DEFINE b == parent[a]
             P == Lineage(b)
             L == Lineage(a)
  <2>1. b \in Authorities /\ depth[b] < depth[a]
    BY <1>2, RegistryAssumption DEF RegistryAssumption, Contained, Deeper
  <2>2. L = Append(P, a)
    BY <1>2, LineageUnfolds
  <2>3. /\ P \in Seq(Authorities) /\ Len(P) \in Nat /\ Len(P) >= 1 /\ P[Len(P)] = b
        /\ \A i, j \in 1 .. Len(P) : i < j =>
              /\ depth[P[i]] < depth[P[j]]
              /\ \E k \in 1 .. Len(Lineage(P[j])) : Lineage(P[j])[k] = P[i]
    <3>1. IsLineage(b, depth)
      BY <1>2
    <3> HIDE DEF b
    <3>2. P \in Seq(Authorities) /\ Len(P) >= 1 /\ P[Len(P)] = b
      BY <3>1 DEF IsLineage
    <3>3. Len(P) \in Nat
      BY <3>2, LenProperties
    <3> QED BY <3>1, <3>2, <3>3 DEF IsLineage
  <2>4. /\ L \in Seq(Authorities) /\ Len(L) = Len(P) + 1 /\ L[Len(L)] = a
        /\ \A i \in 1 .. Len(P) : L[i] = P[i] /\ P[i] \in Authorities
    BY <2>2, <2>3, AppendProperties
  <2> HIDE DEF b, P
  <2>5. ASSUME NEW i \in 1 .. Len(P) PROVE depth[P[i]] <= depth[b]
    <3>1. i < Len(P) => depth[P[i]] < depth[P[Len(P)]]
      BY <2>3
    <3>2. i = Len(P) => P[i] = b
      BY <2>3
    <3> QED BY <2>1, <2>3, <2>4, <3>1, <3>2
  <2>6. ASSUME NEW i \in 1 .. Len(L), NEW j \in 1 .. Len(L), i < j
        PROVE  /\ depth[L[i]] < depth[L[j]]
               /\ \E k \in 1 .. Len(Lineage(L[j])) : Lineage(L[j])[k] = L[i]
    <3>1. i \in 1 .. Len(P)
      BY <2>3, <2>4, <2>6
    <3>2. CASE j = Len(L)
      <4>1. L[j] = a /\ Lineage(L[j]) = L
        BY <2>4, <3>2
      <4>2. depth[L[i]] < depth[a]
        BY <2>1, <2>4, <2>5, <3>1
      <4> QED BY <4>1, <4>2
    <3>3. CASE j # Len(L)
      <4>1. j \in 1 .. Len(P)
        BY <2>3, <2>4, <3>3
      <4>2. L[i] = P[i] /\ L[j] = P[j]
        BY <2>4, <3>1, <4>1
      <4>3. /\ depth[P[i]] < depth[P[j]]
            /\ \E k \in 1 .. Len(Lineage(P[j])) : Lineage(P[j])[k] = P[i]
        BY <2>3, <2>6, <3>1, <4>1
      <4> QED BY <4>2, <4>3
    <3> QED BY <3>2, <3>3
  <2>7. Len(L) >= 1
    BY <2>3, <2>4
  <2> QED BY <2>4, <2>6, <2>7 DEF IsLineage
<1> QED BY <1>1, <1>2

LEMMA LineagesAre ==
    ASSUME Contained
    PROVE  \E depth \in [Authorities -> Nat] : \A a \in Authorities : IsLineage(a, depth)
<1>1. PICK depth \in [Authorities -> Nat], most \in Nat :
          Deeper(depth) /\ \A a \in Authorities : depth[a] < most
  BY DEF Contained
<1> DEFINE S == {n \in Nat : \A a \in Authorities : depth[a] < n => IsLineage(a, depth)}
<1>2. 0 \in S
  BY <1>1
<1>3. ASSUME NEW n \in Nat, n \in S PROVE n + 1 \in S
  <2> SUFFICES ASSUME NEW a \in Authorities, depth[a] < n + 1 PROVE IsLineage(a, depth)
    OBVIOUS
  <2>1. parent[a] # None => IsLineage(parent[a], depth)
    <3> SUFFICES ASSUME parent[a] # None PROVE IsLineage(parent[a], depth)
      OBVIOUS
    <3>1. parent[a] \in Authorities /\ depth[parent[a]] < depth[a]
      BY <1>1, RegistryAssumption DEF RegistryAssumption, Contained, Deeper
    <3> QED BY <1>1, <1>3, <3>1
  <2> QED BY <1>1, <2>1, LineageOfContained
<1>4. \A n \in Nat : n \in S
  <2> HIDE DEF S
  <2> QED BY <1>2, <1>3, NaturalInduction
<1> QED BY <1>1, <1>4

(* What contains an authority is the authority and what contains its       *)
(* parent.                                                                 *)
LEMMA AncestryUnfolds ==
    ASSUME Contained, NEW a \in Authorities
    PROVE  Ancestry(a) = {a} \cup (IF parent[a] = None THEN {} ELSE Ancestry(parent[a]))
<1>1. CASE parent[a] = None
  <2>1. Lineage(a) = <<a>>
    BY <1>1, LineageUnfolds
  <2>2. DOMAIN <<a>> = {1} /\ <<a>>[1] = a
    OBVIOUS
  <2> QED BY <1>1, <2>1, <2>2 DEF Ancestry
<1>2. CASE parent[a] # None
  <2> DEFINE P == Lineage(parent[a])
             n == Len(P)
  <2>1. Lineage(a) = Append(P, a)
    BY <1>2, LineageUnfolds
  <2>2. parent[a] \in Authorities
    BY <1>2 DEF Contained
  <2>3. P \in Seq(Authorities)
    BY <2>2, LineagesAre DEF IsLineage
  <2> HIDE DEF P
  <2>4. /\ n \in Nat /\ DOMAIN P = 1 .. n /\ DOMAIN Append(P, a) = 1 .. n + 1
        /\ \A i \in 1 .. n : Append(P, a)[i] = P[i]
        /\ Append(P, a)[n + 1] = a
    BY <2>3, AppendProperties, LenProperties
  <2>5. 1 .. n + 1 = (1 .. n) \cup {n + 1}
    BY <2>4
  <2>6. {Append(P, a)[i] : i \in 1 .. n + 1} = {P[i] : i \in 1 .. n} \cup {a}
    BY <2>4, <2>5
  <2> QED BY <1>2, <2>1, <2>4, <2>6 DEF Ancestry, P
<1> QED BY <1>1, <1>2

(* Containing one more authority leaves containment acyclic: all that the  *)
(* child contains moves below all that contains its new parent.            *)
LEMMA RelateContained ==
    ASSUME Contained, NEW child \in Authorities, NEW above \in Authorities,
           RelateParent(child, above)
    PROVE  Contained'
<1>1. PICK depth \in [Authorities -> Nat], most \in Nat :
          Deeper(depth) /\ \A a \in Authorities : depth[a] < most
  BY DEF Contained
<1>2. /\ parent' \in [Authorities -> Authorities \cup {None}]
      /\ parent'[child] = above
      /\ \A a \in Authorities \ {child} : parent'[a] = parent[a]
      /\ child \notin Ancestry(above)
  BY DEF RelateParent, Contained
<1> DEFINE deeper == [a \in Authorities |->
                        IF child \in Ancestry(a) THEN depth[a] + depth[above] + 1 ELSE depth[a]]
<1>3. /\ deeper \in [Authorities -> Nat]
      /\ \A a \in Authorities : deeper[a] < most + most
  BY <1>1
<1>4. ASSUME NEW a \in Authorities, parent'[a] # None
      PROVE  deeper[parent'[a]] < deeper[a]
  <2>1. CASE a = child
    <3>1. child \in Ancestry(child)
      BY AncestryUnfolds
    <3> QED BY <1>1, <1>2, <2>1, <3>1
  <2>2. CASE a # child
    <3>1. parent'[a] = parent[a] /\ parent[a] \in Authorities
      BY <1>2, <1>4, <2>2 DEF Contained
    <3>2. child \in Ancestry(a) <=> child \in Ancestry(parent[a])
      BY <1>4, <2>2, <3>1, AncestryUnfolds
    <3>3. depth[parent[a]] < depth[a]
      BY <1>1, <1>4, <3>1 DEF Deeper
    <3> QED BY <1>1, <3>1, <3>2, <3>3
  <2> QED BY <2>1, <2>2
<1> HIDE DEF deeper
<1>5. most + most \in Nat
  OBVIOUS
<1> QED BY <1>2, <1>3, <1>4, <1>5 DEF Contained, Deeper

LEMMA InitContained == Init => Contained
<1> SUFFICES ASSUME Init PROVE Contained
  OBVIOUS
<1>1. \A a \in Authorities : parent[a] = None
  BY DEF Init
<1> DEFINE flat == [a \in Authorities |-> 0]
<1>2. flat \in [Authorities -> Nat] /\ Deeper(flat) /\ \A a \in Authorities : flat[a] < 1
  BY <1>1 DEF Deeper
<1> HIDE DEF flat
<1>3. parent \in [Authorities -> Authorities \cup {None}]
  BY DEF Init
<1> QED BY <1>2, <1>3 DEF Contained

LEMMA StepContained == Contained /\ [Next]_vars => Contained'
<1> SUFFICES ASSUME Contained, [Next]_vars PROVE Contained'
  OBVIOUS
<1>1. ASSUME parent' = parent PROVE Contained'
  BY <1>1 DEF Contained, Deeper
<1>2. CASE \E child, above \in Authorities : RelateParent(child, above)
  BY <1>2, RelateContained
<1>3. CASE Administer /\ ~(\E child, above \in Authorities : RelateParent(child, above))
  BY <1>1, <1>3 DEF Administer, RegisterRepository, Prepare, SetRoots, DefinePack, Attach,
                    Detach, RemoveSource, topology
<1>4. CASE \E c \in Clients : \/ \E request \in Bindings : BeginBind(c, request)
                              \/ CommitBind(c)
                              \/ RefuseBind(c)
                              \/ \E use \in Uses : BindExtension(c, use)
  BY <1>1, <1>4 DEF BeginBind, CommitBind, RefuseBind, BindExtension, topology
<1>5. CASE UNCHANGED vars
  BY <1>1, <1>5 DEF vars, topology
<1> QED BY <1>2, <1>3, <1>4, <1>5 DEF Next

-----------------------------------------------------------------------------
(* The scopes of a plan.                                                   *)

(* Records have their types, a pack is attached once, and an extension has *)
(* one source of an identifier.                                            *)
RecordsPlain ==
    /\ Contained
    /\ IsFiniteSet(attachments) /\ attachments \subseteq Attaching
    /\ AttachedOnce
    /\ IsFiniteSet(sources)
    /\ \A x \in sources : x.identifier \in Sources /\ x.scope \in Scopes /\ x.order \in Orders
    /\ \A x, y \in sources : x.extension = y.extension /\ x.identifier = y.identifier => x = y

\* Scope x is after scope y in the order of precedence.
Nearer(e, s, x, y) ==
    \/ Level(x) > Level(y)
    \/ x.kind = "authority" /\ y.kind = "authority" /\ y.of \in Above(x.of)
    \/ /\ x.kind = "pack" /\ y.kind = "pack"
       /\ \/ PackOrder(e, s, x.of) > PackOrder(e, s, y.of)
          \/ PackOrder(e, s, x.of) = PackOrder(e, s, y.of) /\ x.of > y.of

\* The scope takes in the target.
Includes(e, s, t, scope) ==
    \/ scope = Machine
    \/ scope.kind = "pack" /\ AttachmentsOf(s, e, scope.of) # {}
    \/ scope = [kind |-> "space", of |-> s]
    \/ scope = [kind |-> "repository", of |-> TargetRepository(t)]
    \/ t.kind = "authority" /\ scope.kind = "authority" /\ scope.of \in Above(t.of) \cup {t.of}

PackScopes(e, s) == [i \in DOMAIN Attached(e, s) |-> [kind |-> "pack", of |-> Attached(e, s)[i].pack]]

AuthorityScopes(t) == [i \in DOMAIN AuthorityChain(t) |-> [kind |-> "authority", of |-> AuthorityChain(t)[i]]]

FixedScopes(s, t) ==
    <<[kind |-> "space", of |-> s], [kind |-> "repository", of |-> TargetRepository(t)]>>

\* Pairs of scopes, the second of which is nearer.
ByScope(e, s) == {pair \in Scopes \X Scopes : Nearer(e, s, pair[2], pair[1])}

LEMMA ScopeKinds ==
    /\ \A scope \in Scopes : scope.kind \in {"machine", "pack", "space", "repository", "authority"}
    /\ Machine \in Scopes /\ Machine.kind = "machine"
    /\ \A scope \in Scopes :
          /\ scope.kind = "machine" => scope = Machine
          /\ scope.kind = "pack" => scope.of \in Packs
          /\ scope.kind = "space" => scope.of \in Spaces
          /\ scope.kind = "repository" => scope.of \in Repositories
          /\ scope.kind = "authority" => scope.of \in Authorities
          /\ scope = [kind |-> scope.kind, of |-> scope.of]
BY DEF Scopes, Machine

LEMMA PacksInOrder ==
    ASSUME RecordsPlain, NEW e \in Extensions, NEW s \in Spaces
    PROVE  /\ PackScopes(e, s) \in Seq(Scopes)
           /\ Of(PackScopes(e, s)) =
                 {scope \in Scopes : scope.kind = "pack" /\ AttachmentsOf(s, e, scope.of) # {}}
           /\ Ordered(PackScopes(e, s), ByScope(e, s))
<1> DEFINE A == {x \in attachments : x.extension = e /\ x.space = s}
           name == [x \in A |-> x.pack]
           list == Attached(e, s)
           scopes == PackScopes(e, s)
<1>0. \A x \in A : /\ x.pack \in Packs /\ x.pack \in Nat /\ x.order \in Nat
                   /\ x.space = s /\ x.extension = e /\ x \in attachments
  <2>1. \A x \in Attaching : x.pack \in Packs /\ x.order \in Orders
    BY RegistryAssumption DEF RegistryAssumption
  <2>2. Packs \subseteq Nat /\ Orders \subseteq Nat
    BY RegistryAssumption DEF RegistryAssumption
  <2> QED BY <2>1, <2>2 DEF RecordsPlain
<1>1. Sortable(A, name)
  <2>1. IsFiniteSet(A)
    BY FS_Subset DEF RecordsPlain
  <2>2. name \in [A -> Nat]
    BY <1>0
  <2>3. \A x, y \in A : name[x] = name[y] => x = y
    BY <1>0 DEF RecordsPlain, AttachedOnce
  <2> QED BY <1>0, <2>1, <2>2, <2>3 DEF Sortable
<1>2. list = Sorted(A, name)
  BY DEF Attached, PackSequence
<1>3. /\ list \in Seq(A)
      /\ \A x \in A : \E i \in 1 .. Len(list) : list[i] = x
      /\ \A i, j \in 1 .. Len(list) : i < j => Precedes(list[i], list[j], name)
  <2> HIDE DEF A, name, list
  <2> QED BY <1>1, <1>2, SortedLists
<1>4. Len(list) \in Nat /\ DOMAIN list = 1 .. Len(list) /\ \A i \in 1 .. Len(list) : list[i] \in A
  BY <1>3, LenProperties
<1>5. \A x \in A : AttachmentsOf(s, e, x.pack) = {x}
  BY <1>0 DEF AttachmentsOf, RecordsPlain, AttachedOnce
<1>6. \A x \in A : PackOrder(e, s, x.pack) = x.order
  BY <1>5 DEF PackOrder
<1> HIDE DEF list
<1>7. scopes = [i \in 1 .. Len(list) |-> [kind |-> "pack", of |-> list[i].pack]]
  BY <1>4 DEF PackScopes, list
<1>8. \A i \in 1 .. Len(list) : [kind |-> "pack", of |-> list[i].pack] \in Scopes
  BY <1>0, <1>4 DEF Scopes
<1>9. scopes \in [1 .. Len(list) -> Scopes]
  BY <1>7, <1>8
<1>10. scopes \in Seq(Scopes) /\ Len(scopes) = Len(list)
  BY <1>4, <1>9
<1>11. \A i \in 1 .. Len(list) :
          /\ scopes[i] = [kind |-> "pack", of |-> list[i].pack]
          /\ scopes[i].kind = "pack" /\ scopes[i].of = list[i].pack
          /\ scopes[i] \in Scopes
  BY <1>7, <1>8
<1> HIDE DEF scopes
<1>12. Of(scopes) = {scope \in Scopes : scope.kind = "pack" /\ AttachmentsOf(s, e, scope.of) # {}}
  <2>1. ASSUME NEW i \in 1 .. Len(list)
        PROVE  /\ scopes[i] \in Scopes /\ scopes[i].kind = "pack"
               /\ AttachmentsOf(s, e, scopes[i].of) # {}
    BY <1>4, <1>5, <1>11
  <2>2. ASSUME NEW scope \in Scopes, scope.kind = "pack", NEW x \in AttachmentsOf(s, e, scope.of)
        PROVE  \E i \in 1 .. Len(list) : scopes[i] = scope
    <3>1. x \in A /\ x.pack = scope.of
      BY <2>2 DEF AttachmentsOf
    <3>2. PICK i \in 1 .. Len(list) : list[i] = x
      BY <1>3, <3>1
    <3>3. scope = [kind |-> "pack", of |-> scope.of]
      BY <2>2, ScopeKinds
    <3> QED BY <1>11, <3>1, <3>2, <3>3
  <2> QED BY <1>10, <2>1, <2>2 DEF Of
<1>13. Ordered(scopes, ByScope(e, s))
  <2> SUFFICES ASSUME NEW i \in 1 .. Len(list), NEW j \in 1 .. Len(list), i < j
               PROVE  <<scopes[i], scopes[j]>> \in ByScope(e, s)
    BY <1>10 DEF Ordered
  <2>1. Precedes(list[i], list[j], name) /\ list[i] \in A /\ list[j] \in A
    BY <1>3, <1>4
  <2>2. \/ list[i].order < list[j].order
        \/ list[i].order = list[j].order /\ list[i].pack < list[j].pack
    BY <2>1 DEF Precedes
  <2>3. Nearer(e, s, scopes[j], scopes[i])
    BY <1>0, <1>6, <1>11, <2>1, <2>2 DEF Nearer
  <2> QED BY <1>11, <2>3 DEF ByScope
<1> QED BY <1>10, <1>12, <1>13 DEF scopes

LEMMA AuthoritiesInOrder ==
    ASSUME Contained, NEW e \in Extensions, NEW s \in Spaces, NEW t \in Targets
    PROVE  /\ AuthorityScopes(t) \in Seq(Scopes)
           /\ Of(AuthorityScopes(t)) =
                 {scope \in Scopes : t.kind = "authority" /\ scope.kind = "authority"
                                     /\ scope.of \in Above(t.of) \cup {t.of}}
           /\ Ordered(AuthorityScopes(t), ByScope(e, s))
<1>1. t.kind \in {"repository", "authority"} /\ (t.kind = "authority" => t.of \in Authorities)
  BY DEF Targets
<1>2. CASE t.kind = "repository"
  <2>1. AuthorityScopes(t) = <<>>
    BY <1>2 DEF AuthorityScopes, AuthorityChain
  <2>2. Of(<<>>) = {} /\ Ordered(<<>>, ByScope(e, s)) /\ <<>> \in Seq(Scopes)
    BY DEF Of, Ordered
  <2> QED BY <1>2, <2>1, <2>2
<1>3. CASE t.kind = "authority"
  <2> DEFINE a == t.of
             L == Lineage(a)
             scopes == AuthorityScopes(t)
  <2>0. a \in Authorities
    BY <1>1, <1>3
  <2>1. PICK depth \in [Authorities -> Nat] : \A b \in Authorities : IsLineage(b, depth)
    BY LineagesAre
  <2>2. /\ L \in Seq(Authorities) /\ Len(L) >= 1 /\ L[Len(L)] = a
        /\ \A i, j \in 1 .. Len(L) : i < j =>
              /\ depth[L[i]] < depth[L[j]]
              /\ \E k \in 1 .. Len(Lineage(L[j])) : Lineage(L[j])[k] = L[i]
    BY <2>0, <2>1 DEF IsLineage
  <2>3. Len(L) \in Nat /\ DOMAIN L = 1 .. Len(L) /\ \A i \in 1 .. Len(L) : L[i] \in Authorities
    BY <2>2, LenProperties
  <2>4. \A b \in Authorities : DOMAIN Lineage(b) = 1 .. Len(Lineage(b))
    BY <2>1, LenProperties DEF IsLineage
  <2>5. scopes = [i \in 1 .. Len(L) |-> [kind |-> "authority", of |-> L[i]]]
    BY <1>3, <2>3 DEF AuthorityScopes, AuthorityChain
  <2>6. \A x \in Authorities : [kind |-> "authority", of |-> x] \in Scopes
    BY DEF Scopes
  <2>7. scopes \in Seq(Scopes) /\ Len(scopes) = Len(L)
    BY <2>3, <2>5, <2>6
  <2>8. Above(a) \cup {a} = {L[i] : i \in 1 .. Len(L)}
    <3>1. Above(a) = {L[i] : i \in 1 .. Len(L)} \ {a}
      BY <2>3 DEF Above, Ancestry
    <3>2. a \in {L[i] : i \in 1 .. Len(L)}
      BY <2>2, <2>3
    <3> QED BY <3>1, <3>2
  <2>9. ASSUME NEW i \in 1 .. Len(L), NEW j \in 1 .. Len(L), i < j
        PROVE  L[i] \in Above(L[j])
    <3>1. PICK k \in 1 .. Len(Lineage(L[j])) : Lineage(L[j])[k] = L[i]
      BY <2>2, <2>9
    <3>2. L[i] # L[j]
      BY <2>1, <2>2, <2>3, <2>9
    <3>3. k \in DOMAIN Lineage(L[j])
      BY <2>3, <2>4
    <3> QED BY <3>1, <3>2, <3>3 DEF Above, Ancestry
  <2>10. \A i \in 1 .. Len(L) :
            /\ scopes[i] = [kind |-> "authority", of |-> L[i]]
            /\ scopes[i].kind = "authority" /\ scopes[i].of = L[i]
            /\ scopes[i] \in Scopes
    BY <2>3, <2>5, <2>6
  <2> HIDE DEF L, scopes
  <2>11. Of(scopes) = {scope \in Scopes : t.kind = "authority" /\ scope.kind = "authority"
                                          /\ scope.of \in Above(a) \cup {a}}
    <3>1. ASSUME NEW scope \in Scopes, scope.kind = "authority", scope.of \in Above(a) \cup {a}
          PROVE  \E i \in 1 .. Len(L) : scopes[i] = scope
      <4>1. PICK i \in 1 .. Len(L) : scope.of = L[i]
        BY <2>8, <3>1
      <4>2. scope = [kind |-> "authority", of |-> scope.of]
        BY <3>1, ScopeKinds
      <4> QED BY <2>10, <4>1, <4>2
    <3>2. \A i \in 1 .. Len(L) : scopes[i] \in Scopes /\ scopes[i].kind = "authority"
                                 /\ scopes[i].of \in Above(a) \cup {a}
      BY <2>8, <2>10
    <3> HIDE DEF a
    <3> QED BY <1>3, <2>7, <3>1, <3>2 DEF Of
  <2>12. Ordered(scopes, ByScope(e, s))
    <3> SUFFICES ASSUME NEW i \in 1 .. Len(L), NEW j \in 1 .. Len(L), i < j
                 PROVE  <<scopes[i], scopes[j]>> \in ByScope(e, s)
      BY <2>7 DEF Ordered
    <3>1. Nearer(e, s, scopes[j], scopes[i])
      BY <2>9, <2>10 DEF Nearer
    <3> QED BY <2>10, <3>1 DEF ByScope
  <2> QED BY <2>7, <2>11, <2>12 DEF scopes
<1> QED BY <1>1, <1>2, <1>3

LEMMA FixedInOrder ==
    ASSUME NEW e \in Extensions, NEW s \in Spaces, NEW t \in Targets
    PROVE  /\ FixedScopes(s, t) \in Seq(Scopes)
           /\ Of(FixedScopes(s, t)) =
                 {scope \in Scopes : \/ scope = [kind |-> "space", of |-> s]
                                     \/ scope = [kind |-> "repository", of |-> TargetRepository(t)]}
           /\ Ordered(FixedScopes(s, t), ByScope(e, s))
<1> DEFINE x == [kind |-> "space", of |-> s]
           y == [kind |-> "repository", of |-> TargetRepository(t)]
<1>1. TargetRepository(t) \in Repositories
  BY RegistryAssumption DEF TargetRepository, Targets, RegistryAssumption
<1>2. x \in Scopes /\ y \in Scopes
  BY <1>1 DEF Scopes
<1>3. x.kind = "space" /\ y.kind = "repository"
  OBVIOUS
<1>4. FixedScopes(s, t) = <<x, y>>
  BY DEF FixedScopes
<1> HIDE DEF x, y
<1>5. /\ <<x, y>> \in Seq(Scopes) /\ Len(<<x, y>>) = 2
      /\ <<x, y>>[1] = x /\ <<x, y>>[2] = y /\ 1 .. 2 = {1, 2}
  BY <1>2
<1>6. Of(<<x, y>>) = {x, y}
  BY <1>5 DEF Of
<1>7. Level(y) > Level(x)
  BY <1>3 DEF Level
<1>8. Ordered(<<x, y>>, ByScope(e, s))
  <2>1. <<x, y>> \in ByScope(e, s)
    BY <1>2, <1>7 DEF ByScope, Nearer
  <2> QED BY <1>5, <2>1 DEF Ordered
<1>9. {x, y} = {scope \in Scopes : scope = x \/ scope = y}
  BY <1>2
<1> QED BY <1>4, <1>5, <1>6, <1>8, <1>9 DEF x, y

LEMMA LevelsOf ==
    ASSUME NEW scope \in Scopes
    PROVE  /\ scope.kind = "machine" => Level(scope) = 0
           /\ scope.kind = "pack" => Level(scope) = 1
           /\ scope.kind = "space" => Level(scope) = 2
           /\ scope.kind = "repository" => Level(scope) = 3
           /\ scope.kind = "authority" => Level(scope) = 4
BY DEF Level

(* The scopes of a plan are those that take in the target, in order.       *)
LEMMA ScopesInOrder ==
    ASSUME RecordsPlain, NEW e \in Extensions, NEW s \in Spaces, NEW t \in Targets
    PROVE  /\ ScopesOf(e, s, t) \in Seq(Scopes)
           /\ Of(ScopesOf(e, s, t)) = {scope \in Scopes : Includes(e, s, t, scope)}
           /\ Ordered(ScopesOf(e, s, t), ByScope(e, s))
<1> DEFINE first == <<Machine>>
           packScopes == PackScopes(e, s)
           fixed == FixedScopes(s, t)
           last == AuthorityScopes(t)
           R == ByScope(e, s)
<1>1. ScopesOf(e, s, t) = ((first \o packScopes) \o fixed) \o last
  BY DEF ScopesOf, PackScopes, FixedScopes, AuthorityScopes, AuthorityChain
<1>2. first \in Seq(Scopes) /\ Of(first) = {Machine} /\ Ordered(first, R)
  <2>1. first \in Seq(Scopes) /\ Len(first) = 1 /\ first[1] = Machine
    BY ScopeKinds
  <2> HIDE DEF first
  <2> QED BY <2>1 DEF Of, Ordered
<1>3. /\ packScopes \in Seq(Scopes) /\ Ordered(packScopes, R)
      /\ Of(packScopes) = {scope \in Scopes : scope.kind = "pack" /\ AttachmentsOf(s, e, scope.of) # {}}
  BY PacksInOrder
<1>4. /\ fixed \in Seq(Scopes) /\ Ordered(fixed, R)
      /\ Of(fixed) = {scope \in Scopes : \/ scope = [kind |-> "space", of |-> s]
                                         \/ scope = [kind |-> "repository", of |-> TargetRepository(t)]}
  BY FixedInOrder
<1>5. /\ last \in Seq(Scopes) /\ Ordered(last, R)
      /\ Of(last) = {scope \in Scopes : t.kind = "authority" /\ scope.kind = "authority"
                                        /\ scope.of \in Above(t.of) \cup {t.of}}
  BY AuthoritiesInOrder DEF RecordsPlain
<1> HIDE DEF first, packScopes, fixed, last, R
<1>6. \A x, y \in Scopes : Level(y) > Level(x) => <<x, y>> \in R
  BY DEF R, ByScope, Nearer
<1>7. /\ \A x \in Of(first) : x \in Scopes /\ Level(x) = 0
      /\ \A x \in Of(packScopes) : x \in Scopes /\ Level(x) = 1
      /\ \A x \in Of(last) : x \in Scopes /\ Level(x) = 4
  BY <1>2, <1>3, <1>5, ScopeKinds, LevelsOf
<1>8. \A x \in Of(fixed) : x \in Scopes /\ Level(x) \in {2, 3}
  <2>1. \A x \in Of(fixed) : x \in Scopes /\ x.kind \in {"space", "repository"}
    BY <1>4
  <2> QED BY <2>1, LevelsOf
<1>9. /\ first \o packScopes \in Seq(Scopes)
      /\ Of(first \o packScopes) = Of(first) \cup Of(packScopes)
      /\ Ordered(first \o packScopes, R)
  <2>1. ASSUME NEW x \in Of(first), NEW y \in Of(packScopes) PROVE <<x, y>> \in R
    <3>1. x \in Scopes /\ y \in Scopes /\ Level(x) = 0 /\ Level(y) = 1
      BY <1>6, <1>7
    <3>2. Level(y) > Level(x)
      BY <3>1
    <3> QED BY <1>6, <3>1, <3>2
  <2> QED BY <1>2, <1>3, <2>1, ConcatKeepsOrder
<1> DEFINE two == first \o packScopes
<1>10. /\ two \o fixed \in Seq(Scopes)
       /\ Of(two \o fixed) = Of(two) \cup Of(fixed)
       /\ Ordered(two \o fixed, R)
  <2>1. ASSUME NEW x \in Of(two), NEW y \in Of(fixed) PROVE <<x, y>> \in R
    <3>1. x \in Scopes /\ y \in Scopes /\ Level(x) \in {0, 1} /\ Level(y) \in {2, 3}
      BY <1>6, <1>7, <1>8, <1>9
    <3>2. Level(y) > Level(x)
      BY <3>1
    <3> QED BY <1>6, <3>1, <3>2
  <2> HIDE DEF two
  <2> QED BY <1>4, <1>9, <2>1, ConcatKeepsOrder DEF two
<1> DEFINE three == two \o fixed
<1>11. /\ three \o last \in Seq(Scopes)
       /\ Of(three \o last) = Of(three) \cup Of(last)
       /\ Ordered(three \o last, R)
  <2>1. ASSUME NEW x \in Of(three), NEW y \in Of(last) PROVE <<x, y>> \in R
    <3>1. x \in Scopes /\ y \in Scopes /\ Level(x) \in {0, 1, 2, 3} /\ Level(y) = 4
      BY <1>6, <1>7, <1>8, <1>9, <1>10
    <3>2. Level(y) > Level(x)
      BY <3>1
    <3> QED BY <1>6, <3>1, <3>2
  <2> HIDE DEF two
  <2> QED BY <1>5, <1>10, <2>1, ConcatKeepsOrder
<1>12. Of(three \o last) = Of(first) \cup Of(packScopes) \cup Of(fixed) \cup Of(last)
  BY <1>9, <1>10, <1>11
<1>13. Of(first) \cup Of(packScopes) \cup Of(fixed) \cup Of(last)
         = {scope \in Scopes : Includes(e, s, t, scope)}
  BY <1>2, <1>3, <1>4, <1>5, ScopeKinds DEF Includes
<1> QED BY <1>1, <1>11, <1>12, <1>13 DEF R

-----------------------------------------------------------------------------
(* Plans follow the scopes.                                                *)

\* Pairs of sources of an extension, the second of which overrides the first.
ByPrecedence(s) == {pair \in sources \X sources : Overrides(s, pair[2], pair[1])}

(* The sources of a scope, by their order.                                 *)
LEMMA SourcesInOrder ==
    ASSUME RecordsPlain, NEW e \in Extensions, NEW s \in Spaces, NEW scope \in Scopes
    PROVE  /\ InScope(e, scope) \in Seq(sources)
           /\ Of(InScope(e, scope)) = {x \in sources : x.extension = e /\ x.scope = scope}
           /\ Ordered(InScope(e, scope), ByPrecedence(s))
<1> DEFINE A == {x \in sources : x.extension = e /\ x.scope = scope}
           name == [x \in A |-> x.identifier]
           list == InScope(e, scope)
<1>0. \A x \in A : x.identifier \in Nat /\ x.order \in Nat /\ x \in sources /\ x.scope = scope
  <2>1. Sources \subseteq Nat /\ Orders \subseteq Nat
    BY RegistryAssumption DEF RegistryAssumption
  <2> QED BY <2>1 DEF RecordsPlain
<1>1. Sortable(A, name)
  <2>1. IsFiniteSet(A)
    BY FS_Subset DEF RecordsPlain
  <2>2. name \in [A -> Nat]
    BY <1>0
  <2>3. \A x, y \in A : name[x] = name[y] => x = y
    BY <1>0 DEF RecordsPlain
  <2> QED BY <1>0, <2>1, <2>2, <2>3 DEF Sortable
<1>2. list = Sorted(A, name)
  BY DEF InScope, SourceSequence
<1>3. /\ list \in Seq(A)
      /\ \A x \in A : \E i \in 1 .. Len(list) : list[i] = x
      /\ \A i, j \in 1 .. Len(list) : i < j => Precedes(list[i], list[j], name)
  <2> HIDE DEF A, name, list
  <2> QED BY <1>1, <1>2, SortedLists
<1>4. Len(list) \in Nat /\ \A i \in 1 .. Len(list) : list[i] \in A
  BY <1>3, LenProperties
<1> HIDE DEF list
<1>5. list \in Seq(sources)
  BY <1>3, SeqMonotonic
<1>6. Of(list) = A
  BY <1>3, <1>4 DEF Of
<1>7. Ordered(list, ByPrecedence(s))
  <2> SUFFICES ASSUME NEW i \in 1 .. Len(list), NEW j \in 1 .. Len(list), i < j
               PROVE  <<list[i], list[j]>> \in ByPrecedence(s)
    BY DEF Ordered
  <2>1. Precedes(list[i], list[j], name) /\ list[i] \in A /\ list[j] \in A
    BY <1>3, <1>4
  <2>2. \/ list[i].order < list[j].order
        \/ list[i].order = list[j].order /\ list[i].identifier < list[j].identifier
    BY <2>1 DEF Precedes
  <2>3. Overrides(s, list[j], list[i])
    BY <1>0, <2>1, <2>2 DEF Overrides
  <2> QED BY <1>0, <2>1, <2>3 DEF ByPrecedence
<1> QED BY <1>5, <1>6, <1>7 DEF list

(* A source of a nearer scope overrides one of a farther.                  *)
LEMMA NearerOverrides ==
    ASSUME NEW s, NEW x, NEW y, y.extension = x.extension,
           Nearer(x.extension, s, x.scope, y.scope)
    PROVE  Overrides(s, x, y)
BY DEF Nearer, Overrides

LEMMA PlanInOrder ==
    ASSUME RecordsPlain, NEW e \in Extensions, NEW s \in Spaces, NEW t \in Targets
    PROVE  LET plan == Plan(e, s, t)
           IN  /\ {plan[i].source : i \in DOMAIN plan}
                    = {x \in sources : x.extension = e /\ Reaches(s, t, x)}
               /\ \A i, j \in DOMAIN plan :
                     i < j => Overrides(s, plan[j].source, plan[i].source)
<1> DEFINE scopes == ScopesOf(e, s, t)
           n == Len(scopes)
           seqs == [i \in DOMAIN scopes |-> InScope(e, scopes[i])]
           planned == FlattenSeq(seqs)
           plan == Plan(e, s, t)
           R == ByPrecedence(s)
<1>1. /\ scopes \in Seq(Scopes)
      /\ Of(scopes) = {scope \in Scopes : Includes(e, s, t, scope)}
      /\ Ordered(scopes, ByScope(e, s))
  BY ScopesInOrder
<1>2. n \in Nat /\ DOMAIN scopes = 1 .. n /\ \A i \in 1 .. n : scopes[i] \in Scopes
  BY <1>1, LenProperties
<1>3. n # 0
  <2>1. Machine \in Of(scopes)
    BY <1>1, ScopeKinds DEF Includes
  <2> QED BY <1>2, <2>1 DEF Of
<1> HIDE DEF scopes
<1>4. ASSUME NEW i \in 1 .. n
      PROVE  /\ seqs[i] \in Seq(sources)
             /\ Of(seqs[i]) = {x \in sources : x.extension = e /\ x.scope = scopes[i]}
             /\ Ordered(seqs[i], R)
  BY <1>2, SourcesInOrder
<1>5. seqs \in [1 .. n -> Seq(sources)]
  BY <1>2, <1>4
<1> HIDE DEF seqs, R
<1>6. Layered(seqs, n, R)
  <2> SUFFICES ASSUME NEW i \in 1 .. n, NEW j \in 1 .. n, i < j,
                      NEW x \in Of(seqs[i]), NEW y \in Of(seqs[j])
               PROVE  <<x, y>> \in R
    BY <1>4 DEF Layered
  <2>1. <<scopes[i], scopes[j]>> \in ByScope(e, s)
    BY <1>1 DEF Ordered
  <2>2. Nearer(e, s, scopes[j], scopes[i])
    BY <2>1 DEF ByScope
  <2>3. /\ x \in sources /\ x.extension = e /\ x.scope = scopes[i]
        /\ y \in sources /\ y.extension = e /\ y.scope = scopes[j]
    BY <1>4
  <2>4. Overrides(s, y, x)
    BY <2>2, <2>3, NearerOverrides
  <2> QED BY <2>3, <2>4 DEF R, ByPrecedence
<1>7. /\ planned \in Seq(sources)
      /\ Of(planned) = OfFirst(seqs, n)
      /\ Ordered(planned, R)
  BY <1>2, <1>3, <1>5, <1>6, FlattenKeepsOrder
<1>8. plan = [i \in DOMAIN planned |-> [source |-> planned[i], checkout |-> Checkout(s, planned[i])]]
  BY DEF Plan, scopes, seqs
<1> HIDE DEF plan, planned
<1>9. DOMAIN planned = 1 .. Len(planned)
  BY <1>7, LenProperties
<1>10. DOMAIN plan = 1 .. Len(planned) /\ \A i \in 1 .. Len(planned) : plan[i].source = planned[i]
  BY <1>8, <1>9
<1>11. {plan[i].source : i \in DOMAIN plan} = Of(planned)
  BY <1>10 DEF Of
<1>12. Of(planned) = {x \in sources : x.extension = e /\ Reaches(s, t, x)}
  <2>1. ASSUME NEW x \in sources, x.extension = e
        PROVE  Includes(e, s, t, x.scope) <=> Reaches(s, t, x)
    BY <2>1 DEF Includes, Reaches
  <2>2. \A x \in sources : x.scope \in Scopes
    BY DEF RecordsPlain
  <2>3. OfFirst(seqs, n) = {x \in sources : x.extension = e /\ x.scope \in Of(scopes)}
    <3>1. \A i \in 1 .. n : Of(seqs[i]) = {x \in sources : x.extension = e /\ x.scope = scopes[i]}
      BY <1>4
    <3> QED BY <3>1 DEF OfFirst, Of
  <2> QED BY <1>1, <1>7, <2>1, <2>2, <2>3
<1>13. ASSUME NEW i \in DOMAIN plan, NEW j \in DOMAIN plan, i < j
       PROVE  Overrides(s, plan[j].source, plan[i].source)
  <2>1. <<planned[i], planned[j]>> \in R
    BY <1>7, <1>10, <1>13 DEF Ordered
  <2>2. Overrides(s, planned[j], planned[i])
    BY <2>1 DEF R, ByPrecedence
  <2> QED BY <1>10, <2>2
<1> QED BY <1>11, <1>12, <1>13 DEF plan

LEMMA PlainSubset ==
    ASSUME RecordsPlain, Contained', AttachedOnce', attachments' \subseteq attachments, sources' \subseteq sources
    PROVE  RecordsPlain'
BY FS_Subset DEF RecordsPlain

LEMMA CommitPlain ==
    ASSUME RecordsPlain, Contained', PendingIsLocated, AttachedOnce', NEW c \in Clients, CommitBind(c)
    PROVE  RecordsPlain'
<1> DEFINE record == Recorded(c)
           others == sources \ SourcesOf(record.extension, record.identifier)
<1>1. CASE Repeats(c)
  BY <1>1, PlainSubset DEF CommitBind
<1>2. CASE ~Repeats(c)
  <2>1. attachments' = attachments /\ sources' = others \cup {record}
    BY <1>2 DEF CommitBind
  <2>2. binding[c].request \in Bindings
    BY DEF CommitBind, PendingIsLocated
  <2>3. record.identifier \in Sources /\ record.scope \in Scopes /\ record.order \in Orders
    BY <2>2, RegistryAssumption DEF Recorded, RegistryAssumption
  <2>4. \A x \in others : ~(x.extension = record.extension /\ x.identifier = record.identifier)
    BY DEF SourcesOf
  <2>5. others \subseteq sources
    OBVIOUS
  <2> HIDE DEF record, others
  <2>6. IsFiniteSet(others)
    BY <2>5, FS_Subset DEF RecordsPlain
  <2>7. IsFiniteSet(sources')
    BY <2>1, <2>6, FS_AddElement
  <2>8. \A x \in sources' : x.identifier \in Sources /\ x.scope \in Scopes /\ x.order \in Orders
    BY <2>1, <2>3, <2>5 DEF RecordsPlain
  <2>9. \A x, y \in sources' :
           x.extension = y.extension /\ x.identifier = y.identifier => x = y
    BY <2>1, <2>4, <2>5 DEF RecordsPlain
  <2> QED BY <2>1, <2>7, <2>8, <2>9 DEF RecordsPlain
<1> QED BY <1>1, <1>2

LEMMA StepPlain == RecordsPlain /\ PendingIsLocated /\ [Next]_vars => RecordsPlain'
<1> SUFFICES ASSUME RecordsPlain, PendingIsLocated, [Next]_vars PROVE RecordsPlain'
  OBVIOUS
<1>0. Contained' /\ AttachedOnce'
  BY StepContained, StepAttachedOnce DEF RecordsPlain
<1>1. CASE UNCHANGED vars
  BY <1>0, <1>1, PlainSubset DEF vars, topology, records
<1>2. ASSUME NEW x \in Attaching, Attach(x.space, x.extension, x.pack, x.order)
      PROVE  RecordsPlain'
  <2> DEFINE old == AttachmentsOf(x.space, x.extension, x.pack)
  <2>1. x = [space |-> x.space, extension |-> x.extension, pack |-> x.pack, order |-> x.order]
    BY RegistryAssumption DEF RegistryAssumption
  <2>2. attachments' = (attachments \ old) \cup {x} /\ sources' = sources
    BY <1>2, <2>1 DEF Attach
  <2> HIDE DEF old
  <2>3. IsFiniteSet(attachments \ old)
    BY FS_Subset DEF RecordsPlain
  <2>4. IsFiniteSet(attachments') /\ attachments' \subseteq Attaching
    BY <2>2, <2>3, FS_AddElement DEF RecordsPlain
  <2> QED BY <1>0, <2>2, <2>4 DEF RecordsPlain
<1>3. CASE Administer /\ ~(\E x \in Attaching : Attach(x.space, x.extension, x.pack, x.order))
  <2>1. attachments' \subseteq attachments /\ sources' \subseteq sources
    BY <1>3 DEF Administer, RegisterRepository, RelateParent, Prepare, SetRoots, DefinePack, Detach,
                RemoveSource, records
  <2> QED BY <1>0, <2>1, PlainSubset
<1>4. ASSUME NEW c \in Clients, CommitBind(c) PROVE RecordsPlain'
  BY <1>0, <1>4, CommitPlain
<1>5. ASSUME NEW c \in Clients,
             \/ \E request \in Bindings : BeginBind(c, request)
             \/ RefuseBind(c)
             \/ \E use \in Uses : BindExtension(c, use)
      PROVE  RecordsPlain'
  <2>1. attachments' = attachments /\ sources' = sources
    BY <1>5 DEF BeginBind, RefuseBind, BindExtension, records
  <2> QED BY <1>0, <2>1, PlainSubset
<1> QED BY <1>1, <1>2, <1>3, <1>4, <1>5 DEF Next

(* PlanFollowsScopes: plan_configuration_sources gives every source that   *)
(* reaches the target once, in the documented order of precedence, for any *)
(* containment, packs, attachments and sources.                            *)
THEOREM Plan_FollowsScopes == Spec => []PlanFollowsScopes
<1>1. Init => RecordsPlain /\ PendingIsLocated
  BY InitContained, RegistryAssumption, FS_EmptySet
  DEF RegistryAssumption, Init, RecordsPlain, AttachedOnce, PendingIsLocated
<1>2. RecordsPlain /\ PendingIsLocated /\ [Next]_vars => (RecordsPlain /\ PendingIsLocated)'
  BY StepPlain, StepPending
<1>3. RecordsPlain => PlanFollowsScopes
  BY PlanInOrder DEF PlanFollowsScopes
<1> QED BY <1>1, <1>2, <1>3, PTL DEF Spec

-----------------------------------------------------------------------------
(* Type correctness.                                                       *)

LEMMA DeepestExists ==
    ASSUME NEW f \in Files, NEW there, Containing(f, there) # {}
    PROVE  Max(Containing(f, there)) \in Containing(f, there)
<1> DEFINE S == Containing(f, there)
           n == Len(Around[f])
           room == {n - i : i \in S}
<1>1. Around[f] \in Seq(Repositories)
  BY RegistryAssumption DEF RegistryAssumption
<1>2. n \in Nat /\ S \subseteq 1 .. n
  BY <1>1, LenProperties DEF Containing
<1> HIDE DEF S, n
<1>3. room \in SUBSET Nat /\ room # {}
  <2>1. \A i \in S : n - i \in Nat
    BY <1>2
  <2>2. S # {}
    BY DEF S
  <2> QED BY <2>1, <2>2
<1>4. PICK least \in room : \A k \in room : least <= k
  <2> HIDE DEF room
  <2> QED BY <1>3, LeastNatural
<1>5. PICK m \in S : least = n - m
  BY <1>4
<1>6. \A i \in S : m >= i
  <2> SUFFICES ASSUME NEW i \in S PROVE m >= i
    OBVIOUS
  <2>1. n - m <= n - i
    BY <1>4, <1>5
  <2>2. n \in Nat /\ m \in Nat /\ i \in Nat
    BY <1>2
  <2> QED BY <2>1, <2>2
<1> QED BY <1>5, <1>6 DEF Max, S

LEMMA LocatedIsLocation ==
    ASSUME NEW f \in Files, NEW there
    PROVE  Under(f, there) \in Locations
<1>1. CASE Containing(f, there) = {}
  BY <1>1 DEF Under, Locations
<1>2. CASE Containing(f, there) # {}
  <2>1. Max(Containing(f, there)) \in DOMAIN Around[f]
    BY <1>2, DeepestExists DEF Containing
  <2>2. Around[f] \in Seq(Repositories)
    BY RegistryAssumption DEF RegistryAssumption
  <2>3. Around[f][Max(Containing(f, there))] \in Repositories
    BY <2>1, <2>2, LenProperties, ElementOfSeq
  <2> QED BY <1>2, <2>3 DEF Under, Locations
<1> QED BY <1>1, <1>2

(* The types of the records by themselves.                                 *)
RecordTypes ==
    /\ registered \subseteq Repositories
    /\ parent \in [Authorities -> Authorities \cup {None}]
    /\ generated \in [Spaces -> SUBSET Repositories]
    /\ temporary \subseteq Spaces
    /\ packs \subseteq [extension : Extensions, pack : Packs]
    /\ attachments \subseteq Attaching
    /\ sources \subseteq SourceRecords

Counts ==
    \/ generation' = generation
    \/ generation < MaxGeneration /\ generation' = generation + 1

LEMMA StepCounts == [Next]_vars => Counts
BY DEF Next, Administer, RegisterRepository, RelateParent, Prepare, SetRoots, DefinePack, Attach, Detach,
       RemoveSource, BeginBind, CommitBind, RefuseBind, BindExtension, Count, records, vars, Counts

(* What the records leave to show: what is in flight and what is bound.    *)
LEMMA TypesKept ==
    ASSUME TypeOK, PendingIsLocated', BoundIsPast', RecordTypes', Counts
    PROVE  TypeOK'
<1>1. generation' \in 0 .. MaxGeneration
  BY RegistryAssumption DEF TypeOK, RegistryAssumption, Counts
<1>2. ASSUME NEW c \in Clients, binding'[c] \notin {None, Stale}
      PROVE  binding'[c].request \in Bindings /\ binding'[c].location \in Locations
  <2>1. /\ binding'[c].request \in Bindings
        /\ binding'[c].location = Under(binding'[c].request.file, registered')
    BY <1>2 DEF PendingIsLocated
  <2>2. binding'[c].request.file \in Files
    BY <2>1, RegistryAssumption DEF RegistryAssumption
  <2> QED BY <2>1, <2>2, LocatedIsLocation
<1> QED BY <1>1, <1>2 DEF TypeOK, BoundIsPast, RecordTypes

LEMMA RecordedIsSource ==
    ASSUME TypeOK, NEW c \in Clients, binding[c] \notin {None, Stale}
    PROVE  Recorded(c) \in SourceRecords
<1> DEFINE request == binding[c].request
           existing == SourcesOf(request.extension, request.identifier)
           revision == IF existing = {} THEN 0 ELSE (CHOOSE x \in existing : TRUE).revision + 1
<1>1. request \in Bindings /\ binding[c].location \in Locations
  BY DEF TypeOK
<1>2. /\ request.extension \in Extensions /\ request.identifier \in Sources
      /\ request.scope \in Scopes /\ request.layout \in Layouts
      /\ request.order \in Orders /\ request.writable \in BOOLEAN
      /\ request.codec \in Codecs
  BY <1>1, RegistryAssumption DEF RegistryAssumption
<1>3. revision \in Nat
  <2>1. \A x \in existing : x.revision \in Nat
    BY DEF SourcesOf, TypeOK, SourceRecords
  <2> HIDE DEF existing
  <2> QED BY <2>1
<1>4. Recorded(c) = [extension  |-> request.extension, identifier |-> request.identifier,
                     scope      |-> request.scope, location |-> binding[c].location,
                     codec      |-> request.codec, layout |-> request.layout, writable |-> request.writable,
                     order      |-> request.order, revision |-> revision]
  BY DEF Recorded
<1> HIDE DEF request, revision
<1> QED BY <1>1, <1>2, <1>3, <1>4 DEF SourceRecords

LEMMA StepRecordTypes == TypeOK /\ [Next]_vars => RecordTypes'
<1> SUFFICES ASSUME TypeOK, [Next]_vars PROVE RecordTypes'
  OBVIOUS
<1>0. RecordTypes
  BY DEF TypeOK, RecordTypes
<1>1. CASE UNCHANGED vars
  BY <1>0, <1>1 DEF vars, topology, records, RecordTypes
<1>2. ASSUME NEW r \in Repositories, RegisterRepository(r) PROVE RecordTypes'
  BY <1>0, <1>2 DEF RegisterRepository, records, RecordTypes
<1>3. ASSUME NEW s \in Spaces, Prepare(s) PROVE RecordTypes'
  BY <1>0, <1>3 DEF Prepare, records, RecordTypes
<1>4. CASE \E appointed \in Appointed : SetRoots(appointed[1], appointed[2])
  BY <1>0, <1>4 DEF SetRoots, RecordTypes, topology
<1>5. ASSUME NEW x \in Offered, DefinePack(x.extension, x.pack) PROVE RecordTypes'
  <2>1. [extension |-> x.extension, pack |-> x.pack] \in [extension : Extensions, pack : Packs]
    BY RegistryAssumption DEF RegistryAssumption
  <2> QED BY <1>0, <1>5, <2>1 DEF DefinePack, RecordTypes, topology
<1>6. ASSUME NEW x \in Attaching, Attach(x.space, x.extension, x.pack, x.order) PROVE RecordTypes'
  <2>1. x = [space |-> x.space, extension |-> x.extension, pack |-> x.pack, order |-> x.order]
    BY RegistryAssumption DEF RegistryAssumption
  <2> QED BY <1>0, <1>6, <2>1 DEF Attach, RecordTypes, topology
<1>7. ASSUME NEW x \in Attaching, Detach(x.space, x.extension, x.pack) PROVE RecordTypes'
  BY <1>0, <1>7 DEF Detach, RecordTypes, topology
<1>8. ASSUME NEW e, NEW i, RemoveSource(e, i) PROVE RecordTypes'
  BY <1>0, <1>8 DEF RemoveSource, RecordTypes, topology
<1>9. ASSUME NEW c \in Clients, CommitBind(c) PROVE RecordTypes'
  <2>1. Recorded(c) \in SourceRecords
    BY <1>9, RecordedIsSource DEF CommitBind
  <2> QED BY <1>0, <1>9, <2>1 DEF CommitBind, RecordTypes, topology
<1>10. ASSUME NEW c \in Clients,
              \/ \E request \in Bindings : BeginBind(c, request)
              \/ RefuseBind(c)
              \/ \E use \in Uses : BindExtension(c, use)
       PROVE  RecordTypes'
  BY <1>0, <1>10 DEF BeginBind, RefuseBind, BindExtension, records, RecordTypes, topology
<1>11. ASSUME NEW child \in Authorities, NEW above \in Authorities, RelateParent(child, above)
       PROVE  RecordTypes'
  BY <1>0, <1>11 DEF RelateParent, records, RecordTypes
<1> QED BY <1>1, <1>2, <1>3, <1>4, <1>5, <1>6, <1>7, <1>8, <1>9, <1>10, <1>11 DEF Next, Administer

(* Every record keeps its type, for any requests and any order of them.    *)
THEOREM RegistryTypes == Spec => []TypeOK
<1>1. Init => TypeOK /\ PendingIsLocated /\ BoundIsPast
  BY RegistryAssumption
  DEF RegistryAssumption, Init, TypeOK, PendingIsLocated, BoundIsPast, Policies, NoPolicy
<1>2. TypeOK /\ PendingIsLocated /\ BoundIsPast /\ [Next]_vars
        => (TypeOK /\ PendingIsLocated /\ BoundIsPast)'
  BY StepRecordTypes, StepCounts, TypesKept, StepPending, StepBoundIsPast
<1> QED BY <1>1, <1>2, PTL DEF Spec
=============================================================================
