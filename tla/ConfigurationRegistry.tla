----------------------- MODULE ConfigurationRegistry ------------------------
(***************************************************************************)
(* Configuration records and their resolution: the operations of           *)
(* lifecycle.py on packs, attachments, sources and extension roots, those  *)
(* on the topology that a plan reads (repositories, containment of         *)
(* authorities, generated worktrees), the configuration part of            *)
(* validate_state in core/state_codec.py, and core/configuration.py.       *)
(*                                                                         *)
(* Every operation is one commit on the state document, except that a      *)
(* source is located and validated against the state its caller observed   *)
(* and recorded later.  A bound extension keeps the plan of its sources    *)
(* and the configuration generation as they were when it was bound.  Only  *)
(* changes of configuration records advance that generation: a registered  *)
(* repository, a new parent of an authority or a prepared space does not,  *)
(* although the last two change plans.                                     *)
(*                                                                         *)
(* Packs and source identifiers are numbered in the order of their names.  *)
(***************************************************************************)
EXTENDS Integers, SequencesExt

CONSTANTS
    Extensions,
    Packs,
    Sources,        \* source identifiers
    Spaces,
    Associated,     \* the repositories of a space
    Repositories,
    Authorities,
    Host,           \* the repository of an authority
    Files,          \* documents that exist and decode
    Around,         \* the repositories around a file, outermost first
    Bindings,       \* what hosts ask to bind
    Orders,
    Codecs,
    Paths,          \* directories a host may appoint
    Appointed,      \* the root policies hosts set, by extension
    Offered,        \* the packs hosts define
    Attaching,      \* what hosts attach
    Before,         \* what of it they have attached at first
    Uses,           \* what hosts bind extensions for
    MaxGeneration,  \* bound: changes of the configuration
    Clients,        \* callers with a source to bind, and bound extensions
    Stale,          \* a binding whose observed state generation has passed
    None

Layouts == {"shared", "dedicated"}

Machine == [kind |-> "machine", of |-> None]

Scopes == {Machine}
            \cup [kind : {"pack"}, of : Packs]
            \cup [kind : {"space"}, of : Spaces]
            \cup [kind : {"repository"}, of : Repositories]
            \cup [kind : {"authority"}, of : Authorities]

Targets == [kind : {"repository"}, of : Repositories]
             \cup [kind : {"authority"}, of : Authorities]

\* The directory of one role (configuration, data or cache) and the product
\* root, each appointed or not.
Policies == [explicit : Paths \cup {None}, product : Paths \cup {None}]

NoPolicy == [explicit |-> None, product |-> None]

\* A file under a repository, or outside of every registered one.
Locations == [repository : Repositories \cup {None}, file : Files]

ASSUME RegistryAssumption ==
    /\ Packs \subseteq Nat /\ Sources \subseteq Nat /\ Orders \subseteq Nat
    /\ Associated \in [Spaces -> SUBSET Repositories]
    /\ Host \in [Authorities -> Repositories]
    /\ IsFiniteSet(Before)
    /\ Around \in [Files -> Seq(Repositories)]
    /\ None \notin Repositories \cup Authorities \cup Paths
    /\ MaxGeneration \in Nat
    /\ \A b \in Bindings :
          /\ b.extension \in Extensions /\ b.identifier \in Sources
          /\ b.scope \in Scopes /\ b.file \in Files
          /\ b.layout \in Layouts /\ b.order \in Orders /\ b.writable \in BOOLEAN
          /\ b.codec \in Codecs
    /\ Appointed \subseteq Extensions \X Policies
    /\ Offered \subseteq [extension : Extensions, pack : Packs]
    /\ Attaching \subseteq [space : Spaces, extension : Extensions, pack : Packs, order : Orders]
    /\ Before \subseteq Attaching
    /\ \A x, y \in Before :
          x.space = y.space /\ x.extension = y.extension /\ x.pack = y.pack => x = y
    /\ Uses \subseteq [extension : Extensions, space : Spaces, target : Targets,
                      scope : Scopes \cup {None}]

VARIABLES
    registered,   \* repositories
    parent,       \* the authority that contains an authority, or None
    generated,    \* the repositories for which a space has a generated worktree
    temporary,    \* spaces that still are temporary
    packs,        \* defined packs
    attachments,  \* of packs to spaces
    sources,      \* the configuration sources
    roots,        \* the root policy of each extension
    generation,   \* configuration_generation
    binding,      \* the source each client is about to record
    bound         \* the extension each client has bound

topology == <<registered, parent, generated>>

records == <<packs, attachments, sources, roots, generation>>

vars == <<topology, temporary, records, binding, bound>>

-----------------------------------------------------------------------------
(* Locating a document: bind_configuration_source of configuration.py.     *)

\* The depths at which a file lies in one of the repositories `there`.
Containing(f, there) == {i \in DOMAIN Around[f] : Around[f][i] \in there}

Under(f, there) ==
    LET depths == Containing(f, there)
    IN  [repository |-> IF depths = {} THEN None ELSE Around[f][Max(depths)], file |-> f]

\* The deepest registered repository around a file has it.
Locate(f) == Under(f, registered)

-----------------------------------------------------------------------------
(* Precedence: plan_configuration_sources.                                 *)

\* Mutant: the authority itself first.
Lineage_Reversed(a) ==
    LET chain[x \in Authorities] ==
          IF parent[x] = None THEN <<x>> ELSE <<x>> \o chain[parent[x]]
    IN  chain[a]

\* The authorities that contain a, outermost first, and a.
Lineage(a) ==
    LET chain[x \in Authorities] ==
          IF parent[x] = None THEN <<x>> ELSE Append(chain[parent[x]], x)
    IN  chain[a]

\* The chain of authorities that a target's plan goes through.
AuthorityChain(t) == IF t.kind = "repository" THEN <<>> ELSE Lineage(t.of)

Ancestry(a) == {Lineage(a)[i] : i \in DOMAIN Lineage(a)}

TargetRepository(t) == IF t.kind = "repository" THEN t.of ELSE Host[t.of]

Applicable(s, t) == TargetRepository(t) \in registered \cap Associated[s]

\* Records by their order, and by name where that is the same.
Sorted(S, name) ==
    CHOOSE s \in SetToSeqs(S) : \A i, j \in DOMAIN s : i < j =>
        \/ s[i].order < s[j].order
        \/ s[i].order = s[j].order /\ name[s[i]] < name[s[j]]

PackSequence(attached) == Sorted(attached, [x \in attached |-> x.pack])

SourceSequence(here) == Sorted(here, [x \in here |-> x.identifier])

\* The packs of an extension that a space has attached.
Attached(e, s) == PackSequence({x \in attachments : x.extension = e /\ x.space = s})

InScope(e, scope) == SourceSequence({x \in sources : x.extension = e /\ x.scope = scope})

\* Every scope that a target is in, the least specific first.
ScopesOf(e, s, t) ==
    LET attached == Attached(e, s)
        chain == AuthorityChain(t)
    IN  <<Machine>>
          \o [i \in DOMAIN attached |-> [kind |-> "pack", of |-> attached[i].pack]]
          \o <<[kind |-> "space", of |-> s], [kind |-> "repository", of |-> TargetRepository(t)]>>
          \o [i \in DOMAIN chain |-> [kind |-> "authority", of |-> chain[i]]]

\* The checkout of its repository in which a space reads a source.
Checkout(s, x) == IF x.location.repository \in generated[s] THEN "generated" ELSE "source"

\* The sources of every scope in turn, each with the checkout it is read in.
Plan(e, s, t) ==
    LET scopes == ScopesOf(e, s, t)
        planned == FlattenSeq([i \in DOMAIN scopes |-> InScope(e, scopes[i])])
    IN  [i \in DOMAIN planned |-> [source |-> planned[i], checkout |-> Checkout(s, planned[i])]]

-----------------------------------------------------------------------------
(* Types.                                                                  *)

SourceRecords == [extension : Extensions, identifier : Sources, scope : Scopes,
                  location : Locations, codec : Codecs, layout : Layouts,
                  writable : BOOLEAN, order : Orders, revision : Nat]

TypeOK ==
    /\ registered \subseteq Repositories
    /\ parent \in [Authorities -> Authorities \cup {None}]
    /\ generated \in [Spaces -> SUBSET Repositories]
    /\ temporary \subseteq Spaces
    /\ packs \subseteq [extension : Extensions, pack : Packs]
    /\ attachments \subseteq Attaching
    /\ sources \subseteq SourceRecords
    /\ roots \in [Extensions -> Policies]
    /\ generation \in 0 .. MaxGeneration
    /\ \A c \in Clients : binding[c] \notin {None, Stale} =>
          binding[c].request \in Bindings /\ binding[c].location \in Locations
    /\ \A c \in Clients : bound[c] # None => bound[c].generation \in 0 .. generation

-----------------------------------------------------------------------------
(* Commits.                                                                *)

\* Mutant: a commit leaves the generation that a caller observed.
Outdate_Never == UNCHANGED binding

\* A commit makes every observed state generation pass.
Outdate ==
    binding' = [c \in Clients |-> IF binding[c] = None THEN None ELSE Stale]

\* A change of a record counts; an operation that repeats what is there does not.
Count(change) ==
    IF change
    THEN generation < MaxGeneration /\ generation' = generation + 1
    ELSE UNCHANGED generation

\* register_repository.
RegisterRepository(r) ==
    /\ r \notin registered
    /\ registered' = registered \cup {r}
    /\ Outdate
    /\ UNCHANGED <<parent, generated, temporary, records, bound>>

\* relate_parent: an authority has one parent and contains none that contain
\* it.  The graph generation advances, configuration_generation does not.
RelateParent(child, above) ==
    /\ parent[child] \in {None, above}
    /\ child \notin Ancestry(above)
    /\ parent' = [parent EXCEPT ![child] = above]
    /\ Outdate
    /\ UNCHANGED <<registered, generated, temporary, records, bound>>

\* A preparation publishes a durable space with generated members.
Prepare(s) ==
    /\ generated[s] = {}
    /\ registered \cap Associated[s] # {}
    /\ generated' = [generated EXCEPT ![s] = registered \cap Associated[s]]
    /\ temporary' = temporary \ {s}
    /\ Outdate
    /\ UNCHANGED <<registered, parent, records, bound>>

SetRoots(e, policy) ==
    /\ Count(roots[e] # policy)
    /\ roots' = [roots EXCEPT ![e] = policy]
    /\ Outdate
    /\ UNCHANGED <<topology, temporary, packs, attachments, sources, bound>>

DefinePack(e, p) ==
    /\ Count([extension |-> e, pack |-> p] \notin packs)
    /\ packs' = packs \cup {[extension |-> e, pack |-> p]}
    /\ Outdate
    /\ UNCHANGED <<topology, temporary, attachments, sources, roots, bound>>

AttachmentsOf(s, e, p) ==
    {x \in attachments : x.space = s /\ x.extension = e /\ x.pack = p}

\* Mutant: another order of an attachment is no change.
Reattached_OrderIgnored(s, e, p, o) == AttachmentsOf(s, e, p) # {}

\* The attachment is there already, with this order.
Reattached(s, e, p, o) ==
    [space |-> s, extension |-> e, pack |-> p, order |-> o] \in attachments

\* The space becomes durable even when nothing changes.
Attach(s, e, p, o) ==
    /\ [extension |-> e, pack |-> p] \in packs
    /\ Count(~Reattached(s, e, p, o))
    /\ attachments' = (attachments \ AttachmentsOf(s, e, p))
                        \cup {[space |-> s, extension |-> e, pack |-> p, order |-> o]}
    /\ temporary' = temporary \ {s}
    /\ Outdate
    /\ UNCHANGED <<topology, packs, sources, roots, bound>>

Detach(s, e, p) ==
    /\ Count(AttachmentsOf(s, e, p) # {})
    /\ attachments' = attachments \ AttachmentsOf(s, e, p)
    /\ Outdate
    /\ UNCHANGED <<topology, temporary, packs, sources, roots, bound>>

SourcesOf(e, i) == {x \in sources : x.extension = e /\ x.identifier = i}

RemoveSource(e, i) ==
    /\ Count(SourcesOf(e, i) # {})
    /\ sources' = sources \ SourcesOf(e, i)
    /\ Outdate
    /\ UNCHANGED <<topology, temporary, packs, attachments, roots, bound>>

-----------------------------------------------------------------------------
(* bind_configuration_source of lifecycle.py.                              *)

\* The host's document is located by the repositories observed, decoded and
\* validated, all before the commit.
BeginBind(c, request) ==
    /\ binding[c] = None
    /\ binding' = [binding EXCEPT ![c] =
          [request |-> request, location |-> Locate(request.file)]]
    /\ UNCHANGED <<topology, temporary, records, bound>>

\* The record a client's request amounts to.
Recorded(c) ==
    LET request == binding[c].request
        existing == SourcesOf(request.extension, request.identifier)
    IN  [extension  |-> request.extension,
         identifier |-> request.identifier,
         scope      |-> request.scope,
         location   |-> binding[c].location,
         codec      |-> request.codec,
         layout     |-> request.layout,
         writable   |-> request.writable,
         order      |-> request.order,
         revision   |-> IF existing = {} THEN 0
                        ELSE (CHOOSE x \in existing : TRUE).revision + 1]

\* Binding a source as it is recorded already changes nothing.
Repeats(c) ==
    \E x \in sources : x = [Recorded(c) EXCEPT !.revision = x.revision]

\* Mutant: only the sources of the extension are looked at.
Admissible_Namespace(record, others) ==
    \A x \in {y \in others : y.extension = record.extension} :
        x.location = record.location =>
            "dedicated" \notin {x.layout, record.layout} /\ x.codec = record.codec

\* validate_state: the scope is there, a dedicated document has one source,
\* and a shared one has one codec.
Admissible(record, others) ==
    /\ record.scope.kind = "pack" =>
          [extension |-> record.extension, pack |-> record.scope.of] \in packs
    /\ record.scope.kind = "repository" => record.scope.of \in registered
    /\ \A x \in others :
          x.location = record.location =>
              "dedicated" \notin {x.layout, record.layout} /\ x.codec = record.codec

\* Mutant: a source of its own leaves a space temporary.
Promoted_Never(scope) == {}

Promoted(scope) == IF scope.kind = "space" THEN {scope.of} ELSE {}

CommitBind(c) ==
    /\ binding[c] \notin {None, Stale}
    /\ LET record == Recorded(c)
           others == sources \ SourcesOf(record.extension, record.identifier)
       IN  /\ Repeats(c) \/ Admissible(record, others)
           /\ Count(~Repeats(c))
           /\ sources' = IF Repeats(c) THEN sources ELSE others \cup {record}
           /\ temporary' = temporary \ Promoted(record.scope)
    /\ binding' = [d \in Clients |-> IF d = c \/ binding[d] = None THEN None ELSE Stale]
    /\ UNCHANGED <<topology, packs, attachments, roots, bound>>

\* The state has moved on, or validate_state refuses the record.
RefuseBind(c) ==
    /\ binding[c] # None
    /\ binding[c] # Stale =>
          LET record == Recorded(c)
          IN  /\ ~Repeats(c)
              /\ ~Admissible(record, sources \ SourcesOf(record.extension, record.identifier))
    /\ binding' = [binding EXCEPT ![c] = None]
    /\ UNCHANGED <<topology, temporary, records, bound>>

-----------------------------------------------------------------------------
(* bind_extension.                                                         *)

\* A scope selects a source to write if it has exactly one writable source.
WritableIn(plan, scope) ==
    {i \in DOMAIN plan : plan[i].source.writable /\ plan[i].source.scope = scope}

\* resolve_extension_roots: an appointed directory, else the extension's own
\* under the product root, else the one under the state root.
Root(e) ==
    IF roots[e].explicit # None THEN [under |-> roots[e].explicit, extension |-> None]
    ELSE [under |-> roots[e].product, extension |-> e]

\* The plan, the root and the generation are the program's; the checkouts and
\* the chain are kept to say what the generation does not tell.
Handle(e, s, t) ==
    [extension |-> e, space |-> s, target |-> t, plan |-> Plan(e, s, t),
     root |-> Root(e), generation |-> generation,
     checkouts |-> generated[s], chain |-> AuthorityChain(t)]

BindExtension(c, use) ==
    /\ Applicable(use.space, use.target)
    /\ LET plan == Plan(use.extension, use.space, use.target)
       IN  use.scope # None => Cardinality(WritableIn(plan, use.scope)) = 1
    /\ bound' = [bound EXCEPT ![c] = Handle(use.extension, use.space, use.target)]
    /\ UNCHANGED <<topology, temporary, records, binding>>

-----------------------------------------------------------------------------

Init ==
    /\ registered = {Host[a] : a \in Authorities}
    /\ parent = [a \in Authorities |-> None]
    /\ generated = [s \in Spaces |-> {}]
    /\ temporary = Spaces \ {x.space : x \in Before}
    /\ packs = {[extension |-> x.extension, pack |-> x.pack] : x \in Before}
    /\ attachments = Before
    /\ sources = {}
    /\ roots = [e \in Extensions |-> NoPolicy]
    /\ generation = 0
    /\ binding = [c \in Clients |-> None]
    /\ bound = [c \in Clients |-> None]

Administer ==
    \/ \E r \in Repositories : RegisterRepository(r)
    \/ \E child, above \in Authorities : RelateParent(child, above)
    \/ \E s \in Spaces : Prepare(s)
    \/ \E appointed \in Appointed : SetRoots(appointed[1], appointed[2])
    \/ \E x \in Offered : DefinePack(x.extension, x.pack)
    \/ \E x \in Attaching :
          \/ Attach(x.space, x.extension, x.pack, x.order)
          \/ Detach(x.space, x.extension, x.pack)
    \/ \E e \in Extensions, i \in Sources : RemoveSource(e, i)

Next ==
    \/ Administer
    \/ \E c \in Clients :
          \/ \E request \in Bindings : BeginBind(c, request)
          \/ CommitBind(c)
          \/ RefuseBind(c)
          \/ \E use \in Uses : BindExtension(c, use)

Spec == Init /\ [][Next]_vars

-----------------------------------------------------------------------------
(* Safety.                                                                 *)

\* Level of a scope in the order of precedence, by what the scopes mean.
Level(scope) ==
    CASE scope.kind = "machine" -> 0
      [] scope.kind = "pack" -> 1
      [] scope.kind = "space" -> 2
      [] scope.kind = "repository" -> 3
      [] scope.kind = "authority" -> 4

Above(a) == Ancestry(a) \ {a}

PackOrder(e, s, p) == (CHOOSE x \in AttachmentsOf(s, e, p) : TRUE).order

\* Source x has the say over source y.
Overrides(s, x, y) ==
    \/ Level(x.scope) > Level(y.scope)
    \/ x.scope.kind = "authority" /\ y.scope.kind = "authority" /\ y.scope.of \in Above(x.scope.of)
    \/ /\ x.scope.kind = "pack" /\ y.scope.kind = "pack"
       /\ LET i == PackOrder(x.extension, s, x.scope.of)
              j == PackOrder(x.extension, s, y.scope.of)
          IN  i > j \/ (i = j /\ x.scope.of > y.scope.of)
    \/ /\ x.scope = y.scope
       /\ x.order > y.order \/ (x.order = y.order /\ x.identifier > y.identifier)

\* The source's scope takes in the target.
Reaches(s, t, x) ==
    \/ x.scope = Machine
    \/ x.scope.kind = "pack" /\ AttachmentsOf(s, x.extension, x.scope.of) # {}
    \/ x.scope = [kind |-> "space", of |-> s]
    \/ x.scope = [kind |-> "repository", of |-> TargetRepository(t)]
    \/ t.kind = "authority" /\ x.scope.kind = "authority" /\ x.scope.of \in Above(t.of) \cup {t.of}

\* The plan of an extension for a target has every source that reaches the
\* target once, each before all that override it: a nearer authority over the
\* ones that contain it, those over the repository, the space, its packs in
\* their order, and the machine.
PlanFollowsScopes ==
    \A e \in Extensions, s \in Spaces : \A t \in {u \in Targets : Applicable(s, u)} :
        LET plan == Plan(e, s, t)
        IN  /\ {plan[i].source : i \in DOMAIN plan}
                 = {x \in sources : x.extension = e /\ Reaches(s, t, x)}
            /\ \A i, j \in DOMAIN plan :
                  i < j => Overrides(s, plan[j].source, plan[i].source)

\* A bound extension that sees the configuration generation it was bound at
\* has the plan and the root that binding it again would give, as long as its
\* space has the checkouts and its target the chain of authorities they had:
\* no other commit, of records or of topology, changes a plan in silence.
GenerationTellsPlan ==
    \A c \in Clients :
        LET b == bound[c]
        IN  /\ b # None
            /\ b.generation = generation
            /\ b.checkouts = generated[b.space]
            /\ b.chain = AuthorityChain(b.target)
            => /\ b.plan = Plan(b.extension, b.space, b.target)
               /\ b.root = Root(b.extension)

\* A source is recorded under the deepest repository that is registered when
\* it is recorded, however long its caller took to read and validate it.
RecordedWhereItIs ==
    [][\A x \in sources' \ sources : x.location = Locate(x.location.file)]_vars

\* Two sources of one document, of the same or of two extensions, are both
\* shared and decode it alike, unless a repository was registered around it
\* after one of the two was recorded.
DocumentsAgree ==
    \A x, y \in sources :
        /\ x # y
        /\ x.location.file = y.location.file
        /\ x.location = Locate(x.location.file)
        /\ y.location = Locate(y.location.file)
        => "dedicated" \notin {x.layout, y.layout} /\ x.codec = y.codec

\* A space that may be thrown away or given to another session has neither
\* attachments nor sources of its own: the two commits that give it one, and
\* the one that repeats an attachment, make it durable.
TemporaryIsUnconfigured ==
    \A s \in temporary :
        /\ \A x \in attachments : x.space # s
        /\ \A x \in sources : x.scope # [kind |-> "space", of |-> s]
=============================================================================
