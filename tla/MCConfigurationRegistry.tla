---------------------- MODULE MCConfigurationRegistry -----------------------
EXTENDS ConfigurationRegistry

CONSTANTS e1, e2, space1, space2, mono, nested, outer, inner, nestedFile, looseFile, directory, c1

\* Repository nested lies inside mono, which has both authorities.
MCAssociated == [x \in {space1, space2} |-> IF x = space1 THEN {mono, nested} ELSE {}]
MCHost == [x \in {outer, inner} |-> mono]
MCAround == [x \in {nestedFile, looseFile} |-> IF x = nestedFile THEN <<mono, nested>> ELSE <<>>]

Ask(e, i, kind, of, file, layout, order) ==
    [extension |-> e, identifier |-> i, scope |-> [kind |-> kind, of |-> of],
     file |-> file, layout |-> layout, order |-> order, writable |-> order = 0,
     codec |-> IF of = outer THEN "yaml" ELSE "json"]

\* A source that moves between scopes, sources that share a scope or a
\* document, and a dedicated document that both extensions want.
MCBindings ==
    {Ask(e1, 1, "machine", None, looseFile, "shared", 0),
     Ask(e1, 1, "authority", inner, nestedFile, "dedicated", 0),
     Ask(e1, 1, "pack", 1, looseFile, "shared", 0),
     Ask(e1, 2, "pack", 2, looseFile, "shared", 0),
     Ask(e1, 2, "authority", outer, looseFile, "shared", 1),
     Ask(e2, 1, "space", space2, nestedFile, "dedicated", 0)}

MCAppointed == {<<e1, [explicit |-> directory, product |-> directory]>>}

MCOffered == {[extension |-> e1, pack |-> 1], [extension |-> e2, pack |-> 1]}

Attachment(x, i, o) == [space |-> x, extension |-> e1, pack |-> i, order |-> o]

MCBefore == {Attachment(space1, 1, 0), Attachment(space1, 2, 0)}

MCAttaching == MCBefore \cup {Attachment(space1, 1, 1), Attachment(space2, 1, 0)}

\* The inner authority's configuration, to read it and to write its own source.
MCUses == [extension : {e1}, space : {space1}, target : {[kind |-> "authority", of |-> inner]},
           scope : {None, [kind |-> "authority", of |-> inner]}]
=============================================================================
