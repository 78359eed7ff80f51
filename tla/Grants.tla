------------------------------- MODULE Grants -------------------------------
(* Operation grants: the authority an operator writes beside a connection,   *)
(* and what a call's arguments must satisfy under it (internal/mcp/grant.go). *)
(*                                                                           *)
(* An argument document is the function from the JSON pointers of its leaves *)
(* to the leaves, a pointer being a sequence of tokens.  A leaf is a scalar, *)
(* a URL, null, or an empty container.  A rule's allowlist, pattern and byte *)
(* bound are one set of admitted texts.                                      *)
EXTENDS Integers, Sequences, FiniteSets, SequencesExt

CONSTANTS
    Indexes,        \* the pointer tokens that are array indexes
    BadOrigins,     \* texts that are not the https origin of an external DNS name
    MaxGrantBytes   \* maxGrantBytes, the ceiling of a byte budget

NoTarget == "no target"

NoResourceArgument == <<>>

(* validateGrantedURL: an absolute https URL in normal form, whose origin,   *)
(* path segments and exact query the operator listed.                        *)
ValidateGrantedURL(u, target) ==
    /\ u.normal
    /\ u.origin \in target.origins
    /\ target.paths # {} => \E p \in target.paths : IsPrefix(p, u.path)
    /\ u.query = target.query

(* findURLTarget *)
FindURLTarget(targets, id) == {t \in targets : t.id = id}

(* fetchOffload under a grant: the link and every redirect hop must be       *)
(* granted, and a hop leaves the first origin only if the target says so.    *)
OffloadGranted(g, chain) ==
    \E t \in FindURLTarget(g.targets, "offload") :
        \A i \in 1..Len(chain) :
            /\ ValidateGrantedURL(chain[i], t)
            /\ t.redirect \/ chain[i].origin = chain[1].origin

-----------------------------------------------------------------------------
(* validateOperationGrant. *)

(* rejectDuplicateJSONKeys and decodeStrictGrantJSON: a closed document, no  *)
(* key in it twice, none unknown, and nothing after it.                      *)
DecodeStrictGrantJSON(g) == g.strict

(* parseGrantOrigin and validateGrantHostname: no literal address, no local  *)
(* name, no path.                                                            *)
ParseGrantOrigin(origin) == origin \notin BadOrigins

BudgetValid(g) ==
    /\ g.maxRequests > 0 /\ g.maxBytes > 0 /\ g.maxResponse > 0
    /\ g.maxBytes <= MaxGrantBytes
    /\ g.maxResponse < g.maxBytes

ArgumentsValid(g) ==
    /\ \A r \in g.arguments : r.pointer # <<>> /\ (r.admits # {} \/ r.target # NoTarget)
    /\ \A r, q \in g.arguments : r.pointer = q.pointer => r = q
    /\ \A r \in g.arguments : r.target # NoTarget => FindURLTarget(g.targets, r.target) # {}

TargetsValid(g) ==
    /\ \A t \in g.targets : t.origins # {} /\ \A o \in t.origins : ParseGrantOrigin(o)
    /\ \A t, s \in g.targets : t.id = s.id => t = s

ResourcesValid(g) ==
    /\ \A r \in g.resources : (r.argument = NoResourceArgument) # (r.value = "")
    /\ \A r, q \in g.resources : r.namespace = q.namespace => r = q

ValidateOperationGrant(g, connection) ==
    /\ DecodeStrictGrantJSON(g)
    /\ g.connection = connection
    /\ g.effect \in {"read", "write"}
    /\ g.qualified
    /\ BudgetValid(g)
    /\ ArgumentsValid(g)
    /\ TargetsValid(g)
    /\ ResourcesValid(g)

-----------------------------------------------------------------------------
(* evaluateOperationGrant *)

Leaves(doc) == DOMAIN doc.at

Under(doc, pointer) == {l \in Leaves(doc) : IsPrefix(pointer, l)}

(* rejectUngovernedArguments: the walk stops at a granted pointer and fails  *)
(* on any scalar or null it reaches elsewhere.                               *)
Governed(doc, g) ==
    LET allowed == {r.pointer : r \in g.arguments}
                   \cup ({r.argument : r \in g.resources} \ {NoResourceArgument})
    IN  \A l \in Leaves(doc) :
            \/ doc.at[l].kind = "empty"
            \/ \E k \in 1..Len(l) : SubSeq(l, 1, k) \in allowed

(* scalarString *)
Scalar(leaf) == leaf.kind \in {"text", "url", "hole"}

(* flattenScalars: a scalar, or an array of scalars, else no value at all.   *)
FlattenScalars(doc, pointer) ==
    LET under == Under(doc, pointer)
        array == \A l \in under : Len(l) = Len(pointer) + 1 /\ Last(l) \in Indexes
    IN  IF /\ \A l \in under : Scalar(doc.at[l])
           /\ under = {pointer} \/ array
        THEN {doc.at[l] : l \in under}
        ELSE {}

(* validateArgumentValue *)
ValidateArgumentValue(doc, rule, targets) ==
    LET values == FlattenScalars(doc, rule.pointer)
    IN  /\ values # {}
        /\ \A v \in values :
              /\ rule.admits # {} => v.text \in rule.admits
              /\ rule.target = NoTarget => v.kind # "url"
              /\ rule.target # NoTarget =>
                    /\ v.kind = "url"
                    /\ \E t \in FindURLTarget(targets, rule.target) : ValidateGrantedURL(v.url, t)

(* The value of a resource: its own, or the scalar argument it names.        *)
ResourceHeld(doc, r) ==
    \/ r.argument = NoResourceArgument
    \/ r.argument \in Leaves(doc) /\ Scalar(doc.at[r.argument]) /\ doc.at[r.argument].text # ""

ResourceValue(doc, r) ==
    IF r.argument = NoResourceArgument THEN r.value ELSE doc.at[r.argument].text

(* opaqueResourceID: the hash of the owner, kind, namespace and value, the   *)
(* owner being the same for every principal when the resource is shared.     *)
OpaqueResourceID(g, doc, r) ==
    <<IF r.shared THEN "shared-writable" ELSE g.principal, r.namespace, ResourceValue(doc, r)>>

EvaluateOperationGrant(g, caller, tool, doc, now) ==
    /\ caller = g.principal /\ tool = g.tool
    /\ now < g.expires
    /\ doc.form = "ok"
    /\ Governed(doc, g)
    /\ \A r \in g.arguments :
          IF Under(doc, r.pointer) = {}
          THEN ~r.required
          ELSE ValidateArgumentValue(doc, r, g.targets)
    /\ \A r \in g.resources : ResourceHeld(doc, r)
=============================================================================
