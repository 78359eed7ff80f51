--------------------------- MODULE AudienceRules ---------------------------
(***************************************************************************)
(* The operator's audience rules of internal/auth/ssoaudience.go: a file   *)
(* that every sign-in reads and that the admin API (internal/mcp/          *)
(* ssoaudience.go) and the sso-audience command edit.  Each of them binds  *)
(* its own AudienceRules to the file, with a mutex of its own, so an edit  *)
(* is a read and, later, a write.                                          *)
(*                                                                         *)
(* A rule is a [kind, value] record, in the spelling the operator used     *)
(* until it is loaded or stored.                                           *)
(***************************************************************************)
EXTENDS Integers, FiniteSets

CONSTANTS
    Specs,          \* the rules operators write
    Lower(_),       \* strings.ToLower
    Malformed,      \* rules with no value, one too long, or an incomplete address
    Editors,        \* edits in progress at a time
    MaxRules,       \* maxAudienceRules, 512
    MaxEdits,       \* bound on edits
    MaxDamage       \* bound on how often the file is damaged

ASSUME AudienceAssumption ==
    /\ \A r \in Specs : /\ r = [kind |-> r.kind, value |-> r.value]
                        /\ Lower(Lower(r.value)) = Lower(r.value)
                        /\ r \notin Malformed => [r EXCEPT !.value = Lower(@)] \notin Malformed
    /\ IsFiniteSet(Editors) /\ MaxRules \in Nat /\ MaxEdits \in Nat /\ MaxDamage \in Nat

VARIABLES
    rules,      \* sso-audience.json; an absent file is an empty set
    edit,       \* each edit: what it does, and the rules it read
    declared,   \* the rules the acknowledged edits amount to
    edits, damages

ruleVars == <<rules, edit, declared, edits, damages>>

NoEdit == [doing |-> "none", rule |-> CHOOSE r \in Specs : TRUE, read |-> {}]

-----------------------------------------------------------------------------
(* Rules and their file *)

(* A rule of another kind, or whose value could match nothing, is refused; *)
(* groups and addresses are kept in lower case, a subject as it is.        *)
Usable(spec) == spec.kind \in {"group", "email", "subject"} /\ spec \notin Malformed
normalizeAudienceRule(spec) ==
    IF spec.kind = "subject" THEN spec ELSE [spec EXCEPT !.value = Lower(@)]

(* The rules in the file, without what cannot be used. *)
loadLocked == {normalizeAudienceRule(r) : r \in {r \in rules.set : Usable(r)}}

RulesInit ==
    /\ rules \in [readable : {TRUE},
                 set : {s \in SUBSET Specs : IsFiniteSet(s) /\ Cardinality(s) <= MaxRules}]
    /\ declared = loadLocked
    /\ edit = [e \in Editors |-> NoEdit]

(* matches: id.email is "" unless the provider marked the address verified. *)
matches(rule, id) ==
    \/ rule.kind = "subject" /\ id.subject = rule.value
    \/ rule.kind = "email" /\ id.email # "" /\ Lower(id.email) = rule.value
    \/ rule.kind = "group" /\ \E g \in id.groups : Lower(g) = rule.value

(* Match: a file that cannot be read is an error, not an empty set.        *)
Match(id) ==
    [err |-> ~rules.readable, count |-> Cardinality(loadLocked),
     matched |-> \E r \in loadLocked : matches(r, id)]

(* Summary().Total(): an unreadable file counts as no rules.            *)
RuleTotal == IF rules.readable THEN Cardinality(loadLocked) ELSE 0

-----------------------------------------------------------------------------
(* An edit loads the rules under the editor's own mutex; a file that       *)
(* cannot be read fails it.                                                *)
BeginEdit(e, doing, r) ==
    /\ edit[e].doing = "none" /\ rules.readable /\ edits < MaxEdits
    /\ edit' = [edit EXCEPT ![e] = [doing |-> doing, rule |-> r, read |-> loadLocked]]
    /\ edits' = edits + 1
    /\ UNCHANGED <<rules, declared, damages>>

Add(e, spec) ==
    LET r == normalizeAudienceRule(spec) IN
    /\ Usable(spec)
    /\ r \in loadLocked \/ Cardinality(loadLocked) < MaxRules
    /\ BeginEdit(e, "add", r)

Remove(e, spec) ==
    LET r == normalizeAudienceRule(spec) IN
    /\ Usable(spec) /\ r \in loadLocked
    /\ BeginEdit(e, "remove", r)

(* writeLocked: a new file renamed over the old one, whatever that has     *)
(* become since.                                                           *)
Kept(e) == IF edit[e].doing = "add" THEN edit[e].read \cup {edit[e].rule}
           ELSE edit[e].read \ {edit[e].rule}
Wanted(e) == IF edit[e].doing = "add" THEN declared \cup {edit[e].rule}
             ELSE declared \ {edit[e].rule}
writeLocked(e) ==
    /\ edit[e].doing # "none"
    /\ rules' = [readable |-> TRUE, set |-> Kept(e)] /\ declared' = Wanted(e)
    /\ edit' = [edit EXCEPT ![e] = NoEdit]
    /\ UNCHANGED <<edits, damages>>

(* The write fails: the old file stays.  (A failure to sync the directory  *)
(* comes after the rename, and is as good as a write here.)                *)
WriteFails(e) ==
    /\ edit[e].doing # "none" /\ edit' = [edit EXCEPT ![e] = NoEdit]
    /\ UNCHANGED <<rules, declared, edits, damages>>

(* Environment: a hand edit leaves a document that does not parse, and the *)
(* operator puts it right.                                                 *)
Damage ==
    /\ rules.readable /\ damages < MaxDamage
    /\ rules' = [rules EXCEPT !.readable = FALSE] /\ damages' = damages + 1
    /\ UNCHANGED <<edit, declared, edits>>
Repair ==
    /\ ~rules.readable /\ rules' = [rules EXCEPT !.readable = TRUE]
    /\ UNCHANGED <<edit, declared, edits, damages>>

(* What goes on without the gateway: the command line, and the file.       *)
runSSOAudienceAllow(e, spec) == Add(e, spec)
runSSOAudienceRemove(e, spec) == Remove(e, spec)

EditStep ==
    \/ \E e \in Editors : \/ \E spec \in Specs : \/ runSSOAudienceAllow(e, spec)
                                                \/ runSSOAudienceRemove(e, spec)
                          \/ writeLocked(e)
                          \/ WriteFails(e)
    \/ Damage
    \/ Repair

-----------------------------------------------------------------------------
(* What is declared is what the file says, if edits are made one at a time.*)

AsKept(r) == Usable(r) /\ normalizeAudienceRule(r) = r

RulesOK ==
    /\ DOMAIN rules = {"readable", "set"}
    /\ declared = loadLocked /\ IsFiniteSet(declared) /\ \A r \in declared : AsKept(r)
    /\ edit = [e \in Editors |-> edit[e]]
    /\ \A e \in Editors : edit[e].doing # "none" => edit[e].read = declared /\ AsKept(edit[e].rule)
=============================================================================
