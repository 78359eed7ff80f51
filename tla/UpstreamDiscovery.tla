-------------------------- MODULE UpstreamDiscovery --------------------------
(***************************************************************************)
(* How the gateway finds out who authorizes access to an upstream:         *)
(* Probe of internal/gateway/client.go and DiscoverAS of internal/auth/    *)
(* oauthclient.go, as operators on what the network answers.               *)
(*                                                                         *)
(* An answer says whether the upstream was reached, whether it challenged, *)
(* whether the challenge named its metadata, what protected-resource       *)
(* metadata is at each location, and what each authorization server has at *)
(* its own.  A location is where the well-known segment was put in the     *)
(* URL; "named" is the one a challenge gives.                              *)
(***************************************************************************)
EXTENDS Sequences, SequencesExt

Absent == [servers |-> <<>>, resource |-> ""]

(* The segment is inserted after the host, or appended after the path if   *)
(* there is one.                                                           *)
WellKnownCandidates(hasPath) == IF hasPath THEN <<"inserted", "appended">> ELSE <<"inserted">>

(* Insertion before append, OAuth metadata before OpenID Connect's. *)
asMetadataURLs(hasPath) ==
    LET forms == WellKnownCandidates(hasPath)
        Both(form) == <<[doc |-> "oauth", form |-> form], [doc |-> "oidc", form |-> form]>>
    IN IF Len(forms) = 1 THEN Both(forms[1]) ELSE Both(forms[1]) \o Both(forms[2])

-----------------------------------------------------------------------------
(* Probe *)

resourceMetadataFromWWWAuth(answer) == IF answer.named THEN "named" ELSE ""

advertisesOAuth(answer, location) == answer.resources[location].servers # <<>>

(* Where the upstream's metadata is.  "": it can be used without OAuth.  A *)
(* challenge means OAuth even if the metadata is not found.                *)
Probe(answer) ==
    LET candidates == WellKnownCandidates(answer.hasPath)
        found == SelectSeq(candidates, LAMBDA location : advertisesOAuth(answer, location))
    IN IF answer.challenged /\ resourceMetadataFromWWWAuth(answer) # "" THEN "named"
       ELSE IF found # <<>> THEN found[1]
       ELSE IF answer.challenged THEN candidates[1]
       ELSE ""

-----------------------------------------------------------------------------
(* DiscoverAS *)

(* Issuers are compared as URLs: a trailing slash does not count. *)
sameIssuer(a, b) == a.url = b

(* The documents of server, at the locations in order, that have both      *)
(* endpoints and were written by that server.                              *)
Usable(answer, server) ==
    SelectSeq(asMetadataURLs(answer.hasPath),
              LAMBDA at : /\ answer.servers[server][at.doc, at.form].endpoints
                          /\ sameIssuer(answer.servers[server][at.doc, at.form].issuer, server))

discoverASMetadata(answer, server) ==
    answer.servers[server][Usable(answer, server)[1].doc, Usable(answer, server)[1].form]

ASFound(answer, location) ==
    /\ advertisesOAuth(answer, location)
    /\ Usable(answer, answer.resources[location].servers[1]) # <<>>

(* The first authorization server's metadata, with the resource indicator  *)
(* the upstream asks for.                                                  *)
DiscoverAS(answer, location) ==
    LET metadata == answer.resources[location] IN
    [registration |-> discoverASMetadata(answer, metadata.servers[1]).registration,
     resource |-> metadata.resource]

-----------------------------------------------------------------------------
(* A token is asked for the upstream's own origin, whatever the metadata   *)
(* says; one that names nothing gets the upstream's URL.                   *)
sameOrigin(resource, origin) == resource = origin
resourceAllowedForUpstream(resource, origin) == resource = "" \/ sameOrigin(resource, origin)
=============================================================================
