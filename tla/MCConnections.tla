--------------------------- MODULE MCConnections ---------------------------
(* Instances of Connections and SelfService for TLC, in three scenes: the  *)
(* life of one connection under two handlers, and under one and a template *)
(* edit, with no other requests to connect; and requests to connect, with  *)
(* nothing else to do.  Handlers and requests are interchangeable; flows   *)
(* are not: the first creates the connection, the later ones reauthorize.  *)
EXTENDS Connections, SelfService, TLC

CONSTANTS read, write

Unreliable == {TRUE, FALSE}

(* A template, a narrower one elsewhere, and one with a default scope that *)
(* is not allowed.                                                         *)
Draft == [wellFormed |-> TRUE, disabled |-> FALSE, base |-> "here", allowed |-> {read, write},
          defaults |-> {read}, params |-> {"p"}, curated |-> {"p"}, max |-> 0, readOnly |-> FALSE]
MCDrafts == {Draft,
             [Draft EXCEPT !.base = "there", !.allowed = {read}, !.params = {},
                           !.readOnly = TRUE, !.max = 2],
             [Draft EXCEPT !.allowed = {}]}
MCAsked == {[scopes |-> {}, params |-> {}], [scopes |-> {write}, params |-> {"p"}],
            [scopes |-> {"bad"}, params |-> {}]}

(* Upstreams: one that challenges and names its metadata; one that only    *)
(* publishes it, with a server that registers no clients and answers at    *)
(* the last location; one whose metadata is for somewhere else; one whose  *)
(* server speaks for another; one without OAuth; and one out of reach.     *)
Locations == {"named", "inserted", "appended"}
Server(doc, form, issuer, registration) ==
    [d \in {"oauth", "oidc"}, f \in {"inserted", "appended"} |->
        [endpoints |-> d = doc /\ f = form, issuer |-> issuer, registration |-> registration]]
Upstream(location, challenged, resource, server) ==
    [reached |-> TRUE, challenged |-> challenged, named |-> location = "named", hasPath |-> TRUE,
     resources |-> [l \in Locations |-> IF l = location
                                        THEN [servers |-> <<"as">>, resource |-> resource]
                                        ELSE Absent],
     servers |-> [as |-> server]]
Itself(slash) == [url |-> "as", slash |-> slash]
MCAnswers ==
    LET open == Upstream("none", FALSE, "", Server("oauth", "inserted", Itself(FALSE), TRUE)) IN
    {Upstream("named", TRUE, "", Server("oauth", "inserted", Itself(TRUE), TRUE)),
     Upstream("appended", FALSE, "here", Server("oidc", "appended", Itself(FALSE), FALSE)),
     Upstream("named", TRUE, "elsewhere", Server("oauth", "inserted", Itself(FALSE), TRUE)),
     Upstream("named", TRUE, "", Server("oauth", "inserted", [url |-> "other", slash |-> FALSE], TRUE)),
     open, [open EXCEPT !.challenged = TRUE], [open EXCEPT !.reached = FALSE]}

MCInit ==
    \/ Opening("none", MaxEdits, 0, 0) /\ SelfInit(Draft, TRUE)
    \/ Opening("none", 0, 1, 0) /\ SelfInit(Draft, TRUE)
    \/ Opening("ended", MaxEdits, MaxRequests, MaxCrashes) /\ SelfInit(Draft, FALSE)

MCNext == (ConnectionNext /\ UNCHANGED selfVars) \/ (SelfNext /\ UNCHANGED connectionVars)

MCSpec == MCInit /\ [][MCNext]_<<connectionVars, selfVars>>

Symmetry == Permutations(Handlers) \cup Permutations(Starts)
=============================================================================
