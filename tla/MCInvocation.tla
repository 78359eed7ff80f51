---------------------------- MODULE MCInvocation ----------------------------
(* Instances of Invocation for TLC: two callers, two connections, one secret. *)
EXTENDS Invocation

URL(path) == [normal |-> TRUE, origin |-> "o1", path |-> path, query |-> "q"]

Elsewhere == [normal |-> TRUE, origin |-> "o2", path |-> <<"p">>, query |-> "q"]

Text(v) == [kind |-> "text", text |-> v]

Link(u, v) == [kind |-> "url", text |-> v, url |-> u]

Hole == [kind |-> "hole", text |-> "placeholder", secret |-> "s1"]

Doc(f) == [form |-> "ok", gaps |-> FALSE, at |-> f]

Leaf(p, v) == p :> v

MCDocuments == {
    Doc(Leaf(<<"a">>, Text("x"))),
    Doc(Leaf(<<"a">>, Hole)),
    Doc(Leaf(<<"n", "c">>, Text("x")) @@ Leaf(<<"n", "d">>, Text("z"))),
    [Doc(Leaf(<<"u">>, Link(URL(<<"p", "k">>), "l1"))) EXCEPT !.gaps = TRUE],
    [Doc(Leaf(<<"a">>, Text("x"))) EXCEPT !.form = "dup"]}

Rule(p, admits, target) ==
    [pointer |-> p, required |-> FALSE, admits |-> admits, target |-> target]

Target(id, redirect) ==
    [id |-> id, origins |-> {"o1"}, paths |-> {<<"p">>}, query |-> "q", redirect |-> redirect]

Resource(arg, shared) ==
    [namespace |-> "ns", argument |-> arg, value |-> IF arg = <<>> THEN "v" ELSE "", shared |-> shared]

Grant == [id |-> "g1", strict |-> TRUE, qualified |-> TRUE, connection |-> "n1", principal |-> "a",
          tool |-> "r", effect |-> "read", expires |-> 1, maxRequests |-> 1, maxBytes |-> 4,
          maxResponse |-> 2, arguments |-> {Rule(<<"a">>, {"x", "placeholder"}, NoTarget),
                                           Rule(<<"n", "c">>, {"x"}, NoTarget),
                                           Rule(<<"u">>, {}, "t")},
          targets |-> {Target("t", FALSE), Target("offload", FALSE)}, resources |-> {},
          allowShared |-> TRUE, highAssurance |-> TRUE]

WriteGrant(shared) ==
    [Grant EXCEPT !.id = "g2", !.tool = "w", !.effect = "write", !.expires = 2,
                  !.arguments = {}, !.resources = {Resource(<<"a">>, shared)},
                  !.highAssurance = FALSE]

MCGrantLists == {
    {}, {Grant, WriteGrant(TRUE)}, {WriteGrant(FALSE)},
    {Grant, [Grant EXCEPT !.id = "g3", !.expires = 2]},
    {[Grant EXCEPT !.connection = "n2", !.principal = "b"]},
    {[Grant EXCEPT !.arguments = {}]},
    {[Grant EXCEPT !.maxResponse = 4]},
    {[Grant EXCEPT !.strict = FALSE]},
    {[Grant EXCEPT !.targets = {Target("t", FALSE), [Target("offload", FALSE) EXCEPT !.origins = {"o1", "10.0.0.1"}]}]}}

Record == [owner |-> Shared, enabled |-> TRUE, revoked |-> FALSE, readOnly |-> FALSE,
           template |-> "", label |-> "", tools |-> [r |-> "read", w |-> "write"],
           grants |-> {}, delegated |-> FALSE, full |-> FALSE]

Twin(label) == [Record EXCEPT !.owner = "a", !.template = "t", !.label = label]

Start(high, r1, r2) == [assured |-> high, conns |-> [n1 |-> r1, n2 |-> r2]]

MCStarts == {
    Start(FALSE, Twin(""), Twin("prod")),
    Start(FALSE, [Record EXCEPT !.owner = "b"], [Record EXCEPT !.delegated = TRUE]),
    Start(FALSE, [Record EXCEPT !.grants = {Grant, WriteGrant(TRUE)}], [Record EXCEPT !.enabled = FALSE]),
    Start(FALSE, [Record EXCEPT !.owner = "a", !.grants = {WriteGrant(FALSE)}], [Record EXCEPT !.readOnly = TRUE]),
    Start(TRUE, [Record EXCEPT !.owner = "a", !.grants = {Grant, WriteGrant(FALSE)}], Absent)}

MCRegistrations == {Record}

MCClasses == {[r |-> "read", w |-> "write"], [r |-> "claimed", w |-> "claimed"], [w |-> "write"]}

Response(kind, wire, size, link, truncated) ==
    [kind |-> kind, wire |-> wire, size |-> size, secrets |-> Secrets, link |-> link,
     fetched |-> TRUE, truncated |-> truncated]

MCResponses == {
    Response("data", 1, 1, <<>>, FALSE), Response("data", 2, 3, <<>>, FALSE),
    Response("data", 3, 3, <<>>, FALSE), Response("data", 1, 1, <<>>, TRUE),
    Response("data", 1, 1, <<URL(<<"p">>)>>, FALSE), Response("data", 1, 1, <<URL(<<"p">>), Elsewhere>>, FALSE),
    Response("error", 1, 1, <<>>, FALSE), Response("fail", 0, 0, <<>>, FALSE),
    Response("malformed", 1, 1, <<>>, FALSE)}

(* The second call is a plain one of tool r, with one argument: it meets the *)
(* placeholders and the executions that the first one left, and only a read  *)
(* meets both.                                                               *)
PlainSecondCall ==
    made = MaxCalls /\ Active =>
        /\ call.fused = "none" /\ ~call.program.on /\ call.tool = "r"
        /\ call.doc.form = "ok" /\ <<"a">> \in DOMAIN call.doc.at
=============================================================================
