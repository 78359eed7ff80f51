------------------------ MODULE ClientRegistration ------------------------
(***************************************************************************)
(* Dynamic client registration at the built-in authorization server        *)
(* (internal/auth/clientregistration.go, authclients.go and register of    *)
(* authserver.go): the table of clients, the file it survives a restart    *)
(* in, and the rate windows that bound how it grows.                       *)
(*                                                                         *)
(* A client id is random and never issued twice: it is a number here.      *)
(* What a request may get wrong in its metadata changes nothing, and is    *)
(* left out.                                                               *)
(***************************************************************************)
EXTENDS Integers, FiniteSets, FiniteSetsExt

CONSTANTS
    Sources,            \* network addresses, r.RemoteAddr without its port
    RegistrationModes,  \* subset of {"bounded", "off"}: what operators declare
    Issuers,            \* the gateway's own issuer URLs; a tunnel's may change
    PerSourcePerHour, PerHour, MaxClients, MaxTrackedSources, UnusedTTL,
    Hour,
    ClientWrites,       \* subset of {"ok", "failed", "torn"}: writes of the file
    MaxIds,             \* bound on client ids issued
    MaxTime             \* bound on the clock

ASSUME RegistrationAssumption ==
    /\ IsFiniteSet(Sources) /\ RegistrationModes \subseteq {"bounded", "off"}
    /\ {PerSourcePerHour, PerHour, MaxClients, MaxTrackedSources, UnusedTTL, Hour}
         \subseteq Nat \ {0}
    /\ ClientWrites \subseteq {"ok", "failed", "torn"} /\ "ok" \in ClientWrites
    /\ MaxIds \in Nat /\ MaxTime \in Nat

VARIABLES
    up,         \* is the gateway running?
    mode,       \* s.registrationMode
    issuer,     \* s.issuer
    rates,      \* s.registrationRates: [since, count, refused] of each tracked source
    clients,    \* s.clients, by id: [created, used]
    stored,     \* oauth-clients.json
    minted,     \* client ids issued so far
    completed,  \* the clients that completed a flow while they were registered
    now

clientVars == <<rates, clients, stored, completed>>

Ids == 1 .. MaxIds

NoEntries == [x \in {} |-> 0]

(* readable: does the file parse?  All its records carry the issuer the    *)
(* process had that wrote it.  current: it is the latest table.            *)
NoFile == [readable |-> FALSE, issuer |-> CHOOSE i \in Issuers : TRUE,
           clients |-> NoEntries, current |-> TRUE]

Without(f, gone) == [x \in DOMAIN f \ gone |-> f[x]]
With(f, x, v) == [y \in DOMAIN f \cup {x} |-> IF y = x THEN v ELSE f[y]]

RegistrationInit ==
    /\ mode = (CHOOSE m \in RegistrationModes : TRUE) /\ issuer = (CHOOSE i \in Issuers : TRUE)
    /\ rates = NoEntries /\ clients = NoEntries /\ stored = NoFile
    /\ completed = {} /\ now = 0

(* SetClientRegistration: a start declares the mode.  The limits, given or *)
(* by default, are the constants.                                          *)
SetClientRegistration(m) == mode' = m

-----------------------------------------------------------------------------
(* The client table and its file *)

(* persistClientsLocked, by a process whose issuer is i: best effort, and  *)
(* in place, so that a write that fails half way leaves a file that does   *)
(* not parse.                                                              *)
persistClientsLocked(table, i, how) ==
    CASE how = "ok" -> [readable |-> TRUE, issuer |-> i, clients |-> table, current |-> TRUE]
      [] how = "failed" -> [stored EXCEPT !.current = FALSE]
      [] how = "torn" -> [stored EXCEPT !.readable = FALSE, !.clients = NoEntries, !.current = FALSE]

(* A mutant: age alone decides.                                            *)
ExpiredAnyway(table) == {c \in DOMAIN table : now - table[c].created >= UnusedTTL}
Expired(table) ==
    {c \in DOMAIN table : ~table[c].used /\ now - table[c].created >= UnusedTTL}

(* expireUnusedClientsLocked: the table without the registrations that     *)
(* nobody came back for; the file is written only if there were any.       *)
expireUnusedClientsLocked(table) == Without(table, Expired(table))

(* markClientUsedLocked: a client that is gone, or was marked before, is   *)
(* left alone.                                                             *)
markClientUsedLocked(c, how) ==
    LET unmarked == c \in DOMAIN clients /\ ~clients[c].used IN
    /\ clients' = IF unmarked THEN [clients EXCEPT ![c].used = TRUE] ELSE clients
    /\ stored' = IF unmarked THEN persistClientsLocked(clients', issuer, how) ELSE stored
    /\ completed' = IF c \in DOMAIN clients THEN completed \cup {c} ELSE completed
    /\ UNCHANGED rates

(* What a crash leaves of this: the file.                                  *)
ForgetClients == clients' = NoEntries /\ rates' = NoEntries /\ UNCHANGED <<stored, completed>>

(* LoadClients, at a start under issuer i: a missing or damaged file is an *)
(* empty table, and another issuer's registrations are not taken over.     *)
Loaded(i) == IF stored.readable /\ stored.issuer = i THEN stored.clients ELSE NoEntries
LoadClients(i, how) ==
    LET table == expireUnusedClientsLocked(Loaded(i)) IN
    /\ clients' = table /\ rates' = NoEntries /\ issuer' = i
    /\ stored' = IF table = Loaded(i) THEN stored ELSE persistClientsLocked(table, i, how)
    /\ completed' = IF stored.readable /\ stored.issuer = i /\ stored.current
                    THEN completed ELSE {}

-----------------------------------------------------------------------------
(* Registration *)

(* The windows that still run: each belongs to one source and ends Hour    *)
(* after it began.                                                         *)
Running == Without(rates, {s \in DOMAIN rates : now - rates[s].since >= Hour})

(* total: what PerHour is compared with.                                   *)
TotalRate(windows) == MapThenSumSet(LAMBDA s : windows[s].count, DOMAIN windows)

WindowOf(s) ==
    IF s \in DOMAIN Running THEN Running[s] ELSE [since |-> now, count |-> 0, refused |-> FALSE]

(* admitRegistrationLocked: sweeps, then the four answers in their order.  *)
TableFull(s) == s \notin DOMAIN Running /\ Cardinality(DOMAIN Running) >= MaxTrackedSources
RateReached(s) == WindowOf(s).count >= PerSourcePerHour \/ TotalRate(Running) >= PerHour
Capacity == Cardinality(DOMAIN expireUnusedClientsLocked(clients)) >= MaxClients

admitRegistrationLocked(s) ==
    CASE TableFull(s) -> "untracked"
      [] ~TableFull(s) /\ (RateReached(s) \/ Capacity) -> "refused"
      [] OTHER -> "registered"

Recorded(s, outcome) ==
    CASE outcome = "untracked" -> Running
      [] outcome = "refused" -> With(Running, s, [WindowOf(s) EXCEPT !.refused = TRUE])
      [] outcome = "registered" -> With(Running, s, [WindowOf(s) EXCEPT !.count = @ + 1])

(* register: the sweep has written the file before the client is added     *)
(* and written too; one outcome stands for both writes.                    *)
register(s, how) ==
    LET outcome == admitRegistrationLocked(s)
        swept == expireUnusedClientsLocked(clients)
    IN  /\ up /\ mode = "bounded" /\ minted < MaxIds
        /\ rates' = Recorded(s, outcome)
        /\ clients' = IF outcome = "registered"
                      THEN With(swept, minted + 1, [created |-> now, used |-> FALSE])
                      ELSE swept
        /\ stored' = IF clients' = clients THEN stored
                     ELSE persistClientsLocked(clients', issuer, how)
        /\ minted' = IF outcome = "registered" THEN minted + 1 ELSE minted
        /\ UNCHANGED <<up, mode, issuer, completed, now>>

-----------------------------------------------------------------------------
(* What completed a flow is kept (clientregistration.go: "A client that    *)
(* has exchanged a code is a real client and is kept for as long as the    *)
(* deployment does"): no sweep and no restart under the same issuer        *)
(* forgets it, unless the file could not be written; so its cached         *)
(* client_id is still known to authorize.                                  *)
UsedKept == up => completed \subseteq DOMAIN clients

(* Why: the file is the table that is in memory, unless its last write     *)
(* failed, and only a client that was never used is left out of either.    *)
Table(t, n) ==
    /\ t = [c \in DOMAIN t |-> t[c]] /\ DOMAIN t \subseteq 1 .. n
    /\ \A c \in DOMAIN t : DOMAIN t[c] = {"created", "used"}

AllUsed(ids, t) == \A c \in ids : c \in DOMAIN t /\ t[c].used

UsedInv ==
    /\ minted \in Nat /\ up \in BOOLEAN /\ Table(clients, minted) /\ Table(stored.clients, minted)
    /\ DOMAIN stored = {"readable", "issuer", "clients", "current"}
    /\ up => /\ AllUsed(completed, clients)
             /\ (stored.readable /\ stored.current /\ DOMAIN clients # {}) =>
                   stored.issuer = issuer /\ stored.clients = clients
    /\ (~up /\ stored.readable /\ stored.current) => AllUsed(completed, stored.clients)
=============================================================================
