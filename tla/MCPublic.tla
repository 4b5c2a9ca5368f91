------------------------------ MODULE MCPublic ------------------------------
(***************************************************************************)
(* The public endpoints: the throttle's counters and the OAuth clients.    *)
(* They share nothing but the insert of a registered row, so a behaviour   *)
(* explores one of the two while the other rests in its initial state.     *)
(***************************************************************************)
EXTENDS Throttle, Clients, TLC

Seg(name) == [name |-> name, layers |-> 0]
Dot(layers) == [name |-> "..", layers |-> layers]

Https(host, path) ==
    [scheme |-> "https", user |-> FALSE, host |-> host, port |-> NoPort, path |-> path]

ClaudeUri == Https("claude.ai", <<Seg("cb")>>)
MovedUri  == Https("claude.com", <<Seg("cb")>>)
Prefix    == Https("chatgpt.com", <<Seg("oauth"), Seg("")>>)
Instance  == Https("chatgpt.com", <<Seg("oauth"), Seg("x")>>)
Sibling   == Https("chatgpt.com", <<Seg("oauth")>>)
Escaping(layers) == Https("chatgpt.com", <<Seg("oauth"), Dot(layers), Seg("x")>>)
Loopback  == [scheme |-> "http", user |-> FALSE, host |-> "127.0.0.1", port |-> 8000,
              path |-> <<>>]
Localhost == [scheme |-> "http", user |-> FALSE, host |-> "localhost", port |-> 8000,
              path |-> <<Seg("cb")>>]

Claude(uri)  == [name |-> "claude", match |-> "exact", uri |-> uri]
ChatGpt(uri) == [name |-> "chatgpt", match |-> "prefix", uri |-> uri]
Settings(clients) == [clients |-> clients, schemes |-> {"http", "https"}]

\* The documented pair; the callback moved and one client removed; the other
\* kind of match for the same client.  Not valid: a callback that leaves its
\* path; a prefix that is no directory; a scheme the toolkit does not allow.
MCReleases ==
    [pair   |-> Settings({Claude(ClaudeUri), ChatGpt(Prefix)}),
     moved  |-> Settings({Claude(MovedUri)}),
     kind   |-> Settings({[name |-> "claude", match |-> "prefix", uri |-> Prefix]}),
     dots   |-> Settings({Claude(Escaping(1))}),
     word   |-> Settings({ChatGpt(Sibling)}),
     scheme |-> [clients |-> {Claude(ClaudeUri)}, schemes |-> {"http"}]]

Body(redirects, length) ==
    [redirects |-> redirects, length |-> length, grants |-> {"authorization_code"},
     responses |-> {"code"}, auth |-> "none"]

Word(u) == [read |-> u, words |-> {u}]

\* "http://localhost:8000/cb https://claude.ai/cb" is one loopback URL to urlparse.
Spaced == [read  |-> [Localhost EXCEPT !.path = <<Seg("cb https:"), Seg(""), Seg("claude.ai"),
                                                  Seg("cb")>>],
           words |-> {Localhost, ClaudeUri}]

\* Two that register; one that names another host, and one that is too long
MCBodies ==
    {Body({Word(Loopback), Word(Localhost)}, Undeclared), Body({Word(Loopback), Spaced}, 10),
     Body({Word(Localhost), Word(ClaudeUri)}, 10), Body({Word(Localhost)}, 100)}

Request(client, uri) ==
    [client |-> client, uri |-> uri, scopes |-> {SCOPE}, method |-> "S256"]

MCRequests ==
    {Request("mcp-sql", Loopback), Request("other", MovedUri),
     Request("dcr", Localhost), Request("dcr", ClaudeUri),
     Request("claude", ClaudeUri), Request("claude", MovedUri), Request("claude", Omitted),
     Request("claude", Instance), Request("chatgpt", Instance), Request("chatgpt", Prefix),
     [Request("chatgpt", Prefix) EXCEPT !.method = "plain"],
     [Request("chatgpt", Prefix) EXCEPT !.scopes = {SCOPE, "admin"}]}
    \cup {Request("chatgpt", u) : u \in {Sibling, Escaping(1), Escaping(2), Escaping(6)}}

-----------------------------------------------------------------------------

VARIABLE part

allVars == <<vars, clientsVars, part>>

\* The part at rest has one initial state.
PublicInit ==
    /\ Init /\ ClientsInit
    /\ \/ part = "throttle" /\ release = "pair"
       \/ part = "clients"  /\ \A w \in Workers : scope[w] = "register"

PublicNext ==
    /\ UNCHANGED part
    /\ \/ part = "throttle" /\ Next /\ UNCHANGED clientsVars
       \/ part = "clients" /\ ClientsNext /\ UNCHANGED vars

PublicSpec == PublicInit /\ [][PublicNext]_allVars

Symmetry == Permutations(Workers) \cup Permutations(Servers)
=============================================================================
