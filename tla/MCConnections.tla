--------------------------- MODULE MCConnections ---------------------------
\* Instances of Connections: the peers TLC connects.
EXTENDS Connections

P(on, speaks, first, offers, work) ==
    [on |-> on, speaks |-> speaks, first |-> first, offers |-> offers, work |-> work,
     wire |-> "sound"]

Wired(f, wire) == [f EXCEPT !.wire = wire]

\* Plain peers on both listeners, negotiating ones that prefer tarpc or
\* JSON-RPC, that offer nothing known, whose line cannot be read, or that met
\* the TCP listener, and BTSP clients of both.
AllKinds ==
    {P("uds", "jsonrpc", "brace", <<>>, <<"compile", "quick">>),
     P("uds", "jsonrpc", "blank", <<>>, <<"quick">>),
     P("tcp", "jsonrpc", "brace", <<>>, <<"compile">>),
     P("uds", "g65", "P", <<"tarpc", "jsonrpc">>, <<"compile", "quick">>),
     P("uds", "g65", "P", <<"jsonrpc", "tarpc">>, <<"quick">>),
     P("uds", "g65", "P", <<>>, <<"quick">>),
     Wired(P("uds", "g65", "P", <<"tarpc">>, <<"quick">>), "long"),
     Wired(P("uds", "g65", "P", <<"tarpc">>, <<"quick">>), "binary"),
     P("tcp", "g65", "P", <<"tarpc">>, <<"quick">>),
     P("uds", "btsp", "brace", <<>>, <<"negotiate", "quick">>),
     P("tcp", "btsp", "brace", <<>>, <<"quick">>)}
============================================================================
