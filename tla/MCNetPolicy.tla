------------------------------ MODULE MCNetPolicy ------------------------------
EXTENDS NetPolicy

Hidden1 == <<"h">>
Below == <<"h", "x">>
Outside == <<"o">>

Read(path) == [op |-> "read", path |-> path]
Dest == [op |-> "connect", port |-> 80]

\* A path that is hidden, one below it, one outside, with and without a binding that allows
\* the access; a destination; a listing.
MCKeys == [path |-> {Read(Hidden1), Read(Below), Read(Outside)}, net |-> {Dest}]
MCDeclared == {<<Hidden1>>}
MCEntries == {Hidden1, Below, Outside}
MCCalls == {Lookup(Read(Below), FALSE, TRUE), Lookup(Read(Outside), TRUE, TRUE),
            Lookup(Read(Outside), TRUE, FALSE), Lookup(Read(Outside), FALSE, FALSE),
            Connect(Dest), Getdents}
MCHarnesses ==
    {{}, {"apart", "once", "rules", "forgets"},
     {"apart", "always", "forgets", "closes"},
     {"apart", "once", "reveals", "asks"},
     {"apart", "once", "asks", "garbage"}}

\* Two domains with an address in common, one with none.
MCAnswers == [n1 |-> {"a", "b"}, n2 |-> {"b", "d"}, n3 |-> {}]

Opts ==
    {OptionPolicy("deny"), OptionPolicy("off"),
     OptionRule("allow", DomainRule("n1")), OptionRule("allow", DomainRule("n2")),
     OptionRule("allow", AddressRule("a", "none")),
     OptionRule("deny", DomainRule("n2")), OptionRule("deny", DomainRule("n3"))}

Ports0 == [allow |-> {}, deny |-> {}]
Deny == <<OptionPolicy("deny")>>

\* Every three options in every order, without a guest; guests that listen, and that ask.
MCSessions ==
    {[habits |-> {}, options |-> <<>>, binds |-> Ports0]}
    \union {[habits |-> {}, options |-> <<o1, o2, o3>>, binds |-> Ports0] : o1, o2, o3 \in Opts}
    \union {[habits |-> {"listens"}, options |-> Deny, binds |-> [allow |-> {AnyPort}, deny |-> {81}]]}
    \union {[habits |-> g, options |-> Deny, binds |-> Ports0] : g \in {{"queries"}, {"queries", "reuses"}}}

================================================================================
