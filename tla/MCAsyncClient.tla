---------------------------- MODULE MCAsyncClient ----------------------------
EXTENDS AsyncClient

\* all names in one chain of the table
MChash(name) == 1

MCCalls ==
    {[kind |-> "get", names |-> <<>>], [kind |-> "monitor", names |-> <<>>],
     [kind |-> "subscribe", names |-> <<"a", "b">>],
     [kind |-> "unsubscribe", names |-> <<"b">>], [kind |-> "unsubscribe", names |-> <<>>],
     [kind |-> "psubscribe", names |-> <<"p">>], [kind |-> "punsubscribe", names |-> <<"p">>]}
=============================================================================
