-------------------------- MODULE MCClusterCommand --------------------------
EXTENDS ClusterCommand

k1 == <<"a">>
k2 == <<"{", "a", "}", "b">>
k3 == <<"b">>
k4 == <<"{", "}", "c", "d", "e", "f", "g", "h", "i", "j">>
k5 == <<"b", "b", "c", "d", "e", "f", "g", "h", "i", "j">>
k6 == <<>>
Keys == {k1, k2, k3, k4}
AllKeys == Keys \cup {k5, k6}

\* a hash that puts k1, k2, k5 and the empty key into one slot, k3 and k4
\* into two others
MCcrc16(s) == CASE s \in {<<"a">>, k5, k6} -> 0 [] s = <<"b">> -> 1 [] OTHER -> 2

MCMasters == {"m1", "m2"}
MCAddrs == MCMasters \cup {"s1", "s2"}
MCSlaveOf == [a \in {"s1", "s2"} |-> "m1"]

MCData == [k \in AllKeys |-> CASE k = k1 -> <<"CR", "LF">> [] k = k2 -> <<>> [] k = k3 -> <<"x">> [] k = k6 -> <<"e">>
                              [] k \in {k4, k5} -> NoAddress]
MCSlots == 0 .. 2

Cmd(name, args) == <<<<name>>>> \o args
Values == {<<"v">>, <<>>, <<"v", " ", "w">>, <<"5", "%">>, <<"5", "%", " ">>, <<"%", "d">>, <<"%", "s">>,
           <<"%", "q">>, <<"%", "%">>, <<"1", "2", "3", "4", "5", "6", "7", "8", "9", "0">>}

\* commands with an empty key, before and behind others, with numbers of one
\* and of two digits before it
Ten == [i \in 1 .. 9 |-> IF i = 1 THEN k6 ELSE k1]
WithEmptyKey ==
    {Cmd(name, args) : name \in {"mget", "del"},
                       args \in {<<k6, k3>>, <<k1, k6, k3>>, <<k6, k5, k3>>, <<k5, k1, k6, k3>>, <<k5, k6, k3>>,
                                <<k5, k6>>, <<k5, k3, k6, k6>>, Ten}}
    \cup {Cmd("mset", <<k, <<"v">>, l, <<"w">>, k3, <<"x">>>>) : k, l \in {k1, k5, k6}}
    \cup {Cmd("mset", FlattenSeq([i \in 1 .. n |-> <<IF i = 1 THEN k6 ELSE k1, <<"v">>>>]) \o <<k3, <<"w">>>>) : n \in 4 .. 5}

Argvs ==
    {Cmd("set", <<k1, v>>) : v \in Values}
    \cup {Cmd("get", <<k>>) : k \in Keys}
    \cup {Cmd("mget", <<k, l>>) : k, l \in Keys}
    \cup {Cmd("mget", <<k, l, m>>) : k, l, m \in {k1, k2, k3}}
    \cup {Cmd("del", <<k, l, k3>>) : k, l \in Keys}
    \cup {Cmd("mset", <<k, <<"v">>, k3, <<"w">>, l, <<"1", "2", "3", "4", "5", "6", "7", "8", "9", "0">>>>) : k, l \in Keys}
    \cup {Cmd("eval", <<<<s>>, n, k3, k3>>) : s \in {"flat", "deep"}, n \in {<<"0">>, <<"1">>, <<"2">>}}
    \cup {Cmd("ping", <<>>), Cmd("get", <<>>), Cmd("get", <<k1, k1>>), Cmd("nosuch", <<k1>>),
          Cmd("mset", <<k1>>), Cmd("mset", <<k1, k3, k1>>), Cmd("setnx", <<k1, k3>>), Cmd("setnx", <<k1>>),
          Cmd("setex", <<k1, k3, k3>>), Cmd("linsert", <<k1, k3, k3, k3>>), <<>>}

MCRequests == {[argv |-> a, how |-> h] : a \in Argvs, h \in {"text", "args", "pipe"}}
              \cup {[argv |-> a, how |-> "args"] : a \in WithEmptyKey}
              \cup {[argv |-> Cmd("del", <<k6, k3>>), how |-> h] : h \in {"text", "argv"}}
              \cup {[argv |-> Cmd("mset", <<k1, v, k3, v>>), how |-> "argv"] : v \in Values}
=============================================================================
