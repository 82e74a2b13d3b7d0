----------------------------- MODULE MCAdmission -----------------------------
(* Small instances of Admission for TLC.                                   *)
EXTENDS Admission

\* /usr/bingo, which begins with /usr/bin, and a path that is not UTF-8
MCExe == {<<"/usr", "/bin", "go">>, <<"/usr", "0xFF">>}

MCNotUtf8 == {"0xFF"}

\* a library that two processes map, and a file that mapprefix denies
MCMapping == {[path |-> <<"/usr", "/lib">>, process |-> 1],
              [path |-> <<"/usr", "/lib">>, process |-> 2],
              [path |-> <<"/tmp", "/lib">>, process |-> 1]}

MCRule == [neg : BOOLEAN, prefix : {<<"/usr">>, <<"/usr", "/bin">>}]

\* every list of two rules of opposite signs for executables, with no cache
MCPrefixes ==
    [exeprefix : {rules \in MCRule \X MCRule : rules[1].neg # rules[2].neg},
     mapprefix : {<<>>}, minsize : {1}, cache_ttl : {0}, cache_capacity : {1}]

\* the default shape of mapprefix, and a cache of one place
MCCaching ==
    [exeprefix : {<<>>, <<[neg |-> TRUE, prefix |-> <<"/usr", "/bin">>]>>},
     mapprefix : {<<[neg |-> TRUE, prefix |-> <<"/tmp">>]>>},
     minsize : {2}, cache_ttl : {2}, cache_capacity : {1}]

MCPolicies == MCPrefixes \cup MCCaching
=============================================================================
