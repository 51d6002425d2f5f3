----------------------------- MODULE MCCasClient ------------------------------
(***************************************************************************)
(* A small instance of CasClient for TLC: a host of three labels and names *)
(* that match it exactly, by a wildcard, and in no way.                    *)
(***************************************************************************)
EXTENDS CasClient

Dns(labels) == [address |-> FALSE, labels |-> labels]

CasHost == Dns(<<"cas", "ez", "com">>)

CasEntries ==
    {CasHost, Dns(<<"*", "ez", "com">>), Dns(<<"c*", "ez", "com">>), Dns(<<"*", "com">>),
     [address |-> TRUE, labels |-> <<"cas", "ez", "com">>]}
=============================================================================
