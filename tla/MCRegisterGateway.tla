------------------------- MODULE MCRegisterGateway -------------------------
(* Two daemons, two names, and every command line about them.                *)
EXTENDS RegisterGateway

CONSTANTS g, h, a, b, v

Request(verb, names, wild) == [verb |-> verb, names |-> names, wild |-> wild, value |-> v]

MCRequests ==
    {Request(verb, {a}, FALSE) : verb \in {"copy", "paste", "put", "rm"}}
        \cup {Request(verb, {a, b}, TRUE) : verb \in {"touch", "rm", "ls"}}

=============================================================================
