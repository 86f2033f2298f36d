-------------------------- MODULE MCLoginFailures --------------------------
(***************************************************************************)
(* Three connections: two from one IPv6 address, one from a neighbour in   *)
(* the same /64, all in the same /56 (the /48 rule has the same shape).    *)
(***************************************************************************)
EXTENDS LoginFailures, TLC

CONSTANTS c1, c2, c3, a1, a2, p64, p56

MCConns == {c1, c2, c3}
MCBuckets == {a1, a2, p64, p56}
MCKeysOf == (c1 :> <<p64, p56, a1>>) @@ (c2 :> <<p64, p56, a1>>) @@ (c3 :> <<p64, p56, a2>>)
MCLimit == (a1 :> 1) @@ (a2 :> 1) @@ (p64 :> 2) @@ (p56 :> 3)

\* Limits high enough for the rule of one minute to act more than once.
MCLimitWide == (a1 :> 4) @@ (a2 :> 4) @@ (p64 :> 4) @@ (p56 :> 4)
=============================================================================
