---------------------------- MODULE RuntimeState ----------------------------
(***************************************************************************)
(* The memory of the process: maps and sets whose keys begin with a        *)
(* tenant, counters that reset, and the clock they go by.                  *)
(*                                                                         *)
(* A key is a tuple <<tenant, ...>>.  A counter that has run out and one   *)
(* that is not there are the same to every reader: each limiter deletes    *)
(* the old counters first and with the same time.                          *)
(***************************************************************************)
EXTENDS Naturals, Sequences

CONSTANTS
  Tenants,
  System,    \* requests without a tenant are counted under "system"
  MaxTime    \* bound: the clock

ASSUME RuntimeAssumption == System \notin Tenants /\ MaxTime \in Nat

VARIABLE now

Owners == Tenants \cup {System}

IsTenantScoped(key, tenant) == key[1] = tenant

Purged(map, tenant, nothing) == [k \in DOMAIN map |-> IF IsTenantScoped(k, tenant) THEN nothing ELSE map[k]]
PurgedSet(set, tenant) == {k \in set : ~IsTenantScoped(k, tenant)}

NoBucket == [count |-> 0, resetAt |-> 0]

Running(b) == b.resetAt > now
Full(b, max) == Running(b) /\ b.count >= max
\* Variant: the window is given in other units than the clock's.
Hit_Units(b, window) == IF Running(b) THEN [b EXCEPT !.count = @ + 1]
                        ELSE [count |-> 1, resetAt |-> now + 60 * window]
Hit(b, window) == IF Running(b) THEN [b EXCEPT !.count = @ + 1]
                  ELSE [count |-> 1, resetAt |-> now + window]

\* rateLimitCleanup
Cleaned(map) == [k \in DOMAIN map |-> IF Running(map[k]) THEN map[k] ELSE NoBucket]
=============================================================================
