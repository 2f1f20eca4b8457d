----------------------------- MODULE PairNight -----------------------------
(***************************************************************************)
(* The pairing algorithm of packages/api/src/domain/pairing.ts and the     *)
(* records that generatePairings (services/pairing-service.ts) makes of    *)
(* its result.  A shuffled group is a bijection from positions to players, *)
(* so whatever fisherYatesShuffle returns is one of Shuffles(group).       *)
(* Nothing here has state; NightPairings uses it for one step of a         *)
(* generation.                                                             *)
(***************************************************************************)
EXTENDS Integers, FiniteSets, Functions

CONSTANTS Players,   \* signup ids of one night
          Systems,   \* the game systems the night offers
          Requests,  \* ids of handler invocations
          NoOne      \* the missing second player of an odd pairing

ASSUME NoOneAssumption == NoOne \notin Players \cup Requests

ASSUME PlayersFinite == IsFiniteSet(Players)

(***************************************************************************)
(* A pairing item.  pairingId is a fresh ulid; a run creates at most one   *)
(* pairing led by a player, so <<by, first>> names it, and the sort key    *)
(* pairingSk(systemKey, pairingId) is Key.                                 *)
(***************************************************************************)
Pairing == [by     : Requests,
            system : Systems,
            first  : Players,
            second : Players \cup {NoOne},
            status : {"MATCHED", "NEEDS_RESOLUTION"}]

Key(p) == <<p.by, p.system, p.first>>

Seated(p) == {p.first, p.second} \ {NoOne}

Match(r, s, a, b) ==
    [by |-> r, system |-> s, first |-> a, second |-> b, status |-> "MATCHED"]

Single(r, s, a) ==
    [by |-> r, system |-> s, first |-> a, second |-> NoOne, status |-> "NEEDS_RESOLUTION"]

-----------------------------------------------------------------------------

Group(systemOf, s) == {p \in DOMAIN systemOf : systemOf[p] = s}

Shuffles(group) == Bijection(1..Cardinality(group), group)

\* Mutant: the last player of an odd group is forgotten.
PairUpEven(r, s, shuffled, n) ==
    {Match(r, s, shuffled[i], shuffled[i+1]) : i \in {k \in 1..(n-1) : k % 2 = 1}}

(***************************************************************************)
(* The loop of pairNight over one shuffled group of n players: positions   *)
(* 1-2, 3-4, ... are matched and a last odd position stays single.         *)
(***************************************************************************)
PairUp(r, s, shuffled, n) ==
    {Match(r, s, shuffled[i], shuffled[i+1]) : i \in {k \in 1..(n-1) : k % 2 = 1}}
    \cup {Single(r, s, shuffled[i]) : i \in {k \in {n} : k % 2 = 1}}

(***************************************************************************)
(* Every result of pairNight on the confirmed players DOMAIN systemOf, as  *)
(* the pairings run r stores: one shuffle per system.                      *)
(***************************************************************************)
PairNight(r, systemOf) ==
    LET Size(s) == Cardinality(Group(systemOf, s))
        Shuffled == {f \in [Systems -> UNION {Shuffles(Group(systemOf, s)) : s \in Systems}] :
                        \A s \in Systems : f[s] \in Shuffles(Group(systemOf, s))}
    IN  {UNION {PairUp(r, s, f[s], Size(s)) : s \in Systems} : f \in Shuffled}

-----------------------------------------------------------------------------

(***************************************************************************)
(* What a result must be: each confirmed player sits in exactly one        *)
(* pairing, of that player's own system, and no system leaves two singles. *)
(***************************************************************************)
WellPaired(plan, r, systemOf) ==
    /\ plan \subseteq Pairing
    /\ \A p \in plan :
          /\ p.by = r
          /\ Seated(p) \subseteq DOMAIN systemOf
          /\ \A x \in Seated(p) : systemOf[x] = p.system
          /\ p.first # p.second
          /\ p.status = "MATCHED" <=> p.second # NoOne
    /\ \A x \in DOMAIN systemOf : \E p \in plan : x \in Seated(p)
    /\ \A p, q \in plan : Seated(p) \cap Seated(q) # {} => p = q
    /\ \A p, q \in plan :
          (p.second = NoOne /\ q.second = NoOne /\ p.system = q.system) => p = q
=============================================================================
