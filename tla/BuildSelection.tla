--------------------------- MODULE BuildSelection ---------------------------
(***************************************************************************)
(* Which builds of a hero are published (select_build_identities): the     *)
(* first CoreLimit candidates by rank, then, card by card in card order,   *)
(* the best candidate that contains a card no selected build has yet.      *)
(*                                                                         *)
(* The sort key ends in the candidate's identity, which is unique, so the  *)
(* ranking is a total order and a candidate is its position in it.  Of an  *)
(* identity, a multiset of cards, only the set of its cards matters here.  *)
(***************************************************************************)
EXTENDS Integers, FiniteSets

CONSTANTS
    Cards,          \* card ids, in their order
    MaxCandidates,  \* bound: candidates of the hero
    CoreLimit       \* CORE_BUILD_LIMIT_PER_HERO

ASSUME SelectionAssumption ==
    /\ Cards \subseteq Int
    /\ MaxCandidates \in Nat /\ CoreLimit \in Nat \ {0}

VARIABLES
    count,      \* number of candidates
    identity,   \* the cards of each candidate, best candidate first
    selected,   \* positions of the candidates selected so far
    order,      \* when each selected candidate was selected: 1, 2, ...
    covered,    \* `covered`
    pending     \* the cards the loop has still to look at

vars == <<count, identity, selected, order, covered, pending>>

Ranked == 1 .. count

\* the cards of a set of candidates
CardsOf(candidates) == UNION { identity[i] : i \in candidates }

\* ranked[:CORE_BUILD_LIMIT_PER_HERO]
Core == { i \in Ranked : i <= CoreLimit }

\* bug: only the cards of the core are candidate cards
AbsentCards_OfCore == CardsOf(Core) \ CardsOf(Core)

\* candidate_cards - covered, where the loop begins
AbsentCards == CardsOf(Ranked) \ CardsOf(Core)

Init ==
    /\ count \in 0 .. MaxCandidates
    /\ identity \in [1 .. count -> SUBSET Cards \ {{}}]
    /\ selected = Core
    /\ order = [i \in Core |-> i]
    /\ covered = CardsOf(Core)
    /\ pending = AbsentCards

\* bug: any candidate with the card will do
IsBestWith_Any(i, card) == i \in Ranked /\ card \in identity[i]

\* next(item for item in ranked if card in item.identity)
IsBestWith(i, card) ==
    /\ i \in Ranked /\ card \in identity[i]
    /\ \A j \in Ranked : card \in identity[j] => i <= j

IsNextCard(card) == card \in pending /\ \A other \in pending : card <= other

SkipCoveredCard(card) ==
    /\ IsNextCard(card) /\ card \in covered
    /\ pending' = pending \ {card}
    /\ UNCHANGED <<count, identity, selected, order, covered>>

AppendBest(card, i) ==
    /\ IsNextCard(card) /\ card \notin covered
    /\ IsBestWith(i, card)
    /\ pending' = pending \ {card}
    /\ IF i \in selected
         THEN UNCHANGED <<selected, order, covered>>
         ELSE /\ selected' = selected \cup {i}
              /\ order' = [j \in selected' |->
                             IF j = i THEN Cardinality(selected) + 1 ELSE order[j]]
              /\ covered' = covered \cup identity[i]
    /\ UNCHANGED <<count, identity>>

Next == \E card \in Cards :
          \/ SkipCoveredCard(card)
          \/ \E i \in Ranked : AppendBest(card, i)

Spec == Init /\ [][Next]_vars

Done == pending = {}

-----------------------------------------------------------------------------
\* Every variable has its type; the loop never looks twice at a card.
TypeOK ==
    /\ count \in 0 .. MaxCandidates
    /\ identity \in [Ranked -> SUBSET Cards]
    /\ selected \subseteq Ranked
    /\ order \in [selected -> Nat]
    /\ covered \subseteq Cards /\ pending \subseteq Cards

\* The published corpus loses no card: every card that some candidate contains
\* is on a selected build, and `covered`, which the loop updates only when it
\* appends, never falls behind the builds it stands for.
EveryCardCovered ==
    /\ covered = CardsOf(selected)
    /\ Done => CardsOf(Ranked) = CardsOf(selected)

\* What is appended earns its place: for some card absent from the core it is
\* the best candidate, and no build selected before it had that card.
AppendedEarnsItsPlace ==
    \A i \in selected \ Core :
      \E card \in identity[i] :
        /\ \A j \in Ranked : card \in identity[j] => i <= j
        /\ \A j \in selected : order[j] < order[i] => card \notin identity[j]

=============================================================================
