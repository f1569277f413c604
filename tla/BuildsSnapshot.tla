--------------------------- MODULE BuildsSnapshot ----------------------------
(***************************************************************************)
(* The builds product of one hero, from the facts to the snapshot its      *)
(* consumers decode (SnapshotBuilder.build_builds): which final boards     *)
(* count, what a candidate build is, BuildSelection over the candidates,   *)
(* the tables, references and index of the payload, and the validation a   *)
(* payload passes before it leaves.                                        *)
(*                                                                         *)
(* The score is a real-valued function of two counts and is left out: the  *)
(* candidates may come in any order.  A bit mask is the set of its bits.   *)
(***************************************************************************)
EXTENDS BuildSelection, Sorting, SequencesExt

CONSTANTS
    Width,          \* slots of a board: 10
    ShiftBits,      \* what 1::BIGINT can be shifted by and still fit: 62
    Inputs          \* the facts considered: sequences of completed accepted runs

ASSUME SnapshotAssumption ==
    Width \in Nat \ {0} /\ ShiftBits \in Nat /\ ShiftBits > Width
    /\ \A card \in Cards : card > 0

NoSocket == -100        \* NULL
NoDay == -1             \* NULL, or negative
NoEnchantment == 0
NoneText == -1          \* '' or 'None'

FactCards == [template : Int, type : Int, socket : Int, size : Int, enchantment : Int]
Hands == [status : {"captured", "missing", "unset"}, cards : Seq(FactCards)]
FactRuns == [finals : Nat, hands : Seq(Hands), tenWin : BOOLEAN, day : Nat \cup {NoDay}]

\* the columns of runs, battles and battle_cards have these types
ASSUME InputsAssumption == \A runs \in Inputs : runs \in Seq(FactRuns)

VARIABLES
    facts,      \* the window's completed accepted runs
    ranked,     \* the candidates' build keys, best first
    snapshot,   \* the payload, once it is made
    outcome     \* selecting, query_failed, violation or built

snapshotVars == <<vars, facts, ranked, snapshot, outcome>>

-----------------------------------------------------------------------------
\* The final board of a run.

\* _card_signature of the only final battle: `player_hand` must be there once
HasSignature(run) ==
    /\ run.finals = 1 /\ Len(run.hands) = 1
    /\ run.hands[1].status # "missing" /\ run.hands[1].cards # <<>>

\* the rows of one card set; a card without a socket has its place in the set
Placed(hand) ==
    [i \in DOMAIN hand.cards |->
       LET card == hand.cards[i]
       IN  [template |-> card.template, type |-> card.type, size |-> card.size,
            slot |-> IF card.socket = NoSocket THEN i - 1 ELSE card.socket,
            enchantment |-> IF card.enchantment = NoneText THEN NoEnchantment
                            ELSE card.enchantment,
            status |-> hand.status]]

\* card type 7 is an overlay that shares its socket with an item
IsItem(row) == row.type = 0

\* the rows that are grouped into the run's layout: a family, for the query
\* gives them no order
ItemRows(run) ==
    LET placed == [h \in DOMAIN run.hands |-> Placed(run.hands[h])]
        places == UNION { {h} \X DOMAIN placed[h] : h \in DOMAIN placed }
        items == { at \in places : IsItem(placed[at[1]][at[2]]) }
    IN  [at \in items |-> placed[at[1]][at[2]]]

Rows_AnySignature(run) == IF run.finals = 1 THEN ItemRows(run) ELSE <<>>    \* bug
Rows(run) == IF HasSignature(run) THEN ItemRows(run) ELSE <<>>

Cells(row) == row.slot .. row.slot + row.size - 1
TotalSize(rows) == SumFunction([at \in DOMAIN rows |-> rows[at].size])

FillsBoard_Overlapping(rows) ==         \* bug: the sum is not asked for
    /\ \A row \in Range(rows) : row.slot >= 0 /\ row.slot + row.size <= Width
    /\ UNION { Cells(row) : row \in Range(rows) } = 0 .. Width - 1
FillsBoard(rows) == TotalSize(rows) = Width /\ FillsBoard_Overlapping(rows)

Eligible(run) ==
    LET rows == Rows(run)
    IN  /\ DOMAIN rows # {}
        /\ \A row \in Range(rows) :
             row.status = "captured" /\ row.template \in Cards /\ row.size > 0
        /\ FillsBoard(rows)

\* ((1 << size) - 1) << slot is computed for every row before any group is
\* left out, and << raises on a negative operand and on overflow
ShiftRaises(row) ==
    \/ row.size < 0 \/ row.size > ShiftBits
    \/ row.slot < 0
    \/ row.size > 0 /\ row.size + row.slot > ShiftBits + 1

QueryRaises(runs) == \E run \in Range(runs) : \E row \in Range(Rows(run)) : ShiftRaises(row)

-----------------------------------------------------------------------------
\* Candidates: the build keys with a Ten-Win run.

BuildKey(run) ==
    LET rows == Rows(run)
    IN  Sorted([at \in DOMAIN rows |-> rows[at].template])

\* a full board has one item at a slot: only the first sort column matters
Layout(run) ==
    LET rows == Range(Rows(run))
        slots == Ascending({ row.slot : row \in rows })
    IN  [k \in DOMAIN slots |-> CHOOSE row \in rows : row.slot = slots[k]]

RunsOf(key) == { r \in DOMAIN facts : Eligible(facts[r]) /\ BuildKey(facts[r]) = key }
TenWinsOf(key) == { r \in RunsOf(key) : facts[r].tenWin }
Candidates(runs) == { BuildKey(run) : run \in { q \in Range(runs) : Eligible(q) /\ q.tenWin } }

\* the most frequent layout; a tie goes by the text of the layout
Observations(key, layout) == Cardinality({ r \in TenWinsOf(key) : Layout(facts[r]) = layout })
Representative(key) ==
    LET layouts == { Layout(facts[r]) : r \in TenWinsOf(key) }
    IN  CHOOSE layout \in layouts :
          \A other \in layouts : Observations(key, other) <= Observations(key, layout)

NearestRank_Next(n) == (3 * n) \div 4 + 1       \* bug: days[int(0.75 * n)]
NearestRank(n) == (3 * n + 3) \div 4

KnownDays(key) ==
    Sorted([r \in { q \in TenWinsOf(key) : facts[q].day >= 0 } |-> facts[r].day])
P75(key) ==
    LET days == KnownDays(key)
    IN  IF days = <<>> THEN NoDay ELSE days[NearestRank(Len(days))]

\* the queries, and the ranking select_build_identities begins with
SnapshotInit ==
    /\ facts \in Inputs
    /\ snapshot = <<>>
    /\ IF QueryRaises(facts)
         THEN outcome = "query_failed" /\ ranked = <<>>
         ELSE outcome = "selecting" /\ ranked \in SetToSeqs(Candidates(facts))
    /\ count = Len(ranked)
    /\ identity = [i \in 1 .. count |-> Range(ranked[i])]
    /\ Init

-----------------------------------------------------------------------------
\* The payload.  References are zero-based.

Published == [n \in 1 .. Cardinality(selected) |-> ranked[CHOOSE i \in selected : order[i] = n]]
CardTable == Ascending(CardsOf(selected))
EnchantmentsOf(key) == { row.enchantment : row \in Range(Representative(key)) }
EnchantmentTable ==
    Ascending((UNION { EnchantmentsOf(key) : key \in Range(Published) }) \ {NoEnchantment})

IndexIn(entry, table) == CHOOSE i \in DOMAIN table : table[i] = entry
CardRef(card) == IndexIn(card, CardTable) - 1

EnchantRef_NoNull(name) ==              \* bug: the table's leading null is forgotten
    IF name = NoEnchantment THEN 0 ELSE IndexIn(name, EnchantmentTable) - 1
EnchantRef(name) == IF name = NoEnchantment THEN 0 ELSE IndexIn(name, EnchantmentTable)

\* _build_row
BuildRow(key) ==
    LET layout == Representative(key)
    IN  [refs |-> Sorted([i \in DOMAIN key |-> CardRef(key[i])]),
         layout |-> [i \in DOMAIN layout |->
                       [ref |-> CardRef(layout[i].template), slot |-> layout[i].slot,
                        enchantment |-> EnchantRef(layout[i].enchantment),
                        size |-> layout[i].size]],
         completed |-> Cardinality(RunsOf(key)),
         ten_win |-> Cardinality(TenWinsOf(key)),
         p75 |-> P75(key)]

\* how often a build is entered under a card
Entries_PerCopy(ref, refs) == Cardinality({ i \in DOMAIN refs : refs[i] = ref })  \* bug
Entries(ref, refs) == IF ref \in Range(refs) THEN 1 ELSE 0

CardIndex(builds) ==
    LET entries(ref) ==
          UNION { {i} \X (1 .. Entries(ref, builds[i].refs)) : i \in DOMAIN builds }
        ids(ref) == Sorted([entry \in entries(ref) |-> entry[1] - 1])
        refs == Ascending(UNION { Range(build.refs) : build \in Range(builds) })
    IN  [k \in DOMAIN refs |-> [ref |-> refs[k], builds |-> ids(refs[k])]]

Payload ==
    LET builds == [n \in DOMAIN Published |-> BuildRow(Published[n])]
    IN  [cards |-> CardTable, enchantments |-> EnchantmentTable,
         builds |-> builds, card_index |-> CardIndex(builds)]

\* _validate_builds and the bounds of its JSON schema
ValidBuild(build, payload) ==
    /\ \A ref \in Range(build.refs) : ref \in 0 .. Len(payload.cards) - 1
    /\ build.refs # <<>>
    /\ build.refs = Sorted([i \in DOMAIN build.layout |-> build.layout[i].ref])
    /\ TotalSize(build.layout) = Width
    /\ \A item \in Range(build.layout) :
         /\ item.ref < Len(payload.cards) /\ item.slot >= 0 /\ item.size >= 1
         /\ item.enchantment \in 0 .. Len(payload.enchantments)
    /\ build.completed >= 1 /\ build.ten_win \in 1 .. build.completed
    /\ build.p75 >= NoDay

ValidIndex(payload) ==
    LET builds == payload.builds
        refs == UNION { Range(build.refs) : build \in Range(builds) }
    IN  /\ [k \in DOMAIN payload.card_index |-> payload.card_index[k].ref]
             = Ascending(refs)
        /\ \A entry \in Range(payload.card_index) :
             entry.builds = Ascending(
               { n - 1 : n \in { m \in DOMAIN builds : entry.ref \in Range(builds[m].refs) } })

IsValid(payload) ==
    /\ payload.cards = Ascending(Range(payload.cards))
    /\ payload.enchantments = Ascending(Range(payload.enchantments))
    /\ \A build \in Range(payload.builds) : ValidBuild(build, payload)
    /\ ValidIndex(payload)

Select == outcome = "selecting" /\ Next /\ UNCHANGED <<facts, ranked, snapshot, outcome>>

Emit ==
    /\ outcome = "selecting" /\ Done
    /\ snapshot' = Payload
    /\ outcome' = IF IsValid(Payload) THEN "built" ELSE "violation"
    /\ UNCHANGED <<vars, facts, ranked>>

SnapshotNext == Select \/ Emit

SnapshotSpec == SnapshotInit /\ [][SnapshotNext]_snapshotVars

-----------------------------------------------------------------------------
\* A run counts exactly when the items of one captured player hand lie on the
\* board without gap and without overlap: the sum of the sizes and the union
\* of the masks together say so, and a hand that was recorded twice is not
\* pieced together.
EligibleIsTiling ==
    \A run \in Range(facts) :
      Eligible(run) <=>
        /\ run.finals = 1 /\ Len(run.hands) = 1 /\ run.hands[1].status = "captured"
        /\ LET placed == Placed(run.hands[1])
               items == { i \in DOMAIN placed : IsItem(placed[i]) }
           IN  /\ \A i \in items :
                    /\ placed[i].template \in Cards /\ placed[i].size > 0
                    /\ Cells(placed[i]) \subseteq 0 .. Width - 1
               /\ \A cell \in 0 .. Width - 1 :
                    Cardinality({ i \in items : cell \in Cells(placed[i]) }) = 1

\* The builder and its validator agree: whatever was played, a snapshot that is
\* made passes; nothing the facts may hold keeps the product from its public
\* object but a query that fails.
SnapshotValid == outcome # "violation"

\* A consumer finds every card some Ten-Win board has: the card is in the
\* table, the index has its reference, and every build listed contains it.
EveryCardFindable ==
    outcome = "built" =>
      \A key \in Candidates(facts) : \A card \in Range(key) :
        \E k \in DOMAIN snapshot.card_index :
          LET entry == snapshot.card_index[k]
          IN  /\ snapshot.cards[entry.ref + 1] = card
              /\ entry.builds # <<>>
              /\ \A id \in Range(entry.builds) : entry.ref \in Range(snapshot.builds[id + 1].refs)

\* What a consumer decodes from a build's layout is a board on which a run of
\* that build won ten times, and none of its boards did so more often.
DecodesToPlayedBoard ==
    outcome = "built" =>
      \A build \in Range(snapshot.builds) :
        LET decoded == { [template |-> snapshot.cards[item.ref + 1], slot |-> item.slot,
                          size |-> item.size,
                          enchantment |-> (<<NoEnchantment>> \o snapshot.enchantments)
                                            [item.enchantment + 1]]
                         : item \in Range(build.layout) }
            board(run) == { [template |-> row.template, slot |-> row.slot, size |-> row.size,
                             enchantment |-> row.enchantment] : row \in Range(Rows(run)) }
            wins(b) == { r \in DOMAIN facts : facts[r].tenWin /\ Eligible(facts[r])
                                              /\ board(facts[r]) = b }
            key == Sorted([i \in DOMAIN build.refs |-> snapshot.cards[build.refs[i] + 1]])
        IN  /\ wins(decoded) # {}
            /\ \A r \in TenWinsOf(key) :
                 Cardinality(wins(board(facts[r]))) <= Cardinality(wins(decoded))

\* p75 is the least known day by which three of four Ten-Win runs of the build
\* had ended, and null exactly when no day is known.
P75IsNearestRank ==
    outcome = "built" =>
      \A n \in DOMAIN snapshot.builds :
        LET p75 == snapshot.builds[n].p75
            known == { r \in TenWinsOf(Published[n]) : facts[r].day # NoDay }
            by(day) == Cardinality({ r \in known : facts[r].day <= day })
        IN  IF known = {} THEN p75 = NoDay
            ELSE /\ 4 * by(p75) >= 3 * Cardinality(known)
                 /\ 4 * by(p75 - 1) < 3 * Cardinality(known)

=============================================================================
