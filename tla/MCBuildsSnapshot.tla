-------------------------- MODULE MCBuildsSnapshot ---------------------------
(***************************************************************************)
(* Facts for BuildsSnapshot: odd hands, one run at a time; several runs of *)
(* few builds; and many builds of one run each.                            *)
(***************************************************************************)
EXTENDS BuildsSnapshot

Card(template, socket, size, enchantment) ==
    [template |-> template, type |-> 0, socket |-> socket, size |-> size,
     enchantment |-> enchantment]
Overlay(socket) == [Card(1, socket, 1, NoEnchantment) EXCEPT !.type = 7]
Hand(cards) == [status |-> "captured", cards |-> cards]
Run(cards) == [finals |-> 1, hands |-> <<Hand(cards)>>, tenWin |-> TRUE, day |-> NoDay]

\* 0 is a template id that is none, and one size is far too large
OddCards ==
    { Card(t, s, z, NoEnchantment) :
        t \in {0, 1}, s \in {NoSocket, -1, 0, 1, 2}, z \in {-1, 0, 1, 2, 3, ShiftBits + 1} }
ThinCards == { Card(1, s, z, NoEnchantment) : s \in {NoSocket, 0, 1, 2}, z \in {1, 2} }

OddHands ==
    { <<c>> : c \in OddCards } \cup (OddCards \X OddCards)
      \cup (ThinCards \X ThinCards \X ThinCards)
      \cup { <<Overlay(0), c, d>> : c, d \in ThinCards } \cup { <<Overlay(0)>>, <<>> }

\* a hand recorded not at all, or in two card sets
OddRuns ==
    { Run(cards) : cards \in OddHands }
      \cup { [Run(<<>>) EXCEPT !.hands = <<Hand(<<c>>), Hand(<<d>>)>>] : c, d \in ThinCards }
      \cup { [Run(<<>>) EXCEPT !.hands = <<>>] }
      \cup { [Run(<<c, d>>) EXCEPT !.hands[1].status = s] :
               c, d \in ThinCards, s \in {"missing", "unset"} }
      \cup { [Run(<<c, d>>) EXCEPT !.finals = n] : c, d \in ThinCards, n \in {0, 2} }

\* the boards that are full, with two templates or three
Boards(templates, enchantments) ==
    { <<Card(t, 0, Width, e)>> : t \in templates, e \in enchantments }
      \cup { <<Card(t, 0, 1, e), Card(u, 1, Width - 1, NoneText)>> :
               t, u \in templates, e \in enchantments }
      \cup { <<Card(u, 1, Width - 1, e), Card(t, NoSocket, 1, e)>> :
               t, u \in templates, e \in enchantments }
      \cup { <<Card(t, 0, Width - 1, e), Card(u, Width - 1, 1, NoEnchantment)>> :
               t, u \in templates, e \in enchantments }

Results == [tenWin : {TRUE}, day : {NoDay, 7}] \cup [tenWin : {FALSE}, day : {0}]
Ended(cards, result) == [Run(cards) EXCEPT !.tenWin = result.tenWin, !.day = result.day]

TwoRuns ==
    { <<Ended(b, x), Ended(c, y)>> :
        b, c \in Boards({1, 2}, {NoEnchantment, 1}), x, y \in Results }

\* five runs of one build, on two boards, with every combination of days
FiveRuns ==
    LET board == <<Card(1, 0, Width - 1, NoEnchantment), Card(1, Width - 1, 1, 1)>>
        other == <<Card(1, 0, 1, 2), Card(1, 1, Width - 1, NoEnchantment)>>
    IN  { [i \in 1 .. 5 |-> Ended(IF i \in here THEN board ELSE other,
                                  [tenWin |-> i <= wins, day |-> days[i]])] :
            here \in { {1, 2}, {3, 4, 5} }, wins \in 3 .. 5,
            days \in [1 .. 5 -> {NoDay, 0, 7}] }

\* up to four builds over every set of three templates
ManyBuilds ==
    LET identities == << <<1>>, <<2>>, <<3>>, <<1, 1>>, <<1, 2>>, <<1, 3>>, <<2, 2>>,
                         <<2, 3>>, <<3, 3>>, <<1, 2, 3>> >>
        board(key) == [i \in DOMAIN key |->
                         Card(key[i], i - 1, IF i = Len(key) THEN Width - i + 1 ELSE 1,
                              NoEnchantment)]
        ascending == { f \in [1 .. 4 -> DOMAIN identities] :
                         \A n \in 1 .. 3 : f[n] <= f[n + 1] }
    IN  { [n \in 1 .. 4 |-> Run(board(identities[f[n]]))] : f \in ascending }

MCInputs == { <<run>> : run \in OddRuns } \cup TwoRuns \cup FiveRuns \cup ManyBuilds

=============================================================================
