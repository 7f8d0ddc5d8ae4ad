-------------------------------- MODULE Board --------------------------------
(***************************************************************************)
(* Dragging cards on the board (features/board/Board.tsx) and what the      *)
(* server makes of it (rankIssue and the order of the board's query).  A    *)
(* drop sends a status change if the column changed, and a rank that names  *)
(* the two neighbours, as two requests nobody orders; the server reads the  *)
(* neighbours' ranks and writes the card's in two statements.  Everyone     *)
(* drags on the copy his page last loaded.                                  *)
(***************************************************************************)
EXTENDS Rank, FiniteSets

CONSTANTS
  Cards,      \* the cards of the project
  Columns,    \* the columns, each for one status
  People,     \* the pages open on the board
  MaxDrops    \* bound: cards dropped

ASSUME BoardAssumption == IsFiniteSet(Cards) /\ NoRank \notin Cards /\ MaxDrops \in Nat

VARIABLES
  rankOf,     \* the rank column of each card, or NoRank
  columnOf,   \* the status of each card
  fresher,    \* which card was updated after which
  copy,       \* what each page shows: which card is above which, and the column of each
  drops       \* the drops so far

boardVars == <<rankOf, columnOf, fresher, copy, drops>>

Drops == 1..Len(drops)

\* The ways to put the elements of S in a row, each as the pairs of an element and a later one.
Orders(S) ==
  {before \in SUBSET (S \X S) :
     /\ \A c, d \in S : <<c, d>> \in before <=> c # d /\ <<d, c>> \notin before
     /\ \A c, d, e \in S : <<c, d>> \in before /\ <<d, e>> \in before => <<c, e>> \in before}

\* The cards of S in such a row.
InOrder(S, before) ==
  [n \in 1..Cardinality(S) |-> CHOOSE c \in S : Cardinality({d \in S : <<d, c>> \in before}) = n - 1]

Place(c, s) == CHOOSE n \in DOMAIN s : s[n] = c

\* ORDER BY rank ASC NULLS LAST, updated_at DESC.
Above(c, d) ==
  \/ rankOf[c] # NoRank /\ (rankOf[d] = NoRank \/ SortsBefore(rankOf[c], rankOf[d]))
  \/ rankOf[c] = rankOf[d] /\ <<c, d>> \in fresher

BoardOrder == {cd \in Cards \X Cards : Above(cd[1], cd[2])}

BoardTypeOK ==
  /\ rankOf \in [Cards -> Seq(0..Letters)]
  /\ columnOf \in [Cards -> Columns]
  /\ fresher \in Orders(Cards)
  /\ copy \in [People -> [order : Orders(Cards), column : [Cards -> Columns]]]
  /\ Len(drops) <= MaxDrops

\* Cards dragged one by one to the top of the column, to its end, or right under the first.
DraggedTo(where, first, last) ==
  CASE where = "top" -> RankBetween(NoRank, last)
    [] where = "end" -> RankBetween(last, NoRank)
    [] where = "second" -> RankBetween(first, IF last = first THEN NoRank ELSE last)

Ordered(s, where) ==
  LET rank[i \in DOMAIN s] == IF i = 1 THEN <<FirstRank>> ELSE DraggedTo(where, rank[1], rank[i - 1])
  IN [c \in Cards |-> rank[Place(c, s)]]

\* A board nobody has ordered yet, or one ordered in one of these ways.
BoardInit ==
  /\ fresher = CHOOSE before \in Orders(Cards) : TRUE
  /\ \/ rankOf = [c \in Cards |-> NoRank]
     \/ \E where \in {"top", "end", "second"} : rankOf = Ordered(InOrder(Cards, fresher), where)
  /\ columnOf \in [Cards -> Columns]
  /\ copy = [p \in People |-> [order |-> BoardOrder, column |-> columnOf]]
  /\ drops = <<>>

-----------------------------------------------------------------------------
\* The cards of a column, as a page shows them.
Shown(p, col) == {c \in Cards : copy[p].column[c] = col}

CardAt(s, n) == IF n \in DOMAIN s THEN s[n] ELSE NoRank

\* Fault: the card above is taken for the card below.
Neighbours_OffByOne(p, col, c, gap) ==
  LET without == InOrder(Shown(p, col) \ {c}, copy[p].order)
  IN [after |-> CardAt(without, gap + 1), before |-> CardAt(without, gap + 2)]

\* onDropAt: the gap counts the cards above it as rendered, the dragged one included; the
\* neighbours are taken from the column without it.
Neighbours(p, col, c, gap) ==
  LET without == InOrder(Shown(p, col) \ {c}, copy[p].order)
      target == IF gap < Len(without) THEN gap ELSE Len(without)
  IN [after |-> CardAt(without, target), before |-> CardAt(without, target + 1)]

\* Nobody else's drop is under way, and the page shows the board as it is.
UpToDate(p) ==
  /\ \A i \in Drops : drops[i].move = "done" /\ drops[i].rank = "done"
  /\ copy[p] = [order |-> BoardOrder, column |-> columnOf]

\* A card dropped into a gap of a column.
Drop(p, c, col, gap) ==
  LET cards == InOrder(Shown(p, col), copy[p].order)
      aim == Neighbours(p, col, c, gap)
  IN
  /\ Len(drops) < MaxDrops
  /\ gap \in 0..Len(cards)
  /\ drops' = Append(drops,
       [card |-> c, column |-> col,
        move |-> IF copy[p].column[c] = col THEN "done" ELSE "sent",
        rank |-> "sent", after |-> aim.after, before |-> aim.before,
        prev |-> NoRank, next |-> NoRank,
        above |-> CardAt(cards, gap), below |-> CardAt(cards, gap + 1),
        down |-> \E n \in 1..gap : cards[n] = c,
        quiet |-> UpToDate(p)])
  /\ UNCHANGED <<rankOf, columnOf, fresher, copy>>

\* The server changes the card's status (any status may follow any other here: what the
\* workflow refuses is in IssueLifecycle).
MoveCard(i) ==
  LET c == drops[i].card IN
  /\ drops[i].move = "sent"
  /\ columnOf' = [columnOf EXCEPT ![c] = drops[i].column]
  /\ fresher' = {cd \in fresher : c \notin {cd[1], cd[2]}} \cup ({c} \X (Cards \ {c}))
  /\ drops' = [drops EXCEPT ![i].move = "done"]
  /\ UNCHANGED <<rankOf, copy>>

\* The server refuses the status change; the rank goes through all the same.
RefuseMove(i) ==
  /\ drops[i].move = "sent"
  /\ drops' = [drops EXCEPT ![i].move = "done", ![i].quiet = FALSE]
  /\ UNCHANGED <<rankOf, columnOf, fresher, copy>>

\* rankIssue reads the neighbours' ranks...
NeighbourRanks(i) ==
  LET RankAt(c) == IF c = NoRank THEN NoRank ELSE rankOf[c] IN
  /\ drops[i].rank = "sent"
  /\ drops' = [drops EXCEPT ![i].rank = "read",
                            ![i].prev = RankAt(drops[i].after), ![i].next = RankAt(drops[i].before)]
  /\ UNCHANGED <<rankOf, columnOf, fresher, copy>>

\* ...and writes the card's.
SetIssueRank(i) ==
  /\ drops[i].rank = "read"
  /\ rankOf' = [rankOf EXCEPT ![drops[i].card] = RankBetween(drops[i].prev, drops[i].next)]
  /\ drops' = [drops EXCEPT ![i].rank = "done"]
  /\ UNCHANGED <<columnOf, fresher, copy>>

\* A page loads the board again.
ReloadBoard(p) ==
  /\ copy' = [copy EXCEPT ![p] = [order |-> BoardOrder, column |-> columnOf]]
  /\ UNCHANGED <<rankOf, columnOf, fresher, drops>>

BoardNext ==
  \/ \E p \in People :
       \/ ReloadBoard(p)
       \/ \E c \in Cards, col \in Columns, gap \in 0..Cardinality(Cards) : Drop(p, c, col, gap)
  \/ \E i \in Drops : MoveCard(i) \/ RefuseMove(i) \/ NeighbourRanks(i) \/ SetIssueRank(i)

-----------------------------------------------------------------------------
Ranks == {rankOf[c] : c \in Cards} \ {NoRank}

\* Whatever drags and races made of the ranks, one can be placed before, after and between
\* them, and none ends in the floor, below which nothing could go (rank.go:12-17).
RankBetweenFits ==
  /\ \A r \in Ranks : r[Len(r)] # 0
  /\ \A r \in Ranks : SortsBefore(RankBetween(NoRank, r), r) /\ SortsBefore(r, RankBetween(r, NoRank))
  /\ \A r, s \in Ranks : SortsBefore(r, s) =>
       SortsBefore(r, RankBetween(r, s)) /\ SortsBefore(RankBetween(r, s), s)

\* Where the card of drop i now stands in its column of the board.
Column(col) == InOrder({c \in Cards : columnOf[c] = col}, BoardOrder)

Landed(i) ==
  LET d == drops[i]
      s == Column(d.column)
      n == Place(d.card, s)
  IN /\ d.above \in {NoRank, d.card} \/ (n > 1 /\ s[n - 1] = d.above)
     /\ d.below \in {NoRank, d.card} \/ (n < Len(s) /\ s[n + 1] = d.below)

\* The last drop is done, it was made on a page that was up to date, and no other met it.
Finished(i) ==
  /\ i = Len(drops) /\ drops[i].quiet
  /\ drops[i].move = "done" /\ drops[i].rank = "done"
  /\ columnOf[drops[i].card] = drops[i].column

\* What Board.tsx:105-109 and handlers.go:2919-2921 say: a card lands between the two cards
\* seen on either side of the drop.
DropLands == \A i \in Drops : Finished(i) => Landed(i)

\* It does when the column was ordered, with no two cards on one rank, and the card came
\* from another column or from below.
DropLandsInOrder ==
  \A i \in Drops :
    LET d == drops[i]
        others == {c \in Cards : c # d.card /\ columnOf[c] = d.column}
    IN
    (/\ Finished(i)
     /\ \A c \in others : rankOf[c] # NoRank
     /\ \A c, e \in others : c # e => rankOf[c] # rankOf[e]
     /\ ~d.down)
      => Landed(i)
=============================================================================
