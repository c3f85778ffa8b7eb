----------------------------- MODULE PagesProofs -----------------------------
(***************************************************************************)
(* Proofs about the pages, for every value of their constants, of the       *)
(* specification that MCPages runs.                                         *)
(***************************************************************************)
EXTENDS MCPages, AssistantProofs, FiniteSetTheorems, WellFoundedInduction

-----------------------------------------------------------------------------
(* Pages                                                                   *)

Above(S, p) == {q \in S : q > p}
UpTo(S, p) == {q \in S : q < p}

LEMMA NatOrder ==
  /\ \A p, q, r \in Nat : q > p /\ r > q => r > p
  /\ \A p \in Nat : ~(p > p) /\ ~(p < p)
  /\ \A p, q \in Nat : (p < q <=> q > p) /\ (p <= q <=> ~(p > q)) /\ (p >= q <=> ~(p < q))
  /\ \A p, q \in Nat : p = q \/ p < q \/ p > q
OBVIOUS

LEMMA Order ==
  /\ \A p, q, r \in Ids : q > p /\ r > q => r > p
  /\ \A p \in Ids : ~(p > p) /\ ~(p < p)
  /\ \A p, q \in Ids : (p < q <=> q > p) /\ (p <= q <=> ~(p > q)) /\ (p >= q <=> ~(p < q))
  /\ \A p, q \in Ids : p = q \/ p < q \/ p > q
<1>. SUFFICES Ids \subseteq Nat
  BY NatOrder
<1>. QED BY ListAssumption

LEMMA Counts ==
  ASSUME NEW S, S \subseteq Ids, NEW T, T \subseteq S
  PROVE  /\ IsFiniteSet(S) /\ S \subseteq Nat
         /\ Cardinality(T) \in Nat /\ Cardinality(S) \in Nat
         /\ Cardinality(T) <= Cardinality(S)
<1>1. IsFiniteSet(S) /\ S \subseteq Nat
  BY ListAssumption, FS_Subset
<1>. QED BY <1>1, FS_Subset, FS_CardinalityType

(* A finite set that is not empty has a greatest and a least number:    *)
(* of the sets above a member one is minimal, and so of those below.      *)
LEMMA Extremes ==
  ASSUME NEW S, IsFiniteSet(S), S \subseteq Nat, S # {}
  PROVE  /\ \E p \in S : \A q \in S : q <= p
         /\ \E p \in S : \A q \in S : p <= q
<1>1. IsWellFoundedOn(StrictSubsetOrdering(S), SUBSET S)
  BY FS_StrictSubsetOrderingWellFounded, FS_FiniteSubsetsOfFinite
<1>2. \E p \in S : \A q \in S : q <= p
  <2> DEFINE sets == {Above(S, p) : p \in S}
  <2>1. sets \subseteq SUBSET S /\ sets # {}
    BY DEF Above
  <2>2. PICK least \in sets : \A T \in sets : ~ (<<T, least>> \in StrictSubsetOrdering(S))
    <3> HIDE DEF sets
    <3>. QED BY <1>1, <2>1, WFMin
  <2>3. PICK p \in S : least = Above(S, p)
    BY <2>2
  <2>4. ASSUME NEW q \in S, q > p
        PROVE  FALSE
    <3>1. Above(S, q) \subseteq Above(S, p) /\ q \in Above(S, p) /\ q \notin Above(S, q)
      BY <2>4, NatOrder, Zenon DEF Above
    <3>2. Above(S, q) \in sets /\ Above(S, q) \in SUBSET S /\ Above(S, p) \in SUBSET S
      BY DEF Above
    <3>3. <<Above(S, q), Above(S, p)>> \in StrictSubsetOrdering(S)
      BY <3>1, <3>2 DEF StrictSubsetOrdering
    <3>. QED BY <2>2, <2>3, <3>2, <3>3
  <2>. QED BY <2>4
<1>3. \E p \in S : \A q \in S : p <= q
  <2> DEFINE sets == {UpTo(S, p) : p \in S}
  <2>1. sets \subseteq SUBSET S /\ sets # {}
    BY DEF UpTo
  <2>2. PICK least \in sets : \A T \in sets : ~ (<<T, least>> \in StrictSubsetOrdering(S))
    <3> HIDE DEF sets
    <3>. QED BY <1>1, <2>1, WFMin
  <2>3. PICK p \in S : least = UpTo(S, p)
    BY <2>2
  <2>4. ASSUME NEW q \in S, q < p
        PROVE  FALSE
    <3>1. UpTo(S, q) \subseteq UpTo(S, p) /\ q \in UpTo(S, p) /\ q \notin UpTo(S, q)
      BY <2>4, NatOrder, Zenon DEF UpTo
    <3>2. UpTo(S, q) \in sets /\ UpTo(S, q) \in SUBSET S /\ UpTo(S, p) \in SUBSET S
      BY DEF UpTo
    <3>3. <<UpTo(S, q), UpTo(S, p)>> \in StrictSubsetOrdering(S)
      BY <3>1, <3>2 DEF StrictSubsetOrdering
    <3>. QED BY <2>2, <2>3, <3>2, <3>3
  <2>. QED BY <2>4
<1>. QED BY <1>2, <1>3

LEMMA ExtremeIds ==
  ASSUME NEW S, S \subseteq Ids, S # {}
  PROVE  /\ \E p \in S : \A q \in S : q <= p
         /\ \E p \in S : \A q \in S : p <= q
BY Counts, Extremes

LEMMA NewestIs ==
  ASSUME NEW S, NEW n, NEW p
  PROVE  p \in Newest(S, n) <=> p \in S /\ Cardinality(Above(S, p)) < n
BY DEF Newest, Above

(* When the query finds no more rows than a page shows, it found them all. *)
LEMMA LastPage ==
  ASSUME NEW S, S \subseteq Ids, NEW rows, rows = Newest(S, PageSize + 1),
         rows = Newest(rows, PageSize)
  PROVE  S = rows
<1>1. rows \subseteq S /\ PageSize \in Nat \ {0} /\ S \subseteq Nat
  BY NewestIs, Counts, ListAssumption
<1>2. SUFFICES ASSUME S \ rows # {}
               PROVE  FALSE
  BY <1>1
<1>3. PICK g \in S \ rows : \A q \in S \ rows : q <= g
  BY <1>2, ExtremeIds
<1> DEFINE B == Above(S, g)
<1>4. B \subseteq rows /\ B \subseteq S /\ IsFiniteSet(B)
  <2>1. B \subseteq S
    BY DEF Above
  <2>2. \A q \in B : q \in rows
    BY <1>1, <1>3 DEF Above
  <2>. QED BY <2>1, <2>2, Counts, FS_Subset
<1>5. Cardinality(B) \in Nat /\ Cardinality(B) >= PageSize + 1
  <2>1. Cardinality(B) \in Nat
    BY <1>4, FS_CardinalityType
  <2>2. ~(Cardinality(B) < PageSize + 1)
    BY <1>3, NewestIs
  <2>. QED BY <1>1, <2>1, <2>2
<1>6. B # {}
  BY <1>1, <1>5, FS_EmptySet
<1>7. B \subseteq Ids
  BY <1>4
<1>8. PICK r \in B : \A q \in B : r <= q
  <2> HIDE DEF B
  <2>. QED BY <1>6, <1>7, ExtremeIds
<1>9. B \ {r} \subseteq Above(rows, r)
  <2>1. \A q \in B \ {r} : q \in rows /\ q > r
    BY <1>4, <1>7, <1>8, Order, Zenon
  <2>. QED BY <2>1 DEF Above
<1>10. Cardinality(B \ {r}) = Cardinality(B) - 1
  BY <1>4, <1>8, FS_RemoveElement
<1>11. /\ Cardinality(Above(rows, r)) \in Nat /\ Cardinality(B \ {r}) \in Nat
       /\ Cardinality(B \ {r}) <= Cardinality(Above(rows, r))
  <2>1. Above(rows, r) \subseteq Ids
    BY <1>1 DEF Above
  <2>. QED BY <1>9, <2>1, Counts
<1>12. Cardinality(Above(rows, r)) < PageSize
  BY <1>4, <1>8, NewestIs
<1>. QED BY <1>1, <1>5, <1>10, <1>11, <1>12

(* A page of rows: all it shows was asked for, its cursor is the least     *)
(* shown, and what was asked for and not shown is below the cursor.        *)
LEMMA Page ==
  ASSUME NEW S, S \subseteq Ids, NEW rows, rows = Newest(S, PageSize + 1)
  PROVE  LET shown == Newest(rows, PageSize)
             next == NextCursor(rows)
         IN  /\ shown \subseteq S
             /\ next # NoId => next \in shown /\ \A q \in shown : next <= q
             /\ \A p \in S \ shown : next # NoId /\ p < next
<1> DEFINE shown == Newest(rows, PageSize)
           next == NextCursor(rows)
<1>1. /\ rows \subseteq S /\ shown \subseteq rows /\ S \subseteq Nat
      /\ PageSize \in Nat \ {0} /\ NoId \notin Nat
  BY NewestIs, Counts, ListAssumption
<1>2. CASE rows = shown
  <2>1. S = shown
    BY <1>2, LastPage
  <2>2. next = NoId
    BY <1>2 DEF NextCursor
  <2>. QED BY <2>1, <2>2
<1>3. CASE rows # shown
  <2>1. shown # {}
    <3>1. rows # {} /\ rows \subseteq Ids
      BY <1>1, <1>3
    <3>2. PICK p \in rows : \A q \in rows : q <= p
      <4> HIDE DEF shown
      <4>. QED BY <3>1, ExtremeIds
    <3>3. Above(rows, p) = {}
      BY <3>1, <3>2, Order, Zenon DEF Above
    <3>4. Cardinality(Above(rows, p)) < PageSize
      <4>1. Cardinality(Above(rows, p)) = 0
        BY <3>3, FS_EmptySet, Zenon
      <4>. QED BY <1>1, <4>1
    <3>. QED BY <3>4, NewestIs
  <2>2. \E p \in shown : \A q \in shown : p <= q
    <3>1. shown \subseteq Ids
      BY <1>1
    <3> HIDE DEF shown
    <3>. QED BY <2>1, <3>1, ExtremeIds
  <2>3. next = CHOOSE p \in shown : \A q \in shown : p <= q
    BY <1>3 DEF NextCursor
  <2>4. next \in shown /\ \A q \in shown : next <= q
    <3> HIDE DEF shown, next
    <3>. QED BY <2>2, <2>3
  <2>5. ASSUME NEW p \in S \ shown, ~(p < next)
        PROVE  FALSE
    <3>1. p > next /\ next \in rows /\ p \in Ids /\ next \in Ids
      <4>1. p \in Ids /\ next \in Ids /\ next \in rows /\ p # next
        BY <1>1, <2>4, <2>5
      <4>. QED BY <2>5, <4>1, Order, Zenon
    <3>2. CASE p \in rows
      <4>1. Above(rows, p) \subseteq Above(rows, next) /\ Above(rows, next) \subseteq Ids
        BY <1>1, <3>1, Order, Zenon DEF Above
      <4>2. Cardinality(Above(rows, next)) < PageSize
        BY <2>4, NewestIs
      <4>3. ~(Cardinality(Above(rows, p)) < PageSize)
        BY <2>5, <3>2, NewestIs
      <4>. QED BY <1>1, <4>1, <4>2, <4>3, Counts
    <3>3. CASE p \notin rows
      <4>1. Above(S, p) \subseteq Above(S, next) /\ Above(S, next) \subseteq Ids
        BY <1>1, <3>1, Order, Zenon DEF Above
      <4>2. Cardinality(Above(S, next)) < PageSize + 1
        BY <3>1, NewestIs
      <4>3. ~(Cardinality(Above(S, p)) < PageSize + 1)
        BY <2>5, <3>3, NewestIs
      <4>. QED BY <1>1, <4>1, <4>2, <4>3, Counts
    <3>. QED BY <3>2, <3>3
  <2>6. next # NoId
    BY <1>1, <2>4
  <2>. QED BY <1>1, <2>4, <2>5, <2>6
<1>. QED BY <1>2, <1>3

-----------------------------------------------------------------------------
(* The inductive invariant: every card is at or above the cursor, so the   *)
(* next page, below it, holds no second card of a project.                 *)

CardsAboveCursor ==
  \A p \in Ids : list.cards[p] # 0 => list.next = NoId \/ p >= list.next

ListInv == ListTypeOK /\ NothingPassedOver /\ CardsAboveCursor

LEMMA ListBegins == ListInit => ListInv
BY DEF ListInit, ListInv, ListTypeOK, NothingPassedOver, CardsAboveCursor, Public

(* A page, the first or the next, put after cards that are above it.       *)
LEMMA PageKeeps ==
  ASSUME ListInv, NEW S, S \subseteq Ids, NEW rows, rows = Newest(S, PageSize + 1),
         NEW cards \in [Ids -> Nat],
         NEW search \in SUBSET Ids,
         list' = [search |-> search, cards |-> ProjectListItems(cards, rows), next |-> NextCursor(rows)],
         \A p \in Ids : cards[p] <= 1,
         \A p \in Ids : cards[p] # 0 => \A q \in S : p > q,
         \A p \in steady' \cap search : cards[p] = 0 => p \in S,
         project' = project, steady' \subseteq Public
  PROVE  ListInv'
<1> DEFINE shown == Newest(rows, PageSize)
           next == NextCursor(rows)
<1>1. /\ shown \subseteq S
      /\ next # NoId => next \in shown /\ \A q \in shown : next <= q
      /\ \A p \in S \ shown : next # NoId /\ p < next
  BY Page
<1>2. /\ list'.search = search /\ list'.next = next
      /\ list'.cards = [p \in Ids |-> cards[p] + (IF p \in shown THEN 1 ELSE 0)]
      /\ list' \in [search : SUBSET Ids, cards : [Ids -> Nat], next : Ids \cup {NoId}]
  BY <1>1 DEF ProjectListItems
<1>3. Ids \subseteq Nat /\ NoId \notin Nat
  BY ListAssumption
<1> HIDE DEF shown, next
<1>4. \A p \in Ids : p \in shown => cards[p] = 0
  BY <1>1, <1>3
<1>5. \A p \in Ids : list'.cards[p] \in {0, 1} /\ (list'.cards[p] # 0 <=> p \in shown \/ cards[p] # 0)
  BY <1>2, <1>4
<1>6. ListTypeOK'
  BY <1>2 DEF ListInv, ListTypeOK, Public
<1>7. CardsAboveCursor'
  <2>1. SUFFICES ASSUME NEW p \in Ids, list'.cards[p] # 0, next # NoId
                 PROVE  p >= next
    BY <1>2 DEF CardsAboveCursor
  <2>2. next \in shown /\ next \in S /\ next \in Ids
    BY <1>1, <2>1
  <2>3. CASE p \in shown
    BY <1>1, <2>1, <2>2, <2>3, Order, Zenon
  <2>4. CASE cards[p] # 0
    <3>1. p > next
      BY <2>2, <2>4
    <3>. QED BY <2>2, <3>1, Order
  <2>. QED BY <1>5, <2>1, <2>3, <2>4
<1>8. NothingPassedOver'
  BY <1>1, <1>2, <1>5 DEF NothingPassedOver
<1>. QED BY <1>6, <1>7, <1>8 DEF ListInv

LEMMA ListSteps == ListInv /\ [ListNext]_listVars => ListInv'
<1>1. SUFFICES ASSUME ListInv, [ListNext]_listVars
               PROVE  ListInv'
  OBVIOUS
<1>2. /\ list \in [search : SUBSET Ids, cards : [Ids -> Nat], next : Ids \cup {NoId}]
      /\ project \in [Ids -> {"absent", "public", "private"}] /\ steady \subseteq Public
      /\ Public \subseteq Ids /\ Ids \subseteq Nat /\ NoId \notin Nat
  BY <1>1, ListAssumption DEF ListInv, ListTypeOK, Public
<1>3. ASSUME NEW search \in Searches, ProjectListPage(search)
      PROVE  ListInv'
  <2> DEFINE S == Public \cap search \cap Below(NoId)
             rows == Newest(S, PageSize + 1)
             none == [p \in Ids |-> 0]
  <2>1. search \in SUBSET Ids
    BY ListAssumption
  <2>2. S \subseteq Ids /\ \A p \in Public \cap search : p \in S
    BY <1>2 DEF Below
  <2>3. /\ list' = [search |-> search, cards |-> ProjectListItems(none, rows), next |-> NextCursor(rows)]
        /\ steady' = Public /\ project' = project
    BY <1>3 DEF ProjectListPage, SearchActiveProjects
  <2>4. none \in [Ids -> Nat] /\ \A p \in Ids : none[p] = 0
    OBVIOUS
  <2> HIDE DEF S, none
  <2>. QED BY <1>1, <2>1, <2>2, <2>3, <2>4, PageKeeps
<1>4. ASSUME List
      PROVE  ListInv'
  <2> DEFINE S == Public \cap list.search \cap Below(list.next)
             rows == Newest(S, PageSize + 1)
  <2>1. S \subseteq Ids /\ list.next # NoId /\ list.search \in SUBSET Ids /\ list.cards \in [Ids -> Nat]
    BY <1>2, <1>4 DEF List
  <2>2. /\ list' = [search |-> list.search, cards |-> ProjectListItems(list.cards, rows),
                    next |-> NextCursor(rows)]
        /\ steady' = steady /\ project' = project
    BY <1>2, <1>4 DEF List, SearchActiveProjects
  <2>3. \A p \in Ids : list.cards[p] <= 1
    BY <1>1 DEF ListInv, NothingPassedOver
  <2>4. \A p \in Ids : list.cards[p] # 0 => \A q \in S : p > q
    <3>1. SUFFICES ASSUME NEW p \in Ids, list.cards[p] # 0, NEW q \in S
                   PROVE  p > q
      OBVIOUS
    <3>2. p >= list.next /\ q < list.next /\ q \in Ids /\ list.next \in Ids
      <4>1. q \in Ids /\ q < list.next /\ list.next \in Ids
        BY <1>2, <2>1 DEF Below
      <4>2. p >= list.next
        BY <1>1, <2>1, <3>1 DEF ListInv, CardsAboveCursor
      <4>. QED BY <4>1, <4>2
    <3>. QED BY <3>1, <3>2, Order
  <2>5. \A p \in steady' \cap list.search : list.cards[p] = 0 => p \in S
    BY <1>1, <1>2, <2>2 DEF ListInv, NothingPassedOver, Below
  <2>6. steady' \subseteq Public
    BY <1>2, <2>2
  <2> HIDE DEF S
  <2>. QED BY <1>1, <2>1, <2>2, <2>3, <2>4, <2>5, <2>6, PageKeeps
<1>5. ASSUME NEW p \in Ids, UpsertProjectByRepoID(p)
      PROVE  ListInv'
  <2>1. ListTypeOK'
    BY <1>2, <1>5 DEF UpsertProjectByRepoID, ListTypeOK, Public
  <2>2. list' = list /\ steady' \subseteq steady
    BY <1>5 DEF UpsertProjectByRepoID
  <2>. QED BY <1>1, <2>1, <2>2 DEF ListInv, NothingPassedOver, CardsAboveCursor
<1>6. CASE UNCHANGED listVars
  BY <1>1, <1>6 DEF ListInv, ListTypeOK, NothingPassedOver, CardsAboveCursor, Public, listVars
<1>. QED BY <1>1, <1>3, <1>4, <1>5, <1>6 DEF ListNext

-----------------------------------------------------------------------------
(* The leaderboard                                                         *)

Ahead(u) == {v \in Players : score[v] > score[u]}

(* A user who was not shown has at least the rows shown so far ahead of    *)
(* her, and none is left when there are no more rows.                      *)
LeadersInv ==
  /\ LeadersTypeOK
  /\ \A u \in still : Untied(u)
  /\ ~fell => \A u \in still \ seen : table.more /\ Cardinality(Ahead(u)) >= table.offset + Limit

LEMMA PlayersRead ==
  ASSUME LeadersTypeOK
  PROVE  /\ score \in [Users -> 0..MaxScore \cup {NoRow}] /\ Players \subseteq Users
         /\ \A u \in Players : score[u] \in Nat
         /\ IsFiniteSet(Players) /\ Count \in Nat
         /\ Limit \in Nat \ {0} /\ MaxScore \in Nat
         /\ \A u : IsFiniteSet(Ahead(u)) /\ Cardinality(Ahead(u)) \in Nat
<1>1. /\ score \in [Users -> 0..MaxScore \cup {NoRow}] /\ Players \subseteq Users
      /\ Limit \in Nat \ {0} /\ MaxScore \in Nat
  BY LeaderboardAssumption DEF LeadersTypeOK, Players
<1>2. \A u \in Players : score[u] \in Nat
  BY <1>1 DEF Players
<1>3. IsFiniteSet(Players) /\ Count \in Nat
  BY <1>1, FS_Subset, FS_CardinalityType, LeaderboardAssumption DEF Count
<1>4. \A u : IsFiniteSet(Ahead(u)) /\ Cardinality(Ahead(u)) \in Nat
  BY <1>3, FS_Subset, FS_CardinalityType DEF Ahead
<1>. QED BY <1>1, <1>2, <1>3, <1>4

(* Where a player stands whose score is her own: behind those ahead.       *)
LEMMA Standing ==
  ASSUME LeadersTypeOK, NEW s \in Orders(Players, Outscores), NEW k \in 1..Count, Untied(s[k])
  PROVE  Cardinality(Ahead(s[k])) = k - 1
<1> DEFINE u == s[k]
<1>1. /\ s \in [1..Count -> Players] /\ Count \in Nat
      /\ \A i, j \in 1..Count : s[i] = s[j] => i = j
      /\ \A v \in Players : \E i \in 1..Count : s[i] = v
      /\ \A i, j \in 1..Count : i < j => ~(score[s[j]] > score[s[i]])
  BY PlayersRead DEF Orders, Outscores, Count, Bijection, Injection, Surjection, IsInjective
<1>2. ASSUME NEW i \in 1..Count
      PROVE  i < k <=> s[i] \in Ahead(u)
  <2>1. s[i] \in Players /\ u \in Players /\ score[s[i]] \in Nat /\ score[u] \in Nat
    BY <1>1, PlayersRead
  <2>2. i # k => score[s[i]] # score[u]
    BY <1>1, <2>1, PlayersRead DEF Untied
  <2>3. i < k => score[s[i]] > score[u]
    BY <1>1, <2>1, <2>2
  <2>4. k < i => ~(score[s[i]] > score[u])
    BY <1>1
  <2>. QED BY <2>1, <2>3, <2>4 DEF Ahead
<1>3. DEFINE f == [i \in 1..(k - 1) |-> s[i]]
<1>4. f \in [1..(k - 1) -> Ahead(u)]
  BY <1>1, <1>2
<1>5. \A i, j \in 1..(k - 1) : f[i] = f[j] => i = j
  BY <1>1
<1>6. \A v \in Ahead(u) : \E i \in 1..(k - 1) : f[i] = v
  <2>. SUFFICES ASSUME NEW v \in Ahead(u)
                PROVE  \E i \in 1..(k - 1) : s[i] = v
    OBVIOUS
  <2>1. PICK i \in 1..Count : s[i] = v
    BY <1>1 DEF Ahead
  <2>. QED BY <1>1, <1>2, <2>1
<1>. HIDE DEF f
<1>7. f \in Bijection(1..(k - 1), Ahead(u))
  BY <1>4, <1>5, <1>6 DEF Bijection, Injection, Surjection, IsInjective
<1>8. IsFiniteSet(1..(k - 1)) /\ Cardinality(1..(k - 1)) = k - 1
  <2>1. k - 1 \in Nat
    BY <1>1
  <2>. QED BY <2>1, FS_Interval
<1>. QED BY <1>7, <1>8, FS_Bijection DEF ExistsBijection

LEMMA LeadersBegin == LeadersInit => LeadersInv
<1>. SUFFICES ASSUME LeadersInit PROVE LeadersInv
  OBVIOUS
<1>1. Limit \in Nat \ {0} /\ <<>> \in [1..0 -> Users]
  BY LeaderboardAssumption
<1>2. \E n \in 0..Limit : table.entries \in [1..n -> Users]
  <2>1. 0 \in 0..Limit /\ table.entries \in [1..0 -> Users]
    BY <1>1 DEF LeadersInit
  <2>. QED BY <2>1
<1>3. LeadersTypeOK
  BY <1>2 DEF LeadersInit, LeadersTypeOK
<1>. QED BY <1>3 DEF LeadersInit, LeadersInv

(* A page that is read shows the players who stand on it and, without a    *)
(* next one, leaves no player behind.                                      *)
LEMMA PageShows ==
  ASSUME LeadersTypeOK, NEW offset \in Nat, Leaders(offset), score' = score,
         NEW u \in Players, Untied(u), Cardinality(Ahead(u)) >= offset,
         u \notin Range(table'.entries)
  PROVE  table'.more /\ Cardinality(Ahead(u)) >= table'.offset + Limit
<1>1. PICK s \in Orders(Players, Outscores) : table' = LeaderboardTable([i \in 1..Left(Count, Limit + 1, offset) |-> s[offset + i]], offset)
  BY DEF Leaders, GetLeaderboard
<1> DEFINE n == Left(Count, Limit + 1, offset)
           rows == [i \in 1..n |-> s[offset + i]]
<1>2. /\ Count \in Nat /\ Limit \in Nat \ {0} /\ n \in Nat
      /\ n <= Limit + 1 /\ (n > 0 => offset + n <= Count) /\ (n <= Limit => Count <= offset + n)
  BY PlayersRead DEF Left
<1>3. DOMAIN rows = 1..n /\ Cardinality(DOMAIN rows) = n
  BY <1>2, FS_Interval
<1>4. PICK k \in 1..Count : s[k] = u
  BY DEF Orders, Count, Bijection, Surjection
<1>5. Cardinality(Ahead(u)) = k - 1
  BY <1>4, Standing
<1>6. k > offset
  BY <1>2, <1>5
<1> HIDE DEF n, rows
<1>7. table'.entries = Cut(rows, Limit) /\ table'.more = (n > Limit) /\ table'.offset = offset
  BY <1>1, <1>3 DEF LeaderboardTable, n, rows
<1> DEFINE m == IF n < Limit THEN n ELSE Limit
<1>8. m \in Nat /\ table'.entries = [i \in 1..m |-> rows[i]]
  BY <1>2, <1>3, <1>7 DEF Cut, Left
<1>9. k > offset + m
  <2>. SUFFICES ASSUME k <= offset + m PROVE FALSE
    BY <1>2, <1>8
  <2>1. k - offset \in 1..m /\ k - offset \in 1..n
    BY <1>2, <1>6, <1>8
  <2>2. rows[k - offset] = u
    BY <1>4, <2>1 DEF rows
  <2>. QED BY <1>8, <2>1, <2>2 DEF Range
<1>10. n > Limit
  BY <1>2, <1>9
<1>11. m = Limit
  BY <1>2, <1>10
<1>12. k > offset + Limit
  BY <1>9, <1>11
<1> HIDE DEF m
<1>13. k - 1 >= offset + Limit
  BY <1>2, <1>12
<1>. QED BY <1>5, <1>7, <1>10, <1>13

LEMMA LeadersTyped ==
  ASSUME LeadersTypeOK, NEW offset \in Nat, Leaders(offset)
  PROVE  /\ \E n \in 0..Limit : table'.entries \in [1..n -> Users]
         /\ table'.offset = offset /\ table'.more \in BOOLEAN
         /\ Range(table'.entries) \subseteq Users
<1>1. PICK s \in Orders(Players, Outscores) : table' = LeaderboardTable([i \in 1..Left(Count, Limit + 1, offset) |-> s[offset + i]], offset)
  BY DEF Leaders, GetLeaderboard
<1> DEFINE n == Left(Count, Limit + 1, offset)
           rows == [i \in 1..n |-> s[offset + i]]
           m == IF n < Limit THEN n ELSE Limit
<1>2. /\ Count \in Nat /\ Limit \in Nat \ {0} /\ n \in Nat /\ (n > 0 => offset + n <= Count)
  BY PlayersRead DEF Left
<1>3. DOMAIN rows = 1..n /\ Cardinality(DOMAIN rows) = n
  BY <1>2, FS_Interval
<1>4. s \in [1..Count -> Users]
  BY PlayersRead DEF Orders, Count, Bijection, Injection
<1>5. \A i \in 1..n : rows[i] \in Users
  BY <1>2, <1>4
<1> HIDE DEF n, rows
<1>6. table'.entries = Cut(rows, Limit) /\ table'.more = (n > Limit) /\ table'.offset = offset
  BY <1>1, <1>3 DEF LeaderboardTable, n, rows
<1>7. m \in 0..Limit /\ 1..m \subseteq 1..n /\ table'.entries = [i \in 1..m |-> rows[i]]
  BY <1>2, <1>3, <1>6 DEF Cut, Left
<1>. QED BY <1>5, <1>6, <1>7 DEF Range

LEMMA LeadersStep == LeadersInv /\ [LeadersNext]_leaderVars => LeadersInv'
<1>1. SUFFICES ASSUME LeadersInv, [LeadersNext]_leaderVars
               PROVE  LeadersInv'
  OBVIOUS
<1>2. /\ LeadersTypeOK /\ Limit \in Nat \ {0} /\ table.offset \in Nat
      /\ still \subseteq Players /\ seen \subseteq Users /\ Players \subseteq Users
  BY <1>1, PlayersRead DEF LeadersInv, LeadersTypeOK
<1>3. CASE LeaderboardPage
  <2>1. /\ Leaders(0) /\ score' = score /\ fell' = FALSE
        /\ seen' = Range(table'.entries) /\ still' = {u \in Players : Untied(u)}
    BY <1>3 DEF LeaderboardPage
  <2>2. LeadersTypeOK'
    <3>1. 0 \in Nat /\ Leaders(0) /\ LeadersTypeOK
      BY <1>2, <2>1
    <3>2. /\ \E n \in 0..Limit : table'.entries \in [1..n -> Users]
          /\ table'.offset = 0 /\ table'.more \in BOOLEAN
          /\ Range(table'.entries) \subseteq Users
      BY <3>1, LeadersTyped
    <3>3. score' \in [Users -> 0..MaxScore \cup {NoRow}] /\ Players' = Players
      BY <1>2, <2>1, PlayersRead DEF Players
    <3>. QED BY <2>1, <3>1, <3>2, <3>3 DEF LeadersTypeOK
  <2>3. \A u \in still' : Untied(u)'
    BY <2>1 DEF Untied
  <2>4. ASSUME NEW u \in still' \ seen'
        PROVE  table'.more /\ Cardinality(Ahead(u)') >= table'.offset + Limit
    <3>1. u \in Players /\ Untied(u) /\ u \notin Range(table'.entries) /\ Cardinality(Ahead(u)) >= 0
      BY <1>2, <2>1, <2>4, PlayersRead
    <3>2. Ahead(u)' = Ahead(u)
      BY <2>1 DEF Ahead, Players
    <3>. QED BY <1>2, <2>1, <3>1, <3>2, PageShows
  <2>. QED BY <2>2, <2>3, <2>4 DEF LeadersInv
<1>4. CASE LoadMore
  <2>1. /\ Leaders(table.offset + Limit) /\ UNCHANGED <<score, still, fell>>
        /\ seen' = seen \cup Range(table'.entries)
    BY <1>4 DEF LoadMore, NextOffset
  <2>2. table.offset + Limit \in Nat
    BY <1>2
  <2>3. LeadersTypeOK'
    BY <1>2, <2>1, <2>2, LeadersTyped DEF LeadersTypeOK, Players
  <2>4. \A u \in still' : Untied(u)'
    BY <1>1, <2>1 DEF LeadersInv, Untied
  <2>5. ASSUME ~fell, NEW u \in still \ seen'
        PROVE  table'.more /\ Cardinality(Ahead(u)') >= table'.offset + Limit
    <3>1. /\ u \in Players /\ Untied(u) /\ u \notin Range(table'.entries)
          /\ Cardinality(Ahead(u)) >= table.offset + Limit
      BY <1>1, <1>2, <2>1, <2>5 DEF LeadersInv
    <3>2. Ahead(u)' = Ahead(u)
      BY <2>1 DEF Ahead, Players
    <3>. QED BY <1>2, <2>1, <2>2, <3>1, <3>2, PageShows
  <2>. QED BY <2>1, <2>3, <2>4, <2>5 DEF LeadersInv
<1>5. ASSUME NEW w \in Users, UpdatePlayer(w)
      PROVE  LeadersInv'
  <2>1. PICK new \in 0..MaxScore \ {score[w]} : score' = [score EXCEPT ![w] = new]
    BY <1>5 DEF UpdatePlayer
  <2>2. /\ fell' = (fell \/ (score[w] # NoRow /\ score'[w] < score[w]))
        /\ still' = {v \in still \ {w} : score'[w] # score[v]}
        /\ UNCHANGED <<table, seen>>
    BY <1>5 DEF UpdatePlayer
  <2>3. /\ score \in [Users -> 0..MaxScore \cup {NoRow}] /\ score'[w] = new
        /\ \A v \in Users \ {w} : score'[v] = score[v]
        /\ MaxScore \in Nat /\ NoRow \notin Nat /\ new \in Nat
    BY <1>2, <2>1, PlayersRead, LeaderboardAssumption
  <2>4. Players' = Players \cup {w}
    BY <2>3 DEF Players
  <2>5. LeadersTypeOK'
    <3>1. score' \in [Users -> 0..MaxScore \cup {NoRow}]
      BY <2>1, <2>3
    <3>2. still' \subseteq Players' /\ fell' \in BOOLEAN
      BY <1>2, <2>2, <2>4 DEF LeadersTypeOK
    <3>. QED BY <1>2, <2>2, <3>1, <3>2 DEF LeadersTypeOK
  <2>6. \A u \in still' : Untied(u)'
    <3>. SUFFICES ASSUME NEW u \in still', NEW v \in Users \ {u}
                  PROVE  score'[v] # score'[u]
      BY DEF Untied
    <3>1. u \in still /\ u # w /\ u \in Users /\ score'[u] = score[u] /\ Untied(u)
      BY <1>1, <1>2, <2>2, <2>3 DEF LeadersInv
    <3>. QED BY <2>2, <2>3, <3>1 DEF Untied
  <2>7. ASSUME ~fell', NEW u \in still' \ seen'
        PROVE  table'.more /\ Cardinality(Ahead(u)') >= table'.offset + Limit
    <3>1. /\ ~fell /\ u \in still \ seen /\ u # w /\ u \in Users /\ u \in Players
          /\ score'[u] = score[u] /\ score[u] \in Nat
      BY <1>2, <2>2, <2>3, <2>7, PlayersRead
    <3>2. table.more /\ Cardinality(Ahead(u)) >= table.offset + Limit
      BY <1>1, <3>1 DEF LeadersInv
    <3>3. Ahead(u) \subseteq Ahead(u)'
      <4>. SUFFICES ASSUME NEW v \in Players, score[v] > score[u]
                    PROVE  v \in Players' /\ score'[v] > score'[u]
        BY DEF Ahead
      <4>1. CASE v # w
        BY <1>2, <2>3, <2>4, <3>1, <4>1
      <4>2. CASE v = w
        <5>1. score[v] \in Nat /\ ~(score'[v] < score[v])
          BY <2>2, <2>3, <2>7, <4>2, PlayersRead, <1>2 DEF Players
        <5>. QED BY <2>3, <2>4, <3>1, <4>2, <5>1
      <4>. QED BY <4>1, <4>2
    <3>4. IsFiniteSet(Ahead(u)') /\ Cardinality(Ahead(u)') \in Nat /\ Cardinality(Ahead(u)) \in Nat
      <4>1. IsFiniteSet(Players')
        BY <1>2, <2>4, PlayersRead, FS_AddElement
      <4>2. IsFiniteSet(Ahead(u)')
        BY <4>1, FS_Subset DEF Ahead
      <4>. QED BY <1>2, <4>2, PlayersRead, FS_CardinalityType
    <3>5. Cardinality(Ahead(u)) <= Cardinality(Ahead(u)')
      BY <3>3, <3>4, FS_Subset
    <3>. QED BY <1>2, <2>2, <3>2, <3>4, <3>5
  <2>. QED BY <2>5, <2>6, <2>7 DEF LeadersInv
<1>6. CASE UNCHANGED leaderVars
  BY <1>1, <1>6 DEF leaderVars, LeadersInv, LeadersTypeOK, Untied, Ahead, Players
<1>. QED BY <1>1, <1>3, <1>4, <1>5, <1>6 DEF LeadersNext

-----------------------------------------------------------------------------
(* The leaderboards of projects and languages                              *)

BoardRow == [points : 0..MaxPoints, verified : 0..MaxPoints, public : BOOLEAN]

(* The order of rows is strict, and that of languages' rows is the same.   *)
LEMMA RowsOrdered ==
  /\ \A r \in BoardRow : RankedBy(r) \in 0..MaxPoints /\ r.points \in 0..MaxPoints /\ ~Higher(r, r)
  /\ \A r, s \in BoardRow : Higher(r, s) => ~Higher(s, r) /\ RankedBy(r) >= RankedBy(s)
  /\ \A r, s \in BoardRow : ~Higher(r, s) => RankedBy(s) >= RankedBy(r)
  /\ \A r, s, t \in BoardRow : Higher(r, s) /\ Higher(s, t) => Higher(r, t)
<1>1. \A r \in BoardRow : RankedBy(r) \in 0..MaxPoints /\ r.points \in 0..MaxPoints
  BY DEF BoardRow, RankedBy
<1>2. MaxPoints \in Nat
  BY StandingsAssumption
<1>. QED BY <1>1, <1>2 DEF Higher

(* What was above a row that stayed as it was and was never tied, stands   *)
(* above it in the chart, or rose.                                         *)
StandingsInv ==
  /\ StandingsTypeOK
  /\ \A i, j \in DOMAIN chart.entries : i < j => chart.entries[i].points >= chart.entries[j].points
  /\ \A e \in kept : \A f \in Rows(chart.kind) \ {e} : ~Level(e, f)
  /\ \A e \in kept \cap Listed(chart.entries) : \A f \in Rows(chart.kind) :
       Outranks(f, e) => f \in AboveIn(e, chart.entries) \cup risen

LEMMA BoardsRead ==
  ASSUME StandingsTypeOK
  PROVE  /\ \A e \in Contestants : board[e] \in BoardRow
         /\ \A kind : Rows(kind) \subseteq Contestants /\ IsFiniteSet(Rows(kind)) /\ Cardinality(Rows(kind)) \in Nat
         /\ \A l \in Rows("languages") : board[l].verified = 0
         /\ Limit \in Nat \ {0}
<1>1. /\ \A e \in Contestants : board[e] \in BoardRow
      /\ \A l \in Rows("languages") : board[l].verified = 0
  BY DEF StandingsTypeOK, BoardRow, Rows, Entrants
<1>2. \A kind : Rows(kind) \subseteq Contestants
  BY StandingsAssumption DEF Rows, Entrants
<1>3. \A kind : IsFiniteSet(Rows(kind)) /\ Cardinality(Rows(kind)) \in Nat
  BY <1>2, FS_Subset, FS_CardinalityType, StandingsAssumption
<1>. QED BY <1>1, <1>2, <1>3, LeaderboardAssumption

Ranked(kind) == Orders(Rows(kind), Outranks)

Charted(s, m) == [i \in 1..m |-> [of |-> s[i], points |-> RankedBy(board[s[i]])]]

(* Both handlers show the first rows of one order, by what they rank by.   *)
LEMMA ChartsShow ==
  ASSUME StandingsTypeOK, ProjectChart \/ LanguageChart
  PROVE  \E kind \in {"projects", "languages"} : \E s \in Ranked(kind) :
           /\ chart'.kind = kind /\ chart'.more \in BOOLEAN
           /\ chart'.entries = Charted(s, Left(Cardinality(Rows(kind)), Limit, 0))
           /\ Since(kind)
<1>1. Limit \in Nat \ {0}
  BY BoardsRead
<1>2. ASSUME NEW n \in Nat, NEW s
      PROVE  LET rows == [i \in 1..Left(n, Limit + 1, 0) |-> s[i]]
                 m == Left(n, Limit, 0)
             IN  /\ m \in 0..Limit /\ m <= n
                 /\ DOMAIN Cut(rows, Limit) = 1..m
                 /\ \A i \in 1..m : rows[i] = s[i]
  <2>1. Left(n, Limit + 1, 0) \in Nat /\ Left(n, Limit, 0) \in 0..Limit /\ Left(n, Limit, 0) <= n
    BY <1>1, <1>2 DEF Left
  <2>2. Cardinality(1..Left(n, Limit + 1, 0)) = Left(n, Limit + 1, 0)
    BY <2>1, FS_Interval
  <2>3. Left(Left(n, Limit + 1, 0), Limit, 0) = Left(n, Limit, 0) /\ Left(n, Limit, 0) <= Left(n, Limit + 1, 0)
    BY <1>1, <1>2 DEF Left
  <2>. QED BY <1>1, <2>1, <2>2, <2>3 DEF Cut
<1>3. CASE ProjectChart
  <2>1. PICK rows \in GetProjectLeaderboard(Limit + 1) : chart' = ProjectLeaderboardTable(rows)
    BY <1>3 DEF ProjectChart
  <2>2. PICK s \in Ranked("projects") : rows = [i \in 1..Left(Cardinality(DOMAIN s), Limit + 1, 0) |-> s[i]]
    BY <2>1 DEF GetProjectLeaderboard, First, Ranked
  <2>3. Cardinality(DOMAIN s) = Cardinality(Rows("projects")) /\ Cardinality(Rows("projects")) \in Nat
    <3>1. DOMAIN s = 1..Cardinality(Rows("projects"))
      BY DEF Ranked, Orders, Bijection, Injection
    <3>. QED BY <3>1, BoardsRead, FS_Interval
  <2>4. \A e : ProjectLeaderboardRow(e) = [of |-> e, points |-> RankedBy(board[e])]
    BY DEF ProjectLeaderboardRow, RankedBy
  <2>5. chart'.entries = [i \in DOMAIN Cut(rows, Limit) |-> ProjectLeaderboardRow(rows[i])]
    BY <2>1 DEF ProjectLeaderboardTable
  <2> DEFINE m == Left(Cardinality(Rows("projects")), Limit, 0)
  <2>6. DOMAIN Cut(rows, Limit) = 1..m /\ \A i \in 1..m : rows[i] = s[i]
    BY <1>1, <1>2, <2>2, <2>3
  <2>7. chart'.entries = Charted(s, m)
    BY <2>4, <2>5, <2>6 DEF Charted
  <2>8. chart'.kind = "projects" /\ chart'.more \in BOOLEAN /\ Since("projects")
    BY <1>3, <2>1 DEF ProjectChart, ProjectLeaderboardTable
  <2>. QED BY <2>7, <2>8
<1>4. CASE LanguageChart
  <2>1. PICK rows \in GetLanguageLeaderboard(Limit + 1) : chart' = LanguageLeaderboardTable(rows)
    BY <1>4 DEF LanguageChart
  <2>2. PICK s \in Orders(Rows("languages"), HasMorePoints) :
          rows = [i \in 1..Left(Cardinality(DOMAIN s), Limit + 1, 0) |-> s[i]]
    BY <2>1 DEF GetLanguageLeaderboard, First
  <2>3. /\ s \in Bijection(1..Cardinality(Rows("languages")), Rows("languages"))
        /\ \A i, j \in 1..Cardinality(Rows("languages")) : i < j => ~HasMorePoints(s[j], s[i])
    BY DEF Orders
  <2>4. /\ Cardinality(DOMAIN s) = Cardinality(Rows("languages")) /\ Cardinality(Rows("languages")) \in Nat
        /\ \A i \in 1..Cardinality(Rows("languages")) : s[i] \in Rows("languages")
    <3>1. DOMAIN s = 1..Cardinality(Rows("languages"))
      BY <2>3 DEF Bijection, Injection
    <3>2. Cardinality(DOMAIN s) = Cardinality(Rows("languages")) /\ Cardinality(Rows("languages")) \in Nat
      BY <3>1, BoardsRead, FS_Interval
    <3>3. \A i \in 1..Cardinality(Rows("languages")) : s[i] \in Rows("languages")
      BY <2>3 DEF Bijection, Injection
    <3>. QED BY <3>2, <3>3
  <2>5. \A e \in Rows("languages") : RankedBy(board[e]) = board[e].points /\ board[e].points \in Nat
    BY BoardsRead, RowsOrdered, StandingsAssumption DEF RankedBy
  <2>6. \A e, f \in Rows("languages") : Outranks(e, f) <=> HasMorePoints(e, f)
    BY <2>5 DEF Outranks, Higher, HasMorePoints
  <2>7. s \in Ranked("languages")
    BY <2>3, <2>4, <2>6 DEF Ranked, Orders
  <2>8. chart'.entries = [i \in DOMAIN Cut(rows, Limit) |-> LanguageLeaderboardRow(rows[i])]
    BY <2>1 DEF LanguageLeaderboardTable
  <2> DEFINE m == Left(Cardinality(Rows("languages")), Limit, 0)
  <2>9. /\ DOMAIN Cut(rows, Limit) = 1..m
        /\ \A i \in 1..m : rows[i] = s[i] /\ s[i] \in Rows("languages")
    BY <1>1, <1>2, <2>2, <2>4
  <2>10. chart'.entries = Charted(s, m)
    BY <2>5, <2>8, <2>9 DEF Charted, LanguageLeaderboardRow
  <2>11. chart'.kind = "languages" /\ chart'.more \in BOOLEAN /\ Since("languages")
    BY <1>4, <2>1 DEF LanguageChart, LanguageLeaderboardTable
  <2>. QED BY <2>7, <2>10, <2>11
<1>. QED BY <1>3, <1>4

(* Above an untied row stand the rows that outrank it, and if it is among  *)
(* those shown, all of them.                                               *)
LEMMA ChartRanks ==
  ASSUME StandingsTypeOK, NEW kind \in {"projects", "languages"}, NEW s \in Ranked(kind)
  PROVE  LET entries == Charted(s, Left(Cardinality(Rows(kind)), Limit, 0))
         IN  /\ \E n \in 0..Limit : entries \in [1..n -> [of : Contestants, points : 0..MaxPoints]]
             /\ \A i, j \in DOMAIN entries : i < j => entries[i].points >= entries[j].points
             /\ \A e \in Rows(kind) : (\A f \in Rows(kind) \ {e} : ~Level(e, f)) =>
                  \A f \in AboveIn(e, entries) : f \in Rows(kind) /\ Outranks(f, e)
             /\ \A e \in Listed(entries) : \A f \in Rows(kind) :
                  Outranks(f, e) => f \in AboveIn(e, entries)
<1> DEFINE n == Cardinality(Rows(kind))
           m == Left(n, Limit, 0)
           entries == Charted(s, m)
<1>1. /\ n \in Nat /\ m \in 0..Limit /\ m <= n /\ Limit \in Nat
      /\ \A e \in Rows(kind) : e \in Contestants /\ board[e] \in BoardRow
  BY BoardsRead DEF Left
<1>2. /\ \A i \in 1..n : s[i] \in Rows(kind)
      /\ \A i, j \in 1..n : s[i] = s[j] => i = j
      /\ \A e \in Rows(kind) : \E i \in 1..n : s[i] = e
      /\ \A i, j \in 1..n : i < j => ~Outranks(s[j], s[i])
  BY DEF Ranked, Orders, Bijection, Injection, Surjection, IsInjective
<1>3. /\ DOMAIN entries = 1..m
      /\ \A i \in 1..m : entries[i].of = s[i] /\ entries[i].points = RankedBy(board[s[i]])
  BY DEF Charted
<1>4. entries \in [1..m -> [of : Contestants, points : 0..MaxPoints]]
  <2>1. \A i \in 1..m : i \in 1..n /\ s[i] \in Contestants /\ RankedBy(board[s[i]]) \in 0..MaxPoints
    BY <1>1, <1>2, RowsOrdered
  <2>. QED BY <2>1 DEF Charted
<1> HIDE DEF n, m, entries
<1>5. ASSUME NEW i \in 1..m, NEW j \in 1..m, i < j
      PROVE  entries[i].points >= entries[j].points
  <2>1. i \in 1..n /\ j \in 1..n
    BY <1>1
  <2>2. ~Higher(board[s[j]], board[s[i]])
    BY <1>2, <1>5, <2>1 DEF Outranks
  <2>. QED BY <1>1, <1>2, <1>3, <2>1, <2>2, RowsOrdered
<1>6. ASSUME NEW e \in Rows(kind), \A f \in Rows(kind) \ {e} : ~Level(e, f), NEW f \in AboveIn(e, entries)
      PROVE  f \in Rows(kind) /\ Outranks(f, e)
  <2>1. PICK j \in 1..m : f = entries[j].of /\ \A i \in 1..m : entries[i].of = e => j < i
    BY <1>3, <1>6 DEF AboveIn
  <2>2. PICK k \in 1..n : s[k] = e
    BY <1>2
  <2>3. f = s[j] /\ j \in 1..n /\ j < k
    BY <1>1, <1>3, <2>1, <2>2
  <2>4. f \in Rows(kind) \ {e} /\ ~Outranks(e, f)
    BY <1>1, <1>2, <2>2, <2>3
  <2>. QED BY <1>6, <2>4 DEF Level
<1>7. ASSUME NEW e \in Listed(entries), NEW f \in Rows(kind), Outranks(f, e)
      PROVE  f \in AboveIn(e, entries)
  <2>1. PICK k \in 1..m : e = s[k]
    BY <1>3, <1>7 DEF Listed
  <2>2. PICK j \in 1..n : f = s[j]
    BY <1>2
  <2>3. ~Outranks(e, e)
    BY <1>1, <1>2, <2>1, RowsOrdered DEF Outranks
  <2>4. j < k
    BY <1>1, <1>2, <1>7, <2>1, <2>2, <2>3
  <2>5. \A i \in 1..m : entries[i].of = e => i = k
    BY <1>1, <1>2, <1>3, <2>1
  <2>6. j \in 1..m /\ f = entries[j].of
    BY <1>1, <1>3, <2>2, <2>4
  <2>. QED BY <1>3, <2>4, <2>5, <2>6 DEF AboveIn
<1>. QED BY <1>1, <1>3, <1>4, <1>5, <1>6, <1>7 DEF entries, m, n

LEMMA ChartIsRead ==
  ASSUME StandingsInv, ProjectChart \/ LanguageChart
  PROVE  StandingsInv' /\ PlacesKept
<1>1. StandingsTypeOK
  BY DEF StandingsInv
<1>0. PICK kind \in {"projects", "languages"} : \E s \in Ranked(kind) :
        /\ chart'.kind = kind /\ chart'.more \in BOOLEAN
        /\ chart'.entries = Charted(s, Left(Cardinality(Rows(kind)), Limit, 0))
        /\ Since(kind)
  BY <1>1, ChartsShow
<1>2. PICK s \in Ranked(kind) :
        /\ chart'.kind = kind /\ chart'.more \in BOOLEAN
        /\ chart'.entries = Charted(s, Left(Cardinality(Rows(kind)), Limit, 0))
        /\ Since(kind)
  BY <1>0
<1>3. /\ \E n \in 0..Limit : chart'.entries \in [1..n -> [of : Contestants, points : 0..MaxPoints]]
      /\ \A i, j \in DOMAIN chart'.entries : i < j => chart'.entries[i].points >= chart'.entries[j].points
      /\ \A e \in Rows(kind) : (\A f \in Rows(kind) \ {e} : ~Level(e, f)) =>
           \A f \in AboveIn(e, chart'.entries) : f \in Rows(kind) /\ Outranks(f, e)
      /\ \A e \in Listed(chart'.entries) : \A f \in Rows(kind) :
           Outranks(f, e) => f \in AboveIn(e, chart'.entries)
  BY <1>1, <1>2, ChartRanks
<1>4. /\ kept' = {e \in Rows(kind) : \A f \in Rows(kind) \ {e} : ~Level(e, f)}
      /\ risen' = {} /\ board' = board
  BY <1>2 DEF Since
<1>5. /\ Rows(kind)' = Rows(kind)
      /\ \A e, f : (Level(e, f)' <=> Level(e, f)) /\ (Outranks(e, f)' <=> Outranks(e, f))
  BY <1>4 DEF Rows, Level, Outranks
<1>6. Rows(chart.kind)' = Rows(kind)
  BY <1>2, <1>4 DEF Rows
<1>7. StandingsTypeOK'
  <2>1. kept' \subseteq Rows(chart.kind)' /\ risen' \subseteq Contestants
    BY <1>4, <1>6
  <2>. QED BY <1>1, <1>2, <1>3, <1>4, <2>1 DEF StandingsTypeOK
<1>8. \A e \in kept' : \A f \in Rows(chart.kind)' \ {e} : ~Level(e, f)'
  BY <1>4, <1>5, <1>6
<1>9. \A e \in kept' \cap Listed(chart'.entries) : \A f \in Rows(chart.kind)' :
        Outranks(f, e)' => f \in AboveIn(e, chart'.entries) \cup risen'
  BY <1>3, <1>5, <1>6
<1>10. StandingsInv'
  BY <1>3, <1>7, <1>8, <1>9 DEF StandingsInv, Listed, AboveIn
<1>11. ASSUME chart'.kind = chart.kind, NEW e \in kept \cap Listed(chart.entries),
              NEW f \in AboveIn(e, chart'.entries)
       PROVE  f \in AboveIn(e, chart.entries) \cup risen
  <2>1. e \in Rows(kind) /\ \A g \in Rows(kind) \ {e} : ~Level(e, g)
    BY <1>1, <1>2, <1>11 DEF StandingsInv, StandingsTypeOK
  <2>2. f \in Rows(kind) /\ Outranks(f, e)
    BY <1>3, <1>11, <2>1
  <2>. QED BY <1>2, <1>11, <2>2 DEF StandingsInv
<1>. QED BY <1>3, <1>10, <1>11 DEF PlacesKept

LEMMA WriteKeeps ==
  ASSUME StandingsInv, NEW x \in Contestants, NEW row \in BoardRow, Write(x, row),
         x \in Languages => row.verified = 0 /\ row.public,
         row.points = 0 \/ board[x].points > 0 \/ Higher(row, board[x])
  PROVE  StandingsInv'
<1>1. /\ board' = [board EXCEPT ![x] = row] /\ chart' = chart
      /\ risen' = IF Higher(row, board[x]) \/ (row.public /\ ~board[x].public) THEN risen \cup {x} ELSE risen
      /\ kept' = {s \in kept \ {x} : ~Level(s, x)'}
  BY DEF Write
<1>2. /\ StandingsTypeOK /\ board \in [Contestants -> BoardRow]
      /\ kept \subseteq Rows(chart.kind) /\ risen \subseteq Contestants
  BY DEF StandingsInv, StandingsTypeOK, BoardRow
<1>3. /\ board' \in [Contestants -> BoardRow] /\ board'[x] = row
      /\ \A e \in Contestants \ {x} : board'[e] = board[e]
  BY <1>1, <1>2
<1>4. \A e \in Contestants \ {x} : e \in Rows(chart.kind) <=> e \in Rows(chart.kind)'
  BY <1>1, <1>3 DEF Rows
<1>5. \A e, f \in Contestants \ {x} :
        (Level(e, f)' <=> Level(e, f)) /\ (Outranks(e, f)' <=> Outranks(e, f))
  BY <1>3 DEF Level, Outranks
<1>6. Rows(chart.kind) \subseteq Contestants /\ Rows(chart.kind)' \subseteq Contestants
  BY StandingsAssumption DEF Rows, Entrants
<1>7. StandingsTypeOK'
  <2>1. kept' \subseteq Rows(chart.kind)' /\ risen' \subseteq Contestants
    BY <1>1, <1>2, <1>4, <1>6
  <2>2. \A l \in Languages : board'[l].verified = 0 /\ board'[l].public
    <3>. SUFFICES ASSUME NEW l \in Languages PROVE board'[l].verified = 0 /\ board'[l].public
      OBVIOUS
    <3>1. l \in Contestants
      BY StandingsAssumption
    <3>. QED BY <1>2, <1>3, <3>1 DEF StandingsTypeOK
  <2>. QED BY <1>1, <1>2, <1>3, <2>1, <2>2 DEF StandingsTypeOK, BoardRow
<1>8. ASSUME NEW e \in kept', NEW f \in Rows(chart.kind)', f # e
      PROVE  ~Level(e, f)'
  <2>1. e \in kept /\ e # x /\ ~Level(e, x)' /\ e \in Contestants /\ f \in Contestants
    BY <1>1, <1>2, <1>6
  <2>2. CASE f = x
    BY <2>1, <2>2
  <2>3. CASE f # x
    <3>1. f \in Rows(chart.kind) \ {e}
      BY <1>4, <1>8, <2>1, <2>3
    <3>2. ~Level(e, f)
      BY <2>1, <3>1 DEF StandingsInv
    <3>. QED BY <1>5, <2>1, <2>3, <3>2
  <2>. QED BY <2>2, <2>3
<1>9. ASSUME NEW e \in kept' \cap Listed(chart.entries), NEW f \in Rows(chart.kind)', Outranks(f, e)'
      PROVE  f \in AboveIn(e, chart.entries) \cup risen'
  <2>1. /\ e \in kept \cap Listed(chart.entries) /\ e # x /\ e \in Contestants /\ f \in Contestants
        /\ e \in Rows(chart.kind) /\ risen \subseteq risen'
    BY <1>1, <1>2, <1>6, <1>9
  <2>2. ASSUME f \in Rows(chart.kind), Outranks(f, e)
        PROVE  f \in AboveIn(e, chart.entries) \cup risen'
    BY <2>1, <2>2 DEF StandingsInv
  <2>3. CASE f # x
    BY <1>4, <1>5, <1>9, <2>1, <2>2, <2>3
  <2>4. CASE f = x /\ x \notin Rows(chart.kind)
    <3>1. row.points > 0 /\ row.public /\ x \in Entrants(chart.kind)
      BY <1>1, <1>3, <1>9, <2>4 DEF Rows
    <3>2. ~(board[x].points > 0) \/ ~board[x].public
      BY <2>4, <3>1 DEF Rows
    <3>3. row.points # 0
      BY <3>1, RowsOrdered, StandingsAssumption
    <3>. QED BY <1>1, <2>4, <3>1, <3>2, <3>3
  <2>5. CASE f = x /\ x \in Rows(chart.kind) /\ ~Outranks(x, e)
    <3>1. ~Level(e, x)
      BY <2>1, <2>5 DEF StandingsInv
    <3>2. Higher(board[e], board[x]) /\ Higher(row, board[e])
      BY <1>3, <1>9, <2>1, <2>5, <3>1 DEF Level, Outranks
    <3>3. Higher(row, board[x])
      BY <1>2, <2>1, <3>2, RowsOrdered
    <3>. QED BY <1>1, <2>5, <3>3
  <2>. QED BY <2>2, <2>3, <2>4, <2>5
<1>10. \A e \in kept' : \A f \in Rows(chart.kind)' \ {e} : ~Level(e, f)'
  BY <1>8
<1>. QED BY <1>1, <1>7, <1>9, <1>10 DEF StandingsInv, Listed, AboveIn

LEMMA StandingsBegin == StandingsInit => StandingsInv
<1>. SUFFICES ASSUME StandingsInit PROVE StandingsInv
  OBVIOUS
<1>1. 0 \in 0..Limit /\ <<>> \in [1..0 -> [of : Contestants, points : 0..MaxPoints]]
  BY LeaderboardAssumption
<1>2. StandingsTypeOK
  BY <1>1, StandingsAssumption DEF StandingsInit, StandingsTypeOK
<1>. QED BY <1>2 DEF StandingsInit, StandingsInv

LEMMA StandingsStep == StandingsInv /\ [StandingsNext]_standingVars => StandingsInv' /\ [PlacesKept]_standingVars
<1>. SUFFICES ASSUME StandingsInv, [StandingsNext]_standingVars
              PROVE  StandingsInv' /\ [PlacesKept]_standingVars
  OBVIOUS
<1>1. /\ board \in [Contestants -> BoardRow] /\ MaxPoints \in Nat
      /\ \A l \in Languages : board[l].verified = 0 /\ board[l].public
  BY StandingsAssumption DEF StandingsInv, StandingsTypeOK, BoardRow
<1>2. CASE ProjectChart \/ LanguageChart
  BY <1>2, ChartIsRead
<1>3. (StandingsInv /\ chart' = chart) => PlacesKept
  BY DEF StandingsInv, PlacesKept, AboveIn
<1>4. ASSUME NEW e \in Contestants, AddPoints(e)
      PROVE  StandingsInv' /\ PlacesKept
  <2>1. PICK n \in (board[e].points + 1)..MaxPoints : Write(e, [board[e] EXCEPT !.points = n])
    BY <1>4 DEF AddPoints
  <2>2. board[e] \in BoardRow /\ board[e].points \in Nat /\ n \in Nat /\ n > board[e].points /\ n \in 0..MaxPoints
    BY <1>1, <2>1 DEF BoardRow
  <2> DEFINE row == [board[e] EXCEPT !.points = n]
  <2>3. row \in BoardRow /\ row.points = n /\ row.verified = board[e].verified /\ row.public = board[e].public
    BY <2>2 DEF BoardRow
  <2>4. Higher(row, board[e])
    BY <2>2, <2>3 DEF Higher, RankedBy
  <2> HIDE DEF row
  <2>5. Write(e, row)
    BY <2>1 DEF row
  <2>6. StandingsInv'
    BY <1>1, <2>3, <2>4, <2>5, WriteKeeps
  <2>. QED BY <1>3, <2>5, <2>6 DEF Write
<1>5. ASSUME NEW e \in Contestants, VerifyPoints(e)
      PROVE  StandingsInv' /\ PlacesKept
  <2>1. PICK n \in 0..MaxPoints : Write(e, [board[e] EXCEPT !.verified = n])
    BY <1>5 DEF VerifyPoints
  <2>2. board[e] \in BoardRow /\ e \notin Languages /\ board[e].points > 0
    BY <1>1, <1>5 DEF VerifyPoints
  <2> DEFINE row == [board[e] EXCEPT !.verified = n]
  <2>3. row \in BoardRow
    BY <2>2 DEF BoardRow
  <2> HIDE DEF row
  <2>4. Write(e, row)
    BY <2>1 DEF row
  <2>5. StandingsInv'
    BY <2>2, <2>3, <2>4, WriteKeeps
  <2>. QED BY <1>3, <2>4, <2>5 DEF Write
<1>6. ASSUME NEW e \in Contestants, HideOrShow(e)
      PROVE  StandingsInv' /\ PlacesKept
  <2> DEFINE row == [board[e] EXCEPT !.public = ~board[e].public]
  <2>1. Write(e, row) /\ e \notin Languages /\ board[e] \in BoardRow
    BY <1>1, <1>6 DEF HideOrShow
  <2>2. board[e].points \in 0..MaxPoints /\ row \in BoardRow /\ row.points = board[e].points
    BY <2>1 DEF BoardRow
  <2> HIDE DEF row
  <2>3. row.points = 0 \/ board[e].points > 0
    BY <1>1, <2>2
  <2>4. StandingsInv'
    BY <2>1, <2>2, <2>3, WriteKeeps
  <2>. QED BY <1>3, <2>1, <2>4 DEF Write
<1>7. CASE UNCHANGED standingVars
  BY <1>7 DEF standingVars, StandingsInv, StandingsTypeOK, Rows, Level, Outranks, Listed, AboveIn
<1>. QED BY <1>2, <1>4, <1>5, <1>6, <1>7 DEF StandingsNext

-----------------------------------------------------------------------------
(* The pages of a game                                                     *)

Worth == CommitPoints + ProjectPoints

(* What the tables promise of a board: no more credits than commits placed *)
(* on it, and no more points than these credits are worth.                 *)
BoardInv(b) ==
  /\ credits[b] <= Cardinality(Ledger!Placed(b))
  /\ points[b] <= credits[b] * Worth

PageOf ==
  /\ page.kind = "home" => page.of \in Games
  /\ page.kind \in {"card", "project"} => page.of \in Ledger!BoardId

HomeInv ==
  page.kind = "home" =>
    /\ page.stats <= Cardinality(InGame(page.of))
    /\ page.read >= 2 => page.stats <= Cardinality(Marks(page.bars))
    /\ page.read = 3 => Cardinality(page.recent) >= Min({page.stats, RecentLimit})

CardInv ==
  page.kind = "card" =>
    /\ page.count <= credits[page.of] /\ page.points <= credits[page.of] * Worth
    /\ page.read >= 2 /\ page.inMonth => page.count <= page.month
    /\ page.read = 3 => page.count <= page.commits /\ page.points <= page.commits * Worth

ProjectInv ==
  page.kind = "project" =>
    /\ page.month <= Cardinality(Ledger!Placed(page.of))
    /\ page.read >= 2 => page.commits <= Cardinality(Ledger!Placed(page.of))
    /\ page.read = 3 =>
         Cardinality(page.recent) >= Min({RecentLimit, Max({page.month, page.commits})})

(* What has been read of a page is covered by the tables as they are.      *)
PagesInv ==
  /\ PagesTypeOK /\ PageOf
  /\ \A b \in Ledger!BoardId : BoardInv(b)
  /\ page.ok => HomeInv /\ CardInv /\ ProjectInv

LEMMA Maximum ==
  /\ \A a, b \in Nat : Max({a, b}) = (IF a >= b THEN a ELSE b)
  /\ \A a, b \in Nat : Min({a, b}) = (IF a <= b THEN a ELSE b)
<1>1. ASSUME NEW a \in Nat, NEW b \in Nat
      PROVE  Max({a, b}) = (IF a >= b THEN a ELSE b)
  <2>1. \E x \in {a, b} : \A y \in {a, b} : x >= y
    OBVIOUS
  <2>2. Max({a, b}) \in {a, b} /\ \A y \in {a, b} : Max({a, b}) >= y
    BY <2>1 DEF Max
  <2>. QED BY <2>2
<1>2. ASSUME NEW a \in Nat, NEW b \in Nat
      PROVE  Min({a, b}) = (IF a <= b THEN a ELSE b)
  <2>1. \E x \in {a, b} : \A y \in {a, b} : x <= y
    OBVIOUS
  <2>2. Min({a, b}) \in {a, b} /\ \A y \in {a, b} : Min({a, b}) <= y
    BY <2>1 DEF Min
  <2>. QED BY <2>2
<1>. QED BY <1>1, <1>2

LEMMA MaximumIs ==
  ASSUME NEW S, IsFiniteSet(S), S \subseteq Nat, S # {}
  PROVE  Max(S) \in S /\ \A y \in S : Max(S) >= y
<1>1. \E x \in S : \A y \in S : x >= y
  BY Extremes
<1>. QED BY <1>1 DEF Max

LEMMA Times ==
  ASSUME NEW k \in Nat
  PROVE  /\ \A n \in Nat : n * k \in Nat /\ (n + 1) * k = n * k + k
         /\ \A n, m \in Nat : n <= m => n * k <= m * k
OBVIOUS

LEMMA Divided ==
  ASSUME NEW b \in Nat, NEW m \in Nat \ {0}, b <= m
  PROVE  (b * 100) \div m \in 0..100 /\ (m * 100) \div m = 100
<1> DEFINE q == (b * 100) \div m
           r == (m * 100) \div m
<1>1. q \in Int /\ q * m <= b * 100 /\ b * 100 < (q + 1) * m
  OBVIOUS
<1>2. r \in Int /\ r * m <= m * 100 /\ m * 100 < (r + 1) * m
  OBVIOUS
<1>. HIDE DEF q, r
<1>3. q >= 0
  <2>. SUFFICES ASSUME q + 1 <= 0 PROVE FALSE
    BY <1>1
  <2>1. (q + 1) * m <= 0
    BY <1>1
  <2>. QED BY <1>1, <2>1
<1>4. q <= 100
  <2>. SUFFICES ASSUME q >= 101 PROVE FALSE
    BY <1>1
  <2>1. q * m >= 101 * m
    BY <1>1
  <2>. QED BY <1>1, <2>1
<1>5. r <= 100
  <2>. SUFFICES ASSUME r >= 101 PROVE FALSE
    BY <1>2
  <2>1. r * m >= 101 * m
    BY <1>2
  <2>. QED BY <1>2, <2>1
<1>6. r >= 100
  <2>. SUFFICES ASSUME r + 1 <= 100 PROVE FALSE
    BY <1>2
  <2>1. (r + 1) * m <= 100 * m
    BY <1>2
  <2>. QED BY <1>2, <2>1
<1>. QED BY <1>1, <1>2, <1>3, <1>4, <1>5, <1>6 DEF q, r

LEMMA CommitSets ==
  ASSUME NEW S, S \subseteq Commits
  PROVE  IsFiniteSet(S) /\ Cardinality(S) \in Nat
         /\ \A T \in SUBSET S : Cardinality(T) \in Nat /\ Cardinality(T) <= Cardinality(S)
BY PagesAssumption, FS_Subset, FS_CardinalityType

(* The histogram of a set of commits has a mark for each of them.          *)
LEMMA MarkForEach ==
  ASSUME NEW S, S \subseteq Commits, NEW bars,
         bars = [d \in Days |-> Cardinality({c \in S : DayOf[c] = d})]
  PROVE  Cardinality(Marks(bars)) = Cardinality(S)
<1> DEFINE On(d) == {c \in S : DayOf[c] = d}
           numbers(d) == CHOOSE f : f \in Bijection(1..bars[d], On(d))
           number == [d \in Days |-> numbers(d)]
<1>1. ASSUME NEW d \in Days
      PROVE  bars[d] \in Nat /\ number[d] \in Bijection(1..bars[d], On(d))
  <2>1. IsFiniteSet(On(d)) /\ Cardinality(On(d)) \in Nat /\ bars[d] = Cardinality(On(d))
    BY CommitSets
  <2>2. \E f : f \in Bijection(1..bars[d], On(d))
    BY <2>1, FS_CardinalityType DEF ExistsBijection
  <2>. QED BY <2>1, <2>2
<1>. HIDE DEF number
<1>2. \A d \in Days : \A i \in 1..bars[d] : number[d][i] \in S /\ DayOf[number[d][i]] = d
  BY <1>1 DEF Bijection, Injection
<1>3. \A d \in Days : \A i, j \in 1..bars[d] : number[d][i] = number[d][j] => i = j
  BY <1>1 DEF Bijection, Injection, IsInjective
<1>4. \A c \in S : DayOf[c] \in Days /\ \E i \in 1..bars[DayOf[c]] : number[DayOf[c]][i] = c
  <2>1. \A c \in S : DayOf[c] \in Days /\ c \in On(DayOf[c])
    BY PagesAssumption
  <2>2. \A d \in Days : \A c \in On(d) : \E i \in 1..bars[d] : number[d][i] = c
    BY <1>1 DEF Bijection, Surjection
  <2>. QED BY <2>1, <2>2
<1> DEFINE mark == [c \in S |-> <<DayOf[c], CHOOSE i \in 1..bars[DayOf[c]] : number[DayOf[c]][i] = c>>]
<1>5. \A c \in S : /\ mark[c][1] = DayOf[c] /\ mark[c] = <<mark[c][1], mark[c][2]>>
                   /\ mark[c][2] \in 1..bars[DayOf[c]] /\ number[DayOf[c]][mark[c][2]] = c
  <2>. SUFFICES ASSUME NEW c \in S
                PROVE  /\ mark[c][1] = DayOf[c] /\ mark[c] = <<mark[c][1], mark[c][2]>>
                       /\ mark[c][2] \in 1..bars[DayOf[c]] /\ number[DayOf[c]][mark[c][2]] = c
    BY Zenon
  <2>. DEFINE j == CHOOSE i \in 1..bars[DayOf[c]] : number[DayOf[c]][i] = c
  <2>1. j \in 1..bars[DayOf[c]] /\ number[DayOf[c]][j] = c
    BY <1>4
  <2>2. mark[c] = <<DayOf[c], j>>
    BY Zenon
  <2>. HIDE DEF mark, j
  <2>. QED BY <2>1, <2>2
<1>6. \A m : m \in Marks(bars) <=> \E d \in Days : \E i \in 1..bars[d] : m = <<d, i>>
  <2>1. \A m : m \in Marks(bars) <=> \E T \in {{<<d, i>> : i \in 1..bars[d]} : d \in Days} : m \in T
    BY DEF Marks
  <2>2. ASSUME NEW m \in Marks(bars)
        PROVE  \E d \in Days : \E i \in 1..bars[d] : m = <<d, i>>
    <3>1. PICK T \in {{<<d, i>> : i \in 1..bars[d]} : d \in Days} : m \in T
      BY <2>1, Zenon
    <3>2. PICK d \in Days : T = {<<d, i>> : i \in 1..bars[d]}
      BY <3>1
    <3>. QED BY <3>1, <3>2
  <2>3. ASSUME NEW d \in Days, NEW i \in 1..bars[d]
        PROVE  <<d, i>> \in Marks(bars)
    <3>1. <<d, i>> \in {<<d, k>> : k \in 1..bars[d]}
      OBVIOUS
    <3>. DEFINE marks == {<<d, k>> : k \in 1..bars[d]}
    <3>2. marks \in {{<<e, k>> : k \in 1..bars[e]} : e \in Days}
      BY Zenon
    <3>. QED BY <2>1, <3>1, <3>2, Zenon
  <2>. QED BY <2>2, <2>3, Zenon
<1>7. mark \in [S -> Marks(bars)]
  <2>. SUFFICES ASSUME NEW c \in S PROVE mark[c] \in Marks(bars)
    BY DEF mark
  <2>. QED BY <1>4, <1>5, <1>6
<1>8. \A c, e \in S : mark[c] = mark[e] => c = e
  <2>. SUFFICES ASSUME NEW c \in S, NEW e \in S, mark[c] = mark[e] PROVE c = e
    OBVIOUS
  <2>. HIDE DEF mark
  <2>. QED BY <1>5
<1>9. \A m \in Marks(bars) : \E c \in S : mark[c] = m
  <2>. SUFFICES ASSUME NEW m \in Marks(bars) PROVE \E c \in S : mark[c] = m
    OBVIOUS
  <2>0. PICK d \in Days : \E i \in 1..bars[d] : m = <<d, i>>
    BY <1>6
  <2>1. PICK i \in 1..bars[d] : m = <<d, i>>
    BY <2>0
  <2>. DEFINE c == number[d][i]
  <2>2. c \in S /\ DayOf[c] = d
    BY <1>2
  <2>. HIDE DEF mark, c
  <2>3. mark[c] = <<d, mark[c][2]>> /\ mark[c][2] \in 1..bars[d] /\ number[d][mark[c][2]] = c
    BY <1>5, <2>2
  <2>4. mark[c][2] = i
    BY <1>3, <2>3 DEF c
  <2>. QED BY <2>1, <2>2, <2>3, <2>4
<1>. HIDE DEF mark
<1>10. mark \in Bijection(S, Marks(bars))
  BY <1>7, <1>8, <1>9 DEF Bijection, Injection, Surjection, IsInjective
<1>. QED BY <1>10, CommitSets, FS_Bijection DEF ExistsBijection

(* With a commit counted, the highest bar fills the histogram.             *)
LEMMA HighestBar ==
  ASSUME page.bars \in [Days -> Nat], Cardinality(Marks(page.bars)) # 0
  PROVE  Max({CommitHistogram[d].height : d \in Days}) = 100
<1> DEFINE counts == {page.bars[d] : d \in Days}
           top == MaxDayCommits
           heights == {CommitHistogram[d].height : d \in Days}
<1>1. PICK d \in Days : page.bars[d] # 0
  <2>1. Marks(page.bars) # {}
    BY FS_EmptySet
  <2>2. PICK d \in Days : {<<d, i>> : i \in 1..page.bars[d]} # {}
    BY <2>1 DEF Marks
  <2>. QED BY <2>2
<1>2. IsFiniteSet(counts) /\ counts \subseteq Nat /\ counts # {}
  <2>1. page.bars \in Surjection(Days, counts)
    BY DEF Surjection
  <2>. QED BY <1>1, <2>1, PagesAssumption, FS_Surjection
<1>3. top \in counts /\ \A n \in counts : top >= n
  BY <1>2, MaximumIs DEF MaxDayCommits
<1>4. top \in Nat \ {0} /\ \A e \in Days : page.bars[e] \in Nat /\ page.bars[e] <= top
  BY <1>1, <1>2, <1>3
<1>5. \A e \in Days : CommitHistogram[e].height = Max({5, (page.bars[e] * 100) \div top})
  <2>1. \A e \in Days : CommitHistogram[e].height = HistogramBar(e)
    BY DEF CommitHistogram
  <2>2. top > 0
    BY <1>4
  <2>. QED BY <2>1, <2>2, Zenon DEF HistogramBar
<1>6. PICK e \in Days : page.bars[e] = top
  BY <1>3
<1>. HIDE DEF top, counts
<1>7. \A f \in Days : /\ (page.bars[f] * 100) \div top \in 0..100
                      /\ (top * 100) \div top = 100
  BY <1>4, Divided
<1>8. \A n \in 0..100 : Max({5, n}) \in 0..100 /\ (n = 100 => Max({5, n}) = 100)
  <2>. SUFFICES ASSUME NEW n \in 0..100
                PROVE  Max({5, n}) \in 0..100 /\ (n = 100 => Max({5, n}) = 100)
    BY Zenon
  <2>. DEFINE most == Max({5, n})
  <2>1. 5 \in Nat /\ n \in Nat
    OBVIOUS
  <2>2. most = (IF 5 >= n THEN 5 ELSE n)
    BY <2>1, Maximum, Zenon
  <2>. HIDE DEF most
  <2>3. most \in 0..100 /\ (n = 100 => most = 100)
    BY <2>2
  <2>. QED BY <2>3 DEF most
<1>9. CommitHistogram[e].height = 100 /\ \A f \in Days : CommitHistogram[f].height \in 0..100
  <2>1. 100 \in 0..100 /\ CommitHistogram[e].height = Max({5, 100})
    <3>1. (page.bars[e] * 100) \div top = 100
      BY <1>6, <1>7, Zenon
    <3>2. CommitHistogram[e].height = Max({5, (page.bars[e] * 100) \div top})
      BY <1>5
    <3>. QED BY <3>1, <3>2
  <2>2. \A f \in Days : CommitHistogram[f].height \in 0..100
    BY <1>5, <1>7, <1>8, Zenon
  <2>. QED BY <1>8, <2>1, <2>2
<1>10. 100 \in heights /\ \A h \in heights : h \in 0..100
  BY <1>9
<1>. HIDE DEF heights
<1>11. \E x \in heights : \A y \in heights : x >= y
  BY <1>10
<1>12. Max(heights) \in heights /\ \A y \in heights : Max(heights) >= y
  BY <1>11 DEF Max
<1>13. Max(heights) = 100
  BY <1>10, <1>12
<1>. QED BY <1>13 DEF heights

LEMMA TablesRead ==
  ASSUME PagesTypeOK
  PROVE  /\ Worth \in Nat /\ RecentLimit \in Nat \ {0}
         /\ \A b \in Ledger!BoardId :
              /\ credits[b] \in Nat /\ points[b] \in Nat /\ credits[b] * Worth \in Nat
              /\ b.game \in Games /\ b.project \in Projects
         /\ \A b : /\ Ledger!Placed(b) \subseteq Commits /\ IsFiniteSet(Ledger!Placed(b))
                   /\ Cardinality(Ledger!Placed(b)) \in Nat
         /\ \A g : InGame(g) \subseteq Commits /\ IsFiniteSet(InGame(g)) /\ Cardinality(InGame(g)) \in Nat
<1>1. Worth \in Nat /\ RecentLimit \in Nat \ {0}
  BY PagesAssumption DEF Worth
<1>2. ASSUME NEW b \in Ledger!BoardId
      PROVE  /\ credits[b] \in Nat /\ points[b] \in Nat /\ credits[b] * Worth \in Nat
             /\ b.game \in Games /\ b.project \in Projects
  <2>1. credits[b] \in Nat /\ points[b] \in Nat /\ b.game \in Games /\ b.project \in Projects
    BY DEF PagesTypeOK, Ledger!BoardId
  <2>. QED BY <1>1, <2>1, Times
<1>3. \A b : /\ Ledger!Placed(b) \subseteq Commits /\ IsFiniteSet(Ledger!Placed(b))
             /\ Cardinality(Ledger!Placed(b)) \in Nat
  <2>1. \A b : Ledger!Placed(b) \subseteq Commits
    BY DEF Ledger!Placed
  <2>. QED BY <2>1, CommitSets
<1>4. \A g : InGame(g) \subseteq Commits /\ IsFiniteSet(InGame(g)) /\ Cardinality(InGame(g)) \in Nat
  <2>1. \A g : InGame(g) \subseteq Commits
    BY DEF InGame
  <2>. QED BY <2>1, CommitSets
<1>. QED BY <1>1, <1>2, <1>3, <1>4

(* While pages are read scoring goes on, and takes nothing back.           *)
LEMMA ScoringGrows ==
  ASSUME PagesTypeOK, Ledger!Next, \A b \in Ledger!BoardId : BoardInv(b)
  PROVE  /\ home' \in [Commits -> Games \cup {NULL}]
         /\ credits' \in [Ledger!BoardId -> Nat] /\ points' \in [Ledger!BoardId -> Nat]
         /\ \A b \in Ledger!BoardId : BoardInv(b)'
         /\ \A g \in Games : Cardinality(InGame(g)) <= Cardinality(InGame(g)')
         /\ \A b \in Ledger!BoardId :
              /\ Cardinality(Ledger!Placed(b)) <= Cardinality(Ledger!Placed(b)')
              /\ credits[b] <= credits'[b] /\ credits'[b] \in Nat
<1>1. CASE \E c \in Commits, g \in Games : Ledger!Place(c, g)
  <2>1. PICK c \in Commits, g \in Games : Ledger!Place(c, g)
    BY <1>1
  <2>2. /\ home[c] = NULL /\ home' = [home EXCEPT ![c] = g] /\ credits' = credits /\ points' = points
        /\ home \in [Commits -> Games \cup {NULL}] /\ NULL \notin Games
    BY <2>1, PagesAssumption DEF Ledger!Place, PagesTypeOK
  <2>3. home' \in [Commits -> Games \cup {NULL}]
    BY <2>2
  <2>4. \A d \in Commits : home[d] \in Games => home'[d] = home[d]
    BY <2>2
  <2>5. \A h \in Games : InGame(h) \subseteq InGame(h)' /\ InGame(h)' \subseteq Commits
    BY <2>4 DEF InGame
  <2>6. \A b \in Ledger!BoardId : /\ Ledger!Placed(b) \subseteq Ledger!Placed(b)'
                                  /\ Ledger!Placed(b)' \subseteq Commits
    BY <2>4, TablesRead DEF Ledger!Placed
  <2>7. \A h \in Games : Cardinality(InGame(h)) <= Cardinality(InGame(h)')
    BY <2>5, CommitSets
  <2>8. \A b \in Ledger!BoardId : /\ Cardinality(Ledger!Placed(b)) <= Cardinality(Ledger!Placed(b)')
                                  /\ Cardinality(Ledger!Placed(b)') \in Nat
    BY <2>6, CommitSets
  <2>9. \A b \in Ledger!BoardId : BoardInv(b)'
    <3>. SUFFICES ASSUME NEW b \in Ledger!BoardId PROVE BoardInv(b)'
      OBVIOUS
    <3>1. credits[b] <= Cardinality(Ledger!Placed(b)) /\ points[b] <= credits[b] * Worth
      BY DEF BoardInv
    <3>2. credits[b] <= Cardinality(Ledger!Placed(b)')
      BY <2>8, <3>1, TablesRead
    <3>. QED BY <2>2, <3>1, <3>2 DEF BoardInv, Worth
  <2>. QED BY <2>2, <2>3, <2>7, <2>8, <2>9, TablesRead DEF PagesTypeOK
<1>2. CASE \E b \in Ledger!BoardId, withBonus \in BOOLEAN : Ledger!Credit(b, withBonus)
  <2>1. PICK b \in Ledger!BoardId, withBonus \in BOOLEAN : Ledger!Credit(b, withBonus)
    BY <1>2
  <2>. DEFINE bonus == CommitPoints + (IF withBonus THEN ProjectPoints ELSE 0)
  <2>2. /\ credits[b] < Cardinality(Ledger!Placed(b)) /\ home' = home
        /\ credits' = [credits EXCEPT ![b] = credits[b] + 1]
        /\ points' = [points EXCEPT ![b] = points[b] + CommitPoints + (IF withBonus THEN ProjectPoints ELSE 0)]
    <3>1. credits[b] < Cardinality(Ledger!Placed(b)) /\ home' = home
      BY <2>1 DEF Ledger!Credit, Ledger!Cardinality, Cardinality
    <3>2. credits' = [credits EXCEPT ![b] = credits[b] + 1]
      BY <2>1 DEF Ledger!Credit
    <3>3. points' = [points EXCEPT ![b] = points[b] + CommitPoints + (IF withBonus THEN ProjectPoints ELSE 0)]
      BY <2>1, Zenon DEF Ledger!Credit
    <3>. QED BY <3>1, <3>2, <3>3
  <2>3. bonus \in Nat /\ bonus <= Worth
    BY PagesAssumption DEF Worth
  <2>4. points[b] + CommitPoints + (IF withBonus THEN ProjectPoints ELSE 0) = points[b] + bonus
    BY PagesAssumption, TablesRead
  <2>. HIDE DEF bonus
  <2>5. /\ credits' \in [Ledger!BoardId -> Nat] /\ points' \in [Ledger!BoardId -> Nat]
        /\ credits'[b] = credits[b] + 1 /\ points'[b] = points[b] + bonus
        /\ \A o \in Ledger!BoardId \ {b} : credits'[o] = credits[o] /\ points'[o] = points[o]
    BY <2>2, <2>3, <2>4, TablesRead DEF PagesTypeOK
  <2>6. (\A o : Ledger!Placed(o)' = Ledger!Placed(o)) /\ \A g : InGame(g)' = InGame(g)
    BY <2>2 DEF Ledger!Placed, InGame
  <2>7. BoardInv(b)'
    <3>1. points[b] <= credits[b] * Worth /\ (credits[b] + 1) * Worth = credits[b] * Worth + Worth
      BY TablesRead, Times DEF BoardInv
    <3>2. credits[b] + 1 <= Cardinality(Ledger!Placed(b))
      BY <2>2, TablesRead
    <3>3. points[b] + bonus <= (credits[b] + 1) * Worth
      BY <2>3, <3>1, TablesRead
    <3>. QED BY <2>5, <2>6, <3>2, <3>3 DEF BoardInv, Worth
  <2>8. \A o \in Ledger!BoardId \ {b} : BoardInv(o)'
    BY <2>5, <2>6 DEF BoardInv, Worth
  <2>9. \A o \in Ledger!BoardId : credits[o] <= credits'[o] /\ credits'[o] \in Nat
    BY <2>5, TablesRead
  <2>10. \A n \in Nat : n <= n
    OBVIOUS
  <2>. QED BY <2>2, <2>5, <2>6, <2>7, <2>8, <2>9, <2>10, TablesRead DEF PagesTypeOK
<1>. QED BY <1>1, <1>2 DEF Ledger!Next

LEMMA ScoringKeeps == ASSUME PagesInv, Scoring PROVE PagesInv'
<1>1. /\ PagesTypeOK /\ Ledger!Next /\ page' = page /\ page \in PageType
      /\ \A b \in Ledger!BoardId : BoardInv(b)
  BY DEF PagesInv, Scoring, PagesTypeOK
<1>2. /\ PagesTypeOK' /\ \A b \in Ledger!BoardId : BoardInv(b)'
      /\ \A g \in Games : Cardinality(InGame(g)) <= Cardinality(InGame(g)') /\ InGame(g)' \subseteq Commits
      /\ \A b \in Ledger!BoardId : 
           /\ Cardinality(Ledger!Placed(b)) <= Cardinality(Ledger!Placed(b)')
           /\ credits[b] <= credits'[b] /\ credits'[b] \in Nat
  BY <1>1, ScoringGrows DEF PagesTypeOK, InGame
<1>3. /\ page.stats \in Nat /\ page.count \in Nat /\ page.month \in Nat /\ page.commits \in Nat
      /\ page.points \in Nat
  BY <1>1 DEF PageType
<1>4. SUFFICES ASSUME page.ok PROVE HomeInv' /\ CardInv' /\ ProjectInv'
  BY <1>1, <1>2 DEF PagesInv, PageOf
<1>5. HomeInv /\ CardInv /\ ProjectInv
  BY <1>4 DEF PagesInv
<1>6. HomeInv'
  <2>. SUFFICES ASSUME page.kind = "home" PROVE page.stats <= Cardinality(InGame(page.of)')
    BY <1>1, <1>5 DEF HomeInv, Marks
  <2>1. page.of \in Games /\ page.stats <= Cardinality(InGame(page.of))
    BY <1>5 DEF HomeInv, PagesInv, PageOf
  <2>. QED BY <1>1, <1>2, <1>3, <2>1, TablesRead, CommitSets
<1>7. CardInv'
  <2>. SUFFICES ASSUME page.kind = "card"
                PROVE  page.count <= credits'[page.of] /\ page.points <= credits'[page.of] * Worth
    BY <1>1, <1>5 DEF CardInv, Worth
  <2>1. page.of \in Ledger!BoardId /\ page.count <= credits[page.of] /\ page.points <= credits[page.of] * Worth
    BY <1>5 DEF CardInv, PagesInv, PageOf
  <2>2. /\ credits[page.of] * Worth <= credits'[page.of] * Worth
        /\ credits[page.of] * Worth \in Nat /\ credits'[page.of] * Worth \in Nat
    BY <1>1, <1>2, <2>1, TablesRead, Times
  <2>. QED BY <1>1, <1>2, <1>3, <2>1, <2>2, TablesRead
<1>8. ProjectInv'
  <2>. SUFFICES ASSUME page.kind = "project"
                PROVE  /\ page.month <= Cardinality(Ledger!Placed(page.of)')
                       /\ page.read >= 2 => page.commits <= Cardinality(Ledger!Placed(page.of)')
    BY <1>1, <1>5 DEF ProjectInv
  <2>1. /\ page.of \in Ledger!BoardId /\ page.month <= Cardinality(Ledger!Placed(page.of))
        /\ page.read >= 2 => page.commits <= Cardinality(Ledger!Placed(page.of))
    BY <1>5 DEF ProjectInv, PagesInv, PageOf
  <2>2. Ledger!Placed(page.of)' \subseteq Commits
    BY DEF Ledger!Placed
  <2>. QED BY <1>1, <1>2, <1>3, <2>1, <2>2, TablesRead, CommitSets
<1>. QED BY <1>6, <1>7, <1>8

LEMMA PagesBegin == PagesInit => PagesInv
<1>. SUFFICES ASSUME PagesInit PROVE PagesInv
  OBVIOUS
<1>1. PagesTypeOK
  BY DEF PagesInit, PagesTypeOK, PageType, NoPage, Ledger!Init, Ledger!BoardId
<1>2. ASSUME NEW b \in Ledger!BoardId PROVE BoardInv(b)
  <2>1. credits[b] = 0 /\ points[b] = 0
    BY DEF PagesInit, Ledger!Init
  <2>. QED BY <1>1, <2>1, TablesRead, Times DEF BoardInv
<1>. QED BY <1>1, <1>2 DEF PagesInit, PagesInv, NoPage, PageOf, HomeInv, CardInv, ProjectInv

(* Reading changes no table, and a page that failed promises nothing.      *)
LEMMA ReadingKeeps ==
  ASSUME PagesInv, Shown, page' \in PageType, PageOf', page'.ok => HomeInv' /\ CardInv' /\ ProjectInv'
  PROVE  PagesInv'
BY DEF PagesInv, Shown, PagesTypeOK, BoardInv, Worth, Ledger!Placed

(* The fields a step does not write stay.                                  *)
LEMMA Blank == NoPage \in PageType /\ NoPage.month = 0
BY DEF NoPage, PageType

LEMMA ReadMore ==
  ASSUME NEW p \in PageType, NEW n \in 0..3, NEW q, q = [p EXCEPT !.read = n]
  PROVE  /\ q \in PageType /\ q.read = n
         /\ q.kind = p.kind /\ q.of = p.of /\ q.ok = p.ok /\ q.stats = p.stats /\ q.bars = p.bars
         /\ q.recent = p.recent /\ q.points = p.points /\ q.count = p.count /\ q.month = p.month
         /\ q.inMonth = p.inMonth /\ q.commits = p.commits
BY DEF PageType

LEMMA AskedFor ==
  ASSUME NEW k \in {"home", "card", "project"}, NEW o \in Games \cup Ledger!BoardId
  PROVE  /\ Asked(k, o) \in PageType
         /\ Asked(k, o).kind = k /\ Asked(k, o).of = o /\ Asked(k, o).read = 1 /\ Asked(k, o).month = 0
<1>1. NoPage \in PageType /\ NoPage.month = 0
  BY Blank
<1>. DEFINE p == [NoPage EXCEPT !.kind = k, !.of = o]
<1>2. p \in PageType /\ p.kind = k /\ p.of = o /\ p.month = 0
  <2>1. k \in {"none", "home", "card", "project"} /\ o \in Games \cup Ledger!BoardId \cup {NULL}
    OBVIOUS
  <2>. QED BY <1>1, <2>1 DEF PageType
<1>3. Asked(k, o) = [p EXCEPT !.read = 1]
  BY Zenon DEF Asked
<1>. HIDE DEF p
<1>. QED BY <1>2, <1>3, ReadMore

LEMMA HomeKeeps == ASSUME PagesInv, NEW g \in Games, Home(g) PROVE PagesInv'
<1>. DEFINE p == Asked("home", g)
            n == GetCommitStats(g)
<1>1. PagesTypeOK /\ Shown /\ home' = home /\ page' \in {[p EXCEPT !.stats = n], [p EXCEPT !.ok = FALSE]}
  BY DEF PagesInv, Home, Shown
<1>2. n = Cardinality(InGame(g)) /\ n \in Nat /\ n <= n
  BY <1>1, TablesRead DEF GetCommitStats
<1>3. p \in PageType /\ p.kind = "home" /\ p.of = g /\ p.read = 1
  BY AskedFor
<1>. HIDE DEF p, n
<1>4. /\ page' \in PageType /\ page'.kind = "home" /\ page'.of = g /\ page'.read = 1
      /\ page'.ok => page'.stats = n
  <2>1. CASE page' = [p EXCEPT !.stats = n]
    BY <1>2, <1>3, <2>1 DEF PageType
  <2>2. CASE page' = [p EXCEPT !.ok = FALSE]
    BY <1>3, <2>2 DEF PageType
  <2>. QED BY <1>1, <2>1, <2>2
<1>5. PageOf' /\ (page'.ok => HomeInv' /\ CardInv' /\ ProjectInv')
  BY <1>1, <1>2, <1>4 DEF PageOf, HomeInv, CardInv, ProjectInv, InGame
<1>. QED BY <1>1, <1>4, <1>5, ReadingKeeps

LEMMA PlayerKeeps == ASSUME PagesInv, NEW b \in Ledger!BoardId, Player(b) PROVE PagesInv'
<1>. DEFINE p == Asked("card", b)
<1>1. /\ PagesTypeOK /\ Shown /\ credits' = credits /\ BoardInv(b)
      /\ page' = [p EXCEPT !.points = points[b], !.count = credits[b]]
  BY DEF PagesInv, Player, Shown
<1>2. credits[b] \in Nat /\ points[b] \in Nat /\ credits[b] <= credits[b]
  BY <1>1, TablesRead
<1>3. p \in PageType /\ p.kind = "card" /\ p.of = b /\ p.read = 1
  BY AskedFor
<1>. HIDE DEF p
<1>4. /\ page' \in PageType /\ page'.kind = "card" /\ page'.of = b /\ page'.read = 1
      /\ page'.points = points[b] /\ page'.count = credits[b]
  <2>1. page' = [p EXCEPT !.points = points[b], !.count = credits[b]]
    BY <1>1
  <2>. QED BY <1>2, <1>3, <2>1 DEF PageType
<1>5. PageOf' /\ HomeInv' /\ CardInv' /\ ProjectInv'
  BY <1>1, <1>2, <1>4 DEF PageOf, HomeInv, CardInv, ProjectInv, BoardInv, Worth
<1>. QED BY <1>1, <1>4, <1>5, ReadingKeeps

LEMMA Activity ==
  ASSUME PagesTypeOK, NEW b \in Ledger!BoardId, NEW p \in PageType,
         NEW q \in GetProjectGameActivityAggregates(p, b)
  PROVE  /\ q \in PageType /\ q.kind = p.kind /\ q.of = p.of /\ q.read = p.read /\ q.ok = p.ok
         /\ q.count = p.count /\ q.points = p.points
         /\ p.month = 0 => q.month <= Cardinality(Ledger!Placed(b))
         /\ q.inMonth => q.month = Cardinality(Ledger!Placed(b))
<1>. DEFINE n == Cardinality(Ledger!Placed(b))
<1>1. n \in Nat /\ q \in {[p EXCEPT !.month = n], [p EXCEPT !.inMonth = FALSE]}
  BY TablesRead DEF GetProjectGameActivityAggregates
<1>. HIDE DEF n
<1>2. CASE q = [p EXCEPT !.month = n]
  BY <1>1, <1>2 DEF PageType, n
<1>3. CASE q = [p EXCEPT !.inMonth = FALSE]
  <2>1. /\ q \in PageType /\ q.kind = p.kind /\ q.of = p.of /\ q.read = p.read /\ q.ok = p.ok
        /\ q.count = p.count /\ q.points = p.points /\ q.month = p.month /\ q.inMonth = FALSE
    BY <1>3 DEF PageType
  <2>2. q.month = 0 => q.month <= n
    BY <1>1
  <2>. QED BY <2>1, <2>2 DEF n
<1>. QED BY <1>1, <1>2, <1>3

LEMMA DetailKeeps == ASSUME PagesInv, NEW b \in Ledger!BoardId, Detail(b) PROVE PagesInv'
<1>1. PagesTypeOK /\ Shown /\ home' = home
  BY DEF PagesInv, Detail, Shown
<1>. DEFINE p == Asked("project", b)
<1>2. page' \in GetProjectGameActivityAggregates(p, b)
  BY DEF Detail
<1>3. p \in PageType /\ p.kind = "project" /\ p.of = b /\ p.read = 1 /\ p.month = 0
  BY AskedFor
<1>. HIDE DEF p
<1>4. /\ page' \in PageType /\ page'.kind = "project" /\ page'.of = b /\ page'.read = 1
      /\ page'.month <= Cardinality(Ledger!Placed(b))
  BY <1>1, <1>2, <1>3, Activity
<1>5. PageOf' /\ HomeInv' /\ CardInv' /\ ProjectInv'
  BY <1>1, <1>4 DEF PageOf, HomeInv, CardInv, ProjectInv, Ledger!Placed
<1>. QED BY <1>1, <1>4, <1>5, ReadingKeeps

(* The step of a query that succeeded, or failed: the page stays the same. *)
LEMMA MoreKeeps ==
  ASSUME PagesInv, Shown, page' \in PageType, page'.kind = page.kind, page'.of = page.of,
         page'.ok => HomeInv' /\ CardInv' /\ ProjectInv'
  PROVE  PagesInv'
<1>1. PageOf'
  BY DEF PagesInv, PageOf, Ledger!BoardId
<1>. QED BY <1>1, ReadingKeeps

LEMMA FailedRead ==
  ASSUME NEW p \in PageType, NEW n \in 0..3, NEW q, q = [p EXCEPT !.read = n, !.ok = FALSE]
  PROVE  q \in PageType /\ q.ok = FALSE /\ q.kind = p.kind /\ q.of = p.of
BY DEF PageType

LEMMA Failed ==
  ASSUME PagesInv, NEW n \in 1..2, Shown, page' = [page EXCEPT !.read = n + 1, !.ok = FALSE]
  PROVE  PagesInv'
<1>1. page \in PageType /\ n + 1 \in 0..3
  BY DEF PagesInv, PagesTypeOK
<1>2. page' \in PageType /\ page'.ok = FALSE /\ page'.kind = page.kind /\ page'.of = page.of
  BY <1>1, FailedRead
<1>. QED BY <1>2, MoreKeeps

LEMMA DailyKeeps == ASSUME PagesInv, GetDailyCommits PROVE PagesInv'
<1>1. PagesTypeOK /\ Shown /\ page \in PageType /\ page.kind = "home" /\ page.read = 1
  BY DEF PagesInv, PagesTypeOK, GetDailyCommits, Reads
<1>2. CASE page' = [page EXCEPT !.read = 1 + 1, !.ok = FALSE]
  BY <1>1, <1>2, Failed
<1>3. CASE page' = [[page EXCEPT !.bars = GetDailyCommitCounts(page.of)] EXCEPT !.read = 2]
  <2>. DEFINE bars == GetDailyCommitCounts(page.of)
  <2>1. bars \in [Days -> Nat] /\ Cardinality(Marks(bars)) = Cardinality(InGame(page.of))
    <3>1. InGame(page.of) \subseteq Commits
      BY <1>1, TablesRead
    <3>2. \A d \in Days : {c \in InGame(page.of) : DayOf[c] = d} \subseteq Commits
      BY <3>1
    <3>3. \A d \in Days : Cardinality({c \in InGame(page.of) : DayOf[c] = d}) \in Nat
      BY <3>2, CommitSets
    <3>4. bars = [d \in Days |-> Cardinality({c \in InGame(page.of) : DayOf[c] = d})]
      BY DEF GetDailyCommitCounts
    <3>. QED BY <3>1, <3>3, <3>4, MarkForEach
  <2>. HIDE DEF bars
  <2>2. page' = [[page EXCEPT !.bars = bars] EXCEPT !.read = 2]
    BY <1>3 DEF bars
  <2>3. /\ page' \in PageType /\ page'.kind = "home" /\ page'.read = 2 /\ page'.bars = bars
        /\ page'.of = page.of /\ page'.stats = page.stats /\ page'.ok = page.ok
    <3>. DEFINE p == [page EXCEPT !.bars = bars]
    <3>1. /\ p \in PageType /\ p.kind = page.kind /\ p.bars = bars
          /\ p.of = page.of /\ p.stats = page.stats /\ p.ok = page.ok
      <4>1. page \in PageType
        BY <1>1
      <4>. QED BY <2>1, <4>1 DEF PageType
    <3>2. page' = [p EXCEPT !.read = 2]
      BY <2>2
    <3>. HIDE DEF p
    <3>. QED BY <1>1, <3>1, <3>2, ReadMore
  <2>4. ASSUME page'.ok PROVE HomeInv' /\ CardInv' /\ ProjectInv'
    <3>1. page.stats <= Cardinality(InGame(page.of))
      BY <1>1, <2>3, <2>4 DEF PagesInv, HomeInv
    <3>2. Marks(page.bars)' = Marks(bars) /\ InGame(page.of)' = InGame(page.of)
      BY <1>1, <2>3 DEF Marks, InGame, Shown
    <3>. QED BY <2>1, <2>3, <3>1, <3>2 DEF HomeInv, CardInv, ProjectInv
  <2>. QED BY <1>1, <2>3, <2>4, MoreKeeps
<1>. QED BY <1>2, <1>3 DEF GetDailyCommits, Reads

LEMMA RecentKeeps == ASSUME PagesInv, RecentActivity PROVE PagesInv'
<1>1. PagesTypeOK /\ Shown /\ page \in PageType /\ page.kind = "home" /\ page.read = 2
  BY DEF PagesInv, PagesTypeOK, RecentActivity, Reads
<1>2. CASE page' = [page EXCEPT !.read = 2 + 1, !.ok = FALSE]
  BY <1>1, <1>2, Failed
<1>3. CASE \E p \in {[page EXCEPT !.recent = R] : R \in GetRecentCommits(page.of)} :
             page' = [p EXCEPT !.read = 2 + 1]
  <2>0. PICK p \in {[page EXCEPT !.recent = R] : R \in GetRecentCommits(page.of)} :
          page' = [p EXCEPT !.read = 2 + 1]
    BY <1>3
  <2>1. PICK R \in GetRecentCommits(page.of) : p = [page EXCEPT !.recent = R]
    BY <2>0
  <2>2. R \subseteq Commits /\ Cardinality(R) = Min({RecentLimit, Cardinality(InGame(page.of))})
    BY DEF GetRecentCommits, InGame
  <2>3. /\ page' \in PageType /\ page'.kind = "home" /\ page'.read = 3 /\ page'.bars = page.bars
        /\ page'.of = page.of /\ page'.stats = page.stats /\ page'.ok = page.ok /\ page'.recent = R
    <3>1. /\ p \in PageType /\ p.kind = page.kind /\ p.bars = page.bars /\ p.recent = R
          /\ p.of = page.of /\ p.stats = page.stats /\ p.ok = page.ok
      <4>1. page \in PageType
        BY <1>1
      <4>. QED BY <2>1, <2>2, <4>1 DEF PageType
    <3>2. page' = [p EXCEPT !.read = 3]
      BY <2>0
    <3>. QED BY <1>1, <3>1, <3>2, ReadMore
  <2>4. ASSUME page'.ok PROVE HomeInv' /\ CardInv' /\ ProjectInv'
    <3>1. /\ page.stats <= Cardinality(InGame(page.of))
          /\ page.stats <= Cardinality(Marks(page.bars))
      BY <1>1, <2>3, <2>4 DEF PagesInv, HomeInv
    <3>2. Marks(page.bars)' = Marks(page.bars) /\ InGame(page.of)' = InGame(page.of)
      BY <1>1, <2>3 DEF Marks, InGame, Shown
    <3>3. /\ page.stats \in Nat /\ RecentLimit \in Nat /\ Cardinality(InGame(page.of)) \in Nat
          /\ Cardinality(R) \in Nat
      BY <1>1, <2>2, TablesRead, CommitSets DEF PageType
    <3>4. Cardinality(R) >= Min({page.stats, RecentLimit})
      <4>1. Cardinality(R) = (IF RecentLimit <= Cardinality(InGame(page.of)) THEN RecentLimit ELSE Cardinality(InGame(page.of)))
        BY <2>2, <3>3, Maximum
      <4>2. Min({page.stats, RecentLimit}) = (IF page.stats <= RecentLimit THEN page.stats ELSE RecentLimit)
        BY <3>3, Maximum
      <4>. QED BY <3>1, <3>3, <4>1, <4>2
    <3>. QED BY <2>3, <3>1, <3>2, <3>4 DEF HomeInv, CardInv, ProjectInv
  <2>. QED BY <1>1, <2>3, <2>4, MoreKeeps
<1>. QED BY <1>2, <1>3, Zenon DEF RecentActivity, Reads

LEMMA SummaryKeeps == ASSUME PagesInv, GameActivitySummary PROVE PagesInv'
<1>1. /\ PagesTypeOK /\ Shown /\ page \in PageType /\ page.kind = "card" /\ page.read = 1
      /\ credits' = credits /\ page.of \in Ledger!BoardId
  BY DEF PagesInv, PagesTypeOK, GameActivitySummary, Reads, Shown, PageOf
<1>2. CASE page' = [page EXCEPT !.read = 1 + 1, !.ok = FALSE]
  BY <1>1, <1>2, Failed
<1>3. CASE \E p \in GetProjectGameActivityAggregates(page, page.of) : page' = [p EXCEPT !.read = 1 + 1]
  <2>1. PICK p \in GetProjectGameActivityAggregates(page, page.of) : page' = [p EXCEPT !.read = 2]
    BY <1>3
  <2>2. /\ p \in PageType /\ p.kind = "card" /\ p.of = page.of /\ p.ok = page.ok
        /\ p.count = page.count /\ p.points = page.points
        /\ p.inMonth => p.month = Cardinality(Ledger!Placed(page.of))
    BY <1>1, Activity
  <2>3. /\ page' \in PageType /\ page'.kind = "card" /\ page'.read = 2 /\ page'.of = page.of
        /\ page'.count = page.count /\ page'.points = page.points /\ page'.ok = page.ok
        /\ page'.inMonth => page'.month = Cardinality(Ledger!Placed(page.of))
    BY <2>1, <2>2, ReadMore
  <2>4. ASSUME page'.ok PROVE HomeInv' /\ CardInv' /\ ProjectInv'
    <3>1. /\ page.count <= credits[page.of] /\ page.points <= credits[page.of] * Worth
          /\ BoardInv(page.of)
      BY <1>1, <2>3, <2>4 DEF PagesInv, CardInv
    <3>2. page.count \in Nat /\ credits[page.of] \in Nat /\ Cardinality(Ledger!Placed(page.of)) \in Nat
      BY <1>1, TablesRead DEF PageType
    <3>3. page.count <= Cardinality(Ledger!Placed(page.of))
      BY <3>1, <3>2 DEF BoardInv
    <3>. QED BY <1>1, <2>3, <3>1, <3>3 DEF HomeInv, CardInv, ProjectInv, Worth
  <2>. QED BY <1>1, <2>3, <2>4, MoreKeeps
<1>. QED BY <1>2, <1>3, Zenon DEF GameActivitySummary, Reads

LEMMA BoardKeeps ==
  ASSUME PagesInv, Shown, NEW n \in 2..3,
         \/ page.kind = "card" /\ page.read = 2 /\ n = 3
         \/ page.kind = "project" /\ page.read = 1 /\ n = 2,
         page' = [[page EXCEPT !.commits = credits[page.of]] EXCEPT !.read = n]
  PROVE  PagesInv'
<1>1. PagesTypeOK /\ page \in PageType /\ credits' = credits /\ home' = home
  BY DEF PagesInv, PagesTypeOK, Shown
<1>2. page.of \in Ledger!BoardId
  BY DEF PagesInv, PageOf
<1>3. credits[page.of] \in Nat /\ credits[page.of] <= credits[page.of]
  BY <1>1, <1>2, TablesRead
<1>4. /\ page' \in PageType /\ page'.kind = page.kind /\ page'.read = n /\ page'.of = page.of
      /\ page'.count = page.count /\ page'.points = page.points /\ page'.ok = page.ok
      /\ page'.inMonth = page.inMonth /\ page'.month = page.month /\ page'.commits = credits[page.of]
  <2>. DEFINE p == [page EXCEPT !.commits = credits[page.of]]
  <2>1. /\ p \in PageType /\ p.kind = page.kind /\ p.of = page.of /\ p.ok = page.ok
        /\ p.count = page.count /\ p.points = page.points /\ p.inMonth = page.inMonth
        /\ p.month = page.month /\ p.commits = credits[page.of]
    <3>1. page \in PageType
      BY <1>1
    <3>. QED BY <1>3, <3>1 DEF PageType
  <2>2. page' = [p EXCEPT !.read = n]
    OBVIOUS
  <2>3. n \in 0..3
    OBVIOUS
  <2>. HIDE DEF p
  <2>4. page' \in PageType
    BY <2>1, <2>2, <2>3 DEF PageType
  <2>5. page'.read = n
    BY <2>1, <2>2, <2>3, ReadMore
  <2>. QED BY <2>1, <2>2, <2>3, <2>4, <2>5, ReadMore
<1>5. ASSUME page.ok
      PROVE  BoardInv(page.of) /\ CardInv /\ ProjectInv
  BY <1>1, <1>5 DEF PagesInv, PageOf
<1>6. page'.ok => HomeInv' /\ CardInv' /\ ProjectInv'
  <2>. SUFFICES ASSUME page.ok PROVE HomeInv' /\ CardInv' /\ ProjectInv'
    BY <1>4
  <2>1. HomeInv'
    BY <1>4 DEF HomeInv
  <2>2. CardInv'
    <3>1. Worth' = Worth
      BY DEF Worth
    <3>. QED BY <1>1, <1>3, <1>4, <1>5, <3>1 DEF CardInv
  <2>3. ProjectInv'
    BY <1>1, <1>3, <1>4, <1>5 DEF ProjectInv, BoardInv, Ledger!Placed
  <2>. QED BY <2>1, <2>2, <2>3
<1>. QED BY <1>4, <1>6, MoreKeeps

LEMMA CommitListKeeps == ASSUME PagesInv, ProjectCommitList PROVE PagesInv'
<1>1. PagesTypeOK /\ Shown /\ page \in PageType /\ page.kind = "project" /\ page.read = 2 /\ home' = home /\ page.ok
  BY DEF PagesInv, PagesTypeOK, ProjectCommitList, Reads, Shown
<1>2. CASE page' = [page EXCEPT !.read = 2 + 1, !.ok = FALSE]
  BY <1>1, <1>2, Failed
<1>3. CASE \E p \in {[page EXCEPT !.recent = R] : R \in GetCommitsByProject(page.of.project)} :
             page' = [p EXCEPT !.read = 2 + 1]
  <2>0. PICK p \in {[page EXCEPT !.recent = R] : R \in GetCommitsByProject(page.of.project)} :
          page' = [p EXCEPT !.read = 2 + 1]
    BY <1>3
  <2>1. PICK R \in GetCommitsByProject(page.of.project) : p = [page EXCEPT !.recent = R]
    BY <2>0
  <2>. DEFINE ofProject == {c \in Commits : ProjectOf[c] = page.of.project}
              placed == {c \in ofProject : home[c] # NULL}
  <2>2. PICK S \in SUBSET Commits : /\ placed \subseteq S /\ R \subseteq S
                                    /\ Cardinality(R) = Min({RecentLimit, Cardinality(S)})
    BY DEF GetCommitsByProject
  <2>3. /\ page.of \in Ledger!BoardId /\ page.month <= Cardinality(Ledger!Placed(page.of))
        /\ page.commits <= Cardinality(Ledger!Placed(page.of))
    BY <1>1 DEF PagesInv, PageOf, ProjectInv
  <2>4. Ledger!Placed(page.of) \subseteq S
    <3>1. page.of.game # NULL
      BY <1>1, <2>3, TablesRead, PagesAssumption
    <3>. QED BY <2>2, <3>1 DEF Ledger!Placed
  <2>5. /\ page' \in PageType /\ page'.kind = "project" /\ page'.read = 3 /\ page'.recent = R
        /\ page'.of = page.of /\ page'.month = page.month /\ page'.commits = page.commits
    <3>1. /\ p \in PageType /\ p.kind = page.kind /\ p.recent = R /\ p.of = page.of
          /\ p.month = page.month /\ p.commits = page.commits
      <4>1. page \in PageType /\ R \subseteq Commits
        BY <1>1, <2>2
      <4>. QED BY <2>1, <4>1 DEF PageType
    <3>2. page' = [p EXCEPT !.read = 3]
      BY <2>0
    <3>. QED BY <1>1, <3>1, <3>2, ReadMore
  <2>6. /\ page.month \in Nat /\ page.commits \in Nat /\ RecentLimit \in Nat /\ Cardinality(S) \in Nat
        /\ Cardinality(R) \in Nat /\ Cardinality(Ledger!Placed(page.of)) \in Nat
        /\ Cardinality(Ledger!Placed(page.of)) <= Cardinality(S)
    BY <1>1, <2>2, <2>4, TablesRead, CommitSets DEF PageType
  <2>7. Cardinality(R) >= Min({RecentLimit, Max({page.month, page.commits})})
    <3>1. Cardinality(R) = (IF RecentLimit <= Cardinality(S) THEN RecentLimit ELSE Cardinality(S))
      BY <2>2, <2>6, Maximum
    <3>. DEFINE most == Max({page.month, page.commits})
    <3>2. most = (IF page.month >= page.commits THEN page.month ELSE page.commits)
      BY <2>6, Maximum
    <3>. HIDE DEF most
    <3>3. most \in Nat /\ most <= Cardinality(S)
      BY <2>3, <2>6, <3>2
    <3>4. Min({RecentLimit, most}) = (IF RecentLimit <= most THEN RecentLimit ELSE most)
      BY <2>6, <3>3, Maximum
    <3>5. Cardinality(R) >= Min({RecentLimit, most})
      BY <2>6, <3>1, <3>3, <3>4
    <3>. QED BY <3>5 DEF most
  <2>8. HomeInv' /\ CardInv' /\ ProjectInv'
    BY <1>1, <2>3, <2>5, <2>7 DEF HomeInv, CardInv, ProjectInv, Ledger!Placed
  <2>. QED BY <1>1, <2>5, <2>8, MoreKeeps
<1>. QED BY <1>2, <1>3, Zenon DEF ProjectCommitList, Reads

LEMMA PagesStep == PagesInv /\ [PagesNext]_pageVars => PagesInv'
<1>. SUFFICES ASSUME PagesInv, [PagesNext]_pageVars PROVE PagesInv'
  OBVIOUS
<1>1. CASE BoardOfActivity
  <2>1. /\ Shown /\ page.kind = "card" /\ page.read = 2
        /\ \/ page' = [[page EXCEPT !.commits = credits[page.of]] EXCEPT !.read = 2 + 1]
           \/ page' = [page EXCEPT !.read = 2 + 1, !.ok = FALSE]
    BY <1>1 DEF BoardOfActivity, Reads
  <2>. QED BY <2>1, BoardKeeps, Failed
<1>2. CASE BoardOfDetail
  <2>1. /\ Shown /\ page.kind = "project" /\ page.read = 1
        /\ \/ page' = [[page EXCEPT !.commits = credits[page.of]] EXCEPT !.read = 1 + 1]
           \/ page' = [page EXCEPT !.read = 1 + 1, !.ok = FALSE]
    BY <1>2 DEF BoardOfDetail, Reads
  <2>. QED BY <2>1, BoardKeeps, Failed
<1>3. CASE UNCHANGED pageVars
  BY <1>3 DEF pageVars, PagesInv, PagesTypeOK, PageOf, BoardInv, HomeInv, CardInv, ProjectInv, Worth, InGame, Marks,
     Ledger!Placed
<1>. QED BY <1>1, <1>2, <1>3, HomeKeeps, PlayerKeeps, DetailKeeps, DailyKeeps, RecentKeeps, SummaryKeeps,
     CommitListKeeps, ScoringKeeps DEF PagesNext

LEMMA PagesRead == PagesInv => PagesTypeOK /\ ReadsHangTogether
<1>. SUFFICES ASSUME PagesInv PROVE PagesTypeOK /\ ReadsHangTogether
  OBVIOUS
<1>1. PagesTypeOK /\ page \in PageType /\ RecentLimit \in Nat \ {0}
  BY PagesAssumption DEF PagesInv, PagesTypeOK
<1>2. SUFFICES ASSUME page.ok PROVE ReadsHangTogether
  BY <1>1 DEF ReadsHangTogether
<1>3. HomeInv /\ CardInv /\ ProjectInv
  BY <1>2 DEF PagesInv
<1>4. ASSUME page.kind = "home", page.read >= 2
      PROVE  /\ StatsSection.commits <= Cardinality(Marks([d \in Days |-> StatsSection.days[d].count]))
             /\ StatsSection.commits > 0 => Max({StatsSection.days[d].height : d \in Days}) = 100
             /\ page.read = 3 => StatsSection.recent >= Min({StatsSection.commits, RecentLimit})
  <2>1. /\ page.stats <= Cardinality(Marks(page.bars)) /\ page.stats \in Nat /\ page.bars \in [Days -> Nat]
        /\ page.read = 3 => Cardinality(page.recent) >= Min({page.stats, RecentLimit})
    BY <1>1, <1>3, <1>4 DEF HomeInv, PageType
  <2>2. /\ StatsSection.commits = page.stats /\ StatsSection.recent = Cardinality(page.recent)
        /\ StatsSection.days = CommitHistogram
    BY DEF StatsSection
  <2>3. [d \in Days |-> StatsSection.days[d].count] = page.bars
    BY <2>1, <2>2 DEF CommitHistogram
  <2>4. page.stats > 0 => Cardinality(Marks(page.bars)) # 0
    BY <2>1
  <2>5. page.stats > 0 => Max({StatsSection.days[d].height : d \in Days}) = 100
    BY <2>1, <2>2, <2>4, HighestBar
  <2>. QED BY <2>1, <2>2, <2>3, <2>5
<1>5. ASSUME page.kind = "card"
      PROVE  /\ page.read >= 2 /\ page.inMonth => BoardCard.commits <= BoardCard.month
             /\ page.read = 3 => /\ BoardCard.commits <= BoardCard.board
                                /\ BoardCard.points <= BoardCard.board * (CommitPoints + ProjectPoints)
  BY <1>3, <1>5 DEF CardInv, BoardCard, Worth
<1>6. ASSUME page.kind = "project", page.read = 3
      PROVE  ProjectStatsBar.recent >= Min({RecentLimit, Max({ProjectStatsBar.month, ProjectStatsBar.board})})
  BY <1>3, <1>6 DEF ProjectInv, ProjectStatsBar
<1>. QED BY <1>4, <1>5, <1>6 DEF ReadsHangTogether

-----------------------------------------------------------------------------
(* Every page at once                                                      *)

Inv == ListInv /\ LeadersInv /\ StandingsInv /\ PagesInv /\ AssistantInv

allVars == <<visit, listVars, leaderVars, standingVars, pageVars, assistantVars>>

LEMMA AlwaysInv == Spec => []Inv /\ [][PlacesKept]_standingVars
<1>1. Init => Inv
  BY ListBegins, LeadersBegin, StandingsBegin, PagesBegin, InitInv DEF Init, Inv
<1>2. Inv /\ [Next]_allVars => Inv' /\ [PlacesKept]_standingVars
  <2>. SUFFICES ASSUME Inv, [Next]_allVars
                PROVE  Inv' /\ [PlacesKept]_standingVars
    OBVIOUS
  <2>1. /\ [ListNext]_listVars /\ [LeadersNext]_leaderVars /\ [StandingsNext]_standingVars
        /\ [PagesNext]_pageVars /\ [AssistantNext]_assistantVars
    BY Zenon DEF Next, allVars
  <2>. QED BY <2>1, ListSteps, LeadersStep, StandingsStep, PagesStep, StepKeeps DEF Inv
<1>. QED BY <1>1, <1>2, PTL DEF Spec, allVars

-----------------------------------------------------------------------------
(* Theorems                                                                *)

(* Whatever is read of which page while what it shows is rewritten, the    *)
(* project list, the leaderboard, the pages of a game and the assistant's  *)
(* calls keep the shape their queries give them.                           *)
THEOREM PagesAreTyped == Spec => []TypeOK
<1>1. Inv => TypeOK
  BY DEF Inv, ListInv, LeadersInv, StandingsInv, PagesInv, AssistantInv, TypeOK
<1>. QED BY <1>1, AlwaysInv, PTL

(* A visitor who reads the leaderboard by OFFSET to its last page has seen *)
(* every player whose row stayed as it was and was never tied, while no    *)
(* score fell, however many players, pages and scores there are            *)
(* (leaderboard.go:25).                                                    *)
THEOREM EveryoneIsShown == Spec => []NobodyPassedOver
<1>1. LeadersInv => NobodyPassedOver
  <2>. SUFFICES ASSUME LeadersInv, ~table.more, ~fell, NEW u \in still, u \notin seen PROVE FALSE
    BY DEF NobodyPassedOver
  <2>. QED BY DEF LeadersInv
<1>. QED BY <1>1, AlwaysInv, PTL DEF Inv

(* Between two readings of the leaderboard of projects or of languages no  *)
(* row that stayed as it was and was never tied gets anybody above it who  *)
(* was not there before and did not rise, and the points shown fall from   *)
(* row to row, for every number of rows and points (leaderboard.go:91,     *)
(* boards.sql.go:82, leaderboard_templ.go:672).                            *)
THEOREM PlacesAreKept == Spec => PlacesMoveForAReason
BY AlwaysInv, PTL DEF PlacesMoveForAReason

(* Of a page whose queries run one after another while scoring goes on,    *)
(* what is read later covers what was read before, for every number of     *)
(* commits, games and points: the histogram the total, the month and the   *)
(* board a card's numbers, the list of commits those of the project        *)
(* (handler.go:49, projects/service.go:125).                               *)
THEOREM LaterReadsCover == Spec => []ReadsHangTogether
BY PagesRead, AlwaysInv, PTL DEF Inv

(* A visitor who scrolls the project list sees no project twice, and each  *)
(* that matches and stayed public is on the list or on a page to come,     *)
(* whatever projects, searches and pages there are (projects.go:43-112).   *)
THEOREM ListMissesNothing == ListSpec => []NothingPassedOver
<1>1. ListInv => NothingPassedOver
  BY DEF ListInv
<1>. QED BY <1>1, ListBegins, ListSteps, PTL DEF ListSpec

=============================================================================
