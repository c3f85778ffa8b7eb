---------------------------- MODULE ProfileProofs ----------------------------
(* What Profile promises of webhooks, for any number of repositories, tabs  *)
(* and hooks, proved of the specification that MCProfile runs.              *)
EXTENDS MCProfile, FiniteSetTheorems, TLAPS

-----------------------------------------------------------------------------
(* The inductive invariant                                                 *)

(* Hooks have numbers of their own, at most one of ours on a repository.   *)
HooksNumbered ==
  /\ made \in 1..MaxHooks
  /\ \A r \in Repos :
       /\ IsFiniteSet(hooks[r])
       /\ \A h \in hooks[r] : h.id <= made
       /\ \A g, h \in hooks[r] : g.id = h.id => g = h
       /\ \A g, h \in Ours(r) : g = h
  /\ \A r, q \in Repos : r # q => Ids(r) \cap Ids(q) = {}

(* The hook is no other repository's and, while it is there, one of ours.  *)
OwnHook(r, hook) ==
  /\ hook <= made
  /\ \A q \in Repos : r # q => hook \notin Ids(q)
  /\ \A h \in hooks[r] : h.id = hook => h.ours

(* So is what a row, its request and the tab's list hold for a repository. *)
Owned(r, rw, rq, ld) ==
  OwnHook(r, rw.hook) /\ OwnHook(r, rq.hook) /\ OwnHook(r, ld.found[r])

(* A row's request has the row's hook, and starts on the row's button; a   *)
(* tab that loads its list shows no row.                                   *)
Matching(rw, rq, ld) ==
  /\ rq.step = "idle" => rq = Idle
  /\ rq.step \in {"create", "relist"} => rw = Row(0)
  /\ rq.step \in {"find", "delete"} => rw.hook # 0 /\ rq.hook = rw.hook
  /\ ld.step # "idle" => rw = NoRow
  /\ ~rw.shown => rw = NoRow

(* The hook is the one of ours that delivers; 0 says there is none, as far *)
(* as one answer of GitHub's can tell and if the list did not miss it.     *)
Delivering(r) == {h.id : h \in {g \in Ours(r) : g.active}}
Tells(r, hook, gap) ==
  (hook # 0 \/ (~gap /\ Cardinality(hooks[r]) <= HooksMax)) => Delivering(r) = {hook} \ {0}

(* So does what is held for a repository that no change passed by: in a    *)
(* row, in the answer of an add and in the list that is being loaded.      *)
Truthful(r, rw, rq, ld, gap) ==
  /\ rw.shown /\ rq.step # "relist" => Tells(r, rw.hook, gap)
  /\ rq.step = "relist" => rq.hook # 0 /\ Tells(r, rq.hook, gap)
  /\ ld.step = "hooks" /\ r \in ld.repos \ ld.left => Tells(r, ld.found[r], gap)

CellInv(r, rw, rq, ld, passed, gap) ==
  Owned(r, rw, rq, ld) /\ Matching(rw, rq, ld) /\ (passed \/ Truthful(r, rw, rq, ld, gap))

HooksInv ==
  /\ HooksTypeOK
  /\ HooksNumbered
  /\ \A t \in Tabs, r \in Repos :
       CellInv(r, row[t][r], request[t][r], load[t], r \in stale[t], r \in missed[t])

-----------------------------------------------------------------------------
(* What GitHub's answers tell                                              *)

(* The hook read from an answer tells of the repository, and is its own.   *)
LEMMA OurHookTells ==
  ASSUME HooksInv, NEW r \in Repos
  PROVE  LET hook == OurHook(ListedHooks(r))
         IN  /\ hook \in 0..MaxHooks
             /\ Tells(r, hook, FALSE)
             /\ hook # 0 => \E g \in hooks[r] : g.id = hook /\ g.ours
<1> DEFINE own == {h.id : h \in {g \in ListedHooks(r) : g.ours /\ g.active}}
<1>0. /\ hooks[r] \subseteq Hook /\ IsFiniteSet(hooks[r])
      /\ \A g, h \in hooks[r] : g.ours /\ h.ours => g = h
  BY DEF HooksInv, HooksTypeOK, HooksNumbered, Ours
<1>1. own \subseteq Delivering(r)
  BY DEF ListedHooks, Delivering, Ours
<1>2. CASE own = {}
  <2>1. OurHook(ListedHooks(r)) = 0
    BY <1>2 DEF OurHook
  <2>2. Cardinality(hooks[r]) <= HooksMax => ListedHooks(r) = hooks[r]
    <3> SUFFICES ASSUME Cardinality(hooks[r]) <= HooksMax, NEW h \in hooks[r]
                 PROVE  Cardinality(Older(r, h)) < HooksMax
      BY DEF ListedHooks
    <3>1. Older(r, h) \in SUBSET hooks[r] /\ h \notin Older(r, h)
      BY <1>0 DEF Older, Hook
    <3>2. /\ Cardinality(hooks[r]) \in Nat /\ IsFiniteSet(Older(r, h))
          /\ Cardinality(Older(r, h)) <= Cardinality(hooks[r])
          /\ Cardinality(Older(r, h)) # Cardinality(hooks[r])
      BY <1>0, <3>1, FS_CardinalityType, FS_Subset
    <3>3. Cardinality(Older(r, h)) \in Nat
      BY <3>2, FS_CardinalityType
    <3> QED
      BY <3>2, <3>3, ProfileAssumption DEF ProfileAssumption
  <2>3. Cardinality(hooks[r]) <= HooksMax => Delivering(r) = {}
    BY <1>2, <2>2 DEF Delivering, Ours
  <2> QED
    BY <2>1, <2>3, ProfileAssumption DEF Tells, ProfileAssumption
<1>3. CASE own # {}
  <2>1. PICK g \in hooks[r] : g.ours /\ g.active /\ g.id \in own
    BY <1>3 DEF ListedHooks
  <2>2. Delivering(r) = {g.id}
    BY <1>0, <2>1 DEF Delivering, Ours
  <2>3. own = {g.id}
    BY <1>1, <2>1, <2>2
  <2>4. g.id \in 1..MaxHooks
    BY <1>0, <2>1 DEF Hook
  <2>5. Min(own) = g.id
    BY <2>3, <2>4 DEF Min
  <2>6. OurHook(ListedHooks(r)) = g.id
    BY <1>3, <2>5 DEF OurHook
  <2> QED
    BY <2>1, <2>2, <2>4, <2>6 DEF Tells
<1> QED
  BY <1>2, <1>3

(* A push keeps the list an order of all the repositories.                 *)
LEMMA TouchKeepsOrder ==
  ASSUME HooksTypeOK, NEW r \in Repos, Touch(r)
  PROVE  place' \in Places
<1> DEFINE n == Cardinality(Repos)
<1>1. n \in Nat /\ IsFiniteSet(Repos)
  BY FS_CardinalityType, ProfileAssumption DEF ProfileAssumption
<1>2. /\ place \in [Repos -> 1..n]
      /\ \A p, q \in Repos : place[p] = place[q] => p = q
  BY DEF HooksTypeOK, Places, Bijection, Injection, IsInjective
<1>3. place' = [q \in Repos |->
        IF q = r THEN 1 ELSE IF place[q] < place[r] THEN place[q] + 1 ELSE place[q]]
  BY DEF Touch
<1> HIDE DEF n
<1>4. place' \in [Repos -> 1..n]
  <2> SUFFICES ASSUME NEW q \in Repos PROVE place'[q] \in 1..n
    BY <1>3
  <2> QED
    BY <1>1, <1>2, <1>3
<1>5. \A p, q \in Repos : place'[p] = place'[q] => p = q
  BY <1>1, <1>2, <1>3
<1>6. place' \in Injection(Repos, 1..n)
  BY <1>4, <1>5 DEF Injection, IsInjective
<1>7. IsFiniteSet(1..n) /\ Cardinality(1..n) = n
  BY <1>1, FS_Interval
<1>8. place' \in Surjection(Repos, 1..n)
  BY <1>6, <1>7, FS_Injection DEF n
<1> QED
  BY <1>6, <1>8 DEF Places, Bijection, n

-----------------------------------------------------------------------------
(* The types                                                               *)

LEMMA HooksInitially == HooksInit => HooksInv
<1> SUFFICES ASSUME HooksInit PROVE HooksInv
  OBVIOUS
<1> DEFINE other == [id |-> 1, ours |-> FALSE, active |-> TRUE]
<1>0. MaxHooks \in Nat \ {0}
  BY ProfileAssumption DEF ProfileAssumption
<1>1. \A r \in Repos : hooks[r] = {} \/ hooks[r] = {other}
  BY DEF HooksInit
<1>2. /\ \A t \in Tabs, r \in Repos : row[t][r] = NoRow /\ request[t][r] = Idle
      /\ \A t \in Tabs : load[t] = NotLoading
      /\ \A r \in Repos : NotLoading.found[r] = 0
  BY DEF HooksInit, NotLoading
<1>3. HooksTypeOK
  <2>1. other \in Hook
    BY <1>0 DEF Hook
  <2>2. hooks \in [Repos -> SUBSET Hook]
    BY <2>1 DEF HooksInit
  <2>3. row \in [Tabs -> [Repos -> RowType]]
    BY <1>0 DEF HooksInit, NoRow, RowType
  <2>4. request \in [Tabs -> [Repos -> RequestType]]
    BY <1>0 DEF HooksInit, Idle, RequestType
  <2>5. load \in [Tabs -> LoadType]
    BY <1>0 DEF HooksInit, NotLoading, LoadType
  <2>6. place \in Places /\ stale \in [Tabs -> SUBSET Repos] /\ missed \in [Tabs -> SUBSET Repos]
    BY DEF HooksInit
  <2> QED
    BY <1>2, <2>2, <2>3, <2>4, <2>5, <2>6 DEF HooksTypeOK, NotLoading, Idle
<1>4. HooksNumbered
  <2>1. \A r \in Repos : IsFiniteSet(hooks[r])
    BY <1>1, FS_EmptySet, FS_Singleton
  <2>2. \A r \in Repos : \A h \in hooks[r] : h = other
    BY <1>1
  <2>3. \A r \in Repos : Ours(r) = {}
    BY <2>2 DEF Ours
  <2>4. made \in 1..MaxHooks /\ \A h : h = other => h.id <= made
    BY <1>0 DEF HooksInit
  <2> QED
    BY <2>1, <2>2, <2>3, <2>4 DEF HooksNumbered, HooksInit
<1>5. \A t \in Tabs, r \in Repos : Owned(r, row[t][r], request[t][r], load[t])
  <2>1. \A r \in Repos : \A h \in hooks[r] : h.id = 1
    BY <1>1
  <2>2. made = 1
    BY DEF HooksInit
  <2>3. \A r \in Repos : OwnHook(r, 0)
    BY <2>1, <2>2 DEF OwnHook, Ids
  <2> QED
    BY <1>2, <2>3 DEF Owned, NoRow, Idle, NotLoading
<1>6. \A t \in Tabs, r \in Repos : Matching(row[t][r], request[t][r], load[t])
  BY <1>2 DEF Matching, NoRow, Idle, NotLoading
<1>7. \A t \in Tabs, r \in Repos : Truthful(r, row[t][r], request[t][r], load[t], r \in missed[t])
  BY <1>2 DEF Truthful, NoRow, Idle, NotLoading
<1> QED
  BY <1>3, <1>4, <1>5, <1>6, <1>7 DEF HooksInv, CellInv

-----------------------------------------------------------------------------
(* What happens to the hooks on GitHub                                     *)

(* The hooks stay, or one repository gets a hook with the next number, or  *)
(* loses one, or has one switched on or off.                               *)
Adds(r, ours) ==
  /\ made < MaxHooks /\ made' = made + 1
  /\ ours => Ours(r) = {}
  /\ hooks' = [hooks EXCEPT ![r] = @ \cup {Created(ours)}]
Removes(r, id) ==
  /\ UNCHANGED made
  /\ hooks' = [hooks EXCEPT ![r] = Without(r, id)]
Toggles(r, h) ==
  /\ UNCHANGED made
  /\ hooks' = [hooks EXCEPT ![r] = Without(r, h.id) \cup {[h EXCEPT !.active = ~@]}]

(* What that does to a repository q for which some hooks are held: hooks   *)
(* held stay its own, and a repository nothing was done to reads the same. *)
Follows(r) ==
  /\ hooks' \in [Repos -> SUBSET Hook]
  /\ HooksNumbered'
  /\ \A q \in Repos : \A hook \in 0..MaxHooks : OwnHook(q, hook) => OwnHook(q, hook)'
  /\ \A q \in Repos \ {r} : hooks'[q] = hooks[q]

LEMMA HooksRead ==
  ASSUME HooksInv
  PROVE  /\ MaxHooks \in Nat \ {0} /\ made \in 1..MaxHooks
         /\ hooks \in [Repos -> SUBSET Hook]
         /\ \A h \in Hook : h.id \in 1..MaxHooks /\ h.ours \in BOOLEAN
BY ProfileAssumption DEF HooksInv, HooksTypeOK, HooksNumbered, ProfileAssumption, Hook

LEMMA AddsFollows ==
  ASSUME HooksInv, NEW r \in Repos, NEW ours \in BOOLEAN, Adds(r, ours)
  PROVE  /\ Follows(r)
         /\ \A n : ours /\ n = made + 1 => OwnHook(r, n)'
         /\ ours => Delivering(r)' = {made + 1}
<1> DEFINE new == Created(ours)
<1>1. /\ new \in Hook /\ new.id = made + 1 /\ new.ours = ours /\ new.active
      /\ made' = made + 1 /\ made' \in 1..MaxHooks
  <2>1. made + 1 \in 1..MaxHooks
    BY HooksRead DEF Adds
  <2> QED
    BY <2>1 DEF Created, Hook, Adds
<1> HIDE DEF new
<1>2. /\ hooks'[r] = hooks[r] \cup {new}
      /\ \A q \in Repos \ {r} : hooks'[q] = hooks[q]
      /\ hooks' \in [Repos -> SUBSET Hook]
  BY <1>1, HooksRead DEF Adds, new
<1>3. /\ \A q \in Repos : IsFiniteSet(hooks[q])
      /\ \A q \in Repos : \A h \in hooks[q] : h.id <= made
      /\ \A q \in Repos : \A g, h \in hooks[q] : g.id = h.id => g = h
      /\ \A q \in Repos : \A g, h \in hooks[q] : g.ours /\ h.ours => g = h
      /\ \A p, q \in Repos : p # q => Ids(p) \cap Ids(q) = {}
  BY DEF HooksInv, HooksNumbered, Ours
<1>4. \A q \in Repos : \A h \in hooks[q] : h.id # made + 1
  BY <1>3, HooksRead
<1>5. HooksNumbered'
  <2>1. \A q \in Repos : IsFiniteSet(hooks'[q])
    BY <1>2, <1>3, FS_AddElement
  <2>2. \A q \in Repos : \A h \in hooks'[q] : h.id <= made'
    BY <1>1, <1>2, <1>3, HooksRead
  <2>3. \A q \in Repos : \A g, h \in hooks'[q] : g.id = h.id => g = h
    BY <1>1, <1>2, <1>3, <1>4
  <2>4. \A q \in Repos : \A g, h \in hooks'[q] : g.ours /\ h.ours => g = h
    BY <1>1, <1>2, <1>3 DEF Adds, Ours
  <2>5. \A p, q \in Repos : p # q => Ids(p)' \cap Ids(q)' = {}
    BY <1>1, <1>2, <1>3, <1>4 DEF Ids
  <2> QED
    BY <1>1, <2>1, <2>2, <2>3, <2>4, <2>5 DEF HooksNumbered, Ours
<1>6. \A q \in Repos : \A hook \in 0..MaxHooks : OwnHook(q, hook) => OwnHook(q, hook)'
  BY <1>1, <1>2, HooksRead DEF OwnHook, Ids
<1>7. ASSUME NEW n, ours, n = made + 1
      PROVE  OwnHook(r, n)'
  <2>1. n <= made' /\ \A q \in Repos \ {r} : n \notin Ids(q)'
    BY <1>1, <1>2, <1>4, <1>7, HooksRead DEF Ids
  <2>2. \A h \in hooks'[r] : h.id = n => h.ours
    BY <1>1, <1>2, <1>4, <1>7
  <2> QED
    BY <2>1, <2>2 DEF OwnHook
<1>8. ours => Delivering(r)' = {made + 1}
  BY <1>1, <1>2 DEF Adds, Delivering, Ours
<1> QED
  BY <1>2, <1>5, <1>6, <1>7, <1>8 DEF Follows

LEMMA RemovesFollows ==
  ASSUME HooksInv, NEW r \in Repos, NEW id, Removes(r, id)
  PROVE  /\ Follows(r)
         /\ Delivering(r)' = Delivering(r) \ {id}
<1>1. /\ hooks'[r] = {h \in hooks[r] : h.id # id} /\ hooks'[r] \subseteq hooks[r]
      /\ \A q \in Repos \ {r} : hooks'[q] = hooks[q]
      /\ hooks' \in [Repos -> SUBSET Hook]
      /\ made' = made
  BY HooksRead DEF Removes, Without
<1>2. \A q \in Repos : hooks'[q] \subseteq hooks[q]
  BY <1>1
<1>3. HooksNumbered'
  <2>1. \A q \in Repos : IsFiniteSet(hooks'[q])
    BY <1>2, FS_Subset DEF HooksInv, HooksNumbered
  <2>2. \A q \in Repos : Ours(q)' \subseteq Ours(q) /\ Ids(q)' \subseteq Ids(q)
    BY <1>2 DEF Ours, Ids
  <2>3. \A p, q \in Repos : p # q => Ids(p)' \cap Ids(q)' = {}
    BY <2>2 DEF HooksInv, HooksNumbered
  <2> QED
    BY <1>1, <1>2, <2>1, <2>2, <2>3 DEF HooksInv, HooksNumbered
<1>4. \A q \in Repos : \A hook \in 0..MaxHooks : OwnHook(q, hook) => OwnHook(q, hook)'
  BY <1>1, <1>2 DEF OwnHook, Ids
<1>5. Delivering(r)' = Delivering(r) \ {id}
  BY <1>1 DEF Delivering, Ours
<1> QED
  BY <1>1, <1>3, <1>4, <1>5 DEF Follows

LEMMA TogglesFollows ==
  ASSUME HooksInv, NEW r \in Repos, NEW h \in hooks[r], Toggles(r, h)
  PROVE  Follows(r)
<1> DEFINE new == [h EXCEPT !.active = ~@]
<1>1. h \in Hook
  BY HooksRead
<1>2. new \in Hook /\ new.id = h.id /\ new.ours = h.ours
  BY <1>1, Zenon DEF Hook
<1> HIDE DEF new
<1>3. /\ hooks'[r] = {g \in hooks[r] : g.id # h.id} \cup {new}
      /\ \A q \in Repos \ {r} : hooks'[q] = hooks[q]
      /\ hooks' \in [Repos -> SUBSET Hook]
      /\ made' = made
  BY <1>2, HooksRead DEF Toggles, Without, new
<1>4. /\ \A q \in Repos : IsFiniteSet(hooks[q])
      /\ \A q \in Repos : \A f \in hooks[q] : f.id <= made
      /\ \A q \in Repos : \A f, g \in hooks[q] : f.id = g.id => f = g
      /\ \A q \in Repos : \A f, g \in hooks[q] : f.ours /\ g.ours => f = g
      /\ \A p, q \in Repos : p # q => Ids(p) \cap Ids(q) = {}
  BY DEF HooksInv, HooksNumbered, Ours
<1>5. \A q \in Repos : Ids(q)' = Ids(q)
  BY <1>2, <1>3 DEF Ids
<1>6. HooksNumbered'
  <2>1. IsFiniteSet({g \in hooks[r] : g.id # h.id})
    BY <1>4, FS_Subset
  <2>2. \A q \in Repos : IsFiniteSet(hooks'[q])
    <3>1. IsFiniteSet({g \in hooks[r] : g.id # h.id} \cup {new})
      BY <2>1, FS_AddElement
    <3> QED
      BY <1>3, <1>4, <3>1
  <2>3. \A q \in Repos : \A f \in hooks'[q] : f.id <= made'
    BY <1>2, <1>3, <1>4
  <2>4. \A q \in Repos : \A f, g \in hooks'[q] : f.id = g.id => f = g
    BY <1>2, <1>3, <1>4
  <2>5. \A q \in Repos : \A f, g \in hooks'[q] : f.ours /\ g.ours => f = g
    BY <1>2, <1>3, <1>4
  <2> QED
    BY <1>3, <1>4, <1>5, <2>2, <2>3, <2>4, <2>5, HooksRead DEF HooksNumbered, Ours
<1>7. \A q \in Repos : \A hook \in 0..MaxHooks : OwnHook(q, hook) => OwnHook(q, hook)'
  BY <1>2, <1>3, <1>5 DEF OwnHook
<1> QED
  BY <1>3, <1>6, <1>7 DEF Follows

-----------------------------------------------------------------------------
(* What happens to a tab's rows                                            *)

(* A cell's invariant outlives a change to the hooks that passes by.       *)
LEMMA CellsFollow ==
  ASSUME NEW r \in Repos, Follows(r), NEW q \in Repos, NEW rw \in RowType, NEW rq \in RequestType,
         NEW ld \in LoadType, NEW passed \in BOOLEAN, NEW gap, CellInv(q, rw, rq, ld, passed, gap)
  PROVE  CellInv(q, rw, rq, ld, passed \/ q = r, gap)'
<1>1. /\ rw.hook \in 0..MaxHooks /\ rq.hook \in 0..MaxHooks /\ ld.found[q] \in 0..MaxHooks
  BY DEF RowType, RequestType, LoadType
<1>2. Owned(q, rw, rq, ld)'
  BY <1>1 DEF Follows, CellInv, Owned
<1>3. Matching(rw, rq, ld)'
  BY DEF CellInv, Matching, Idle, Row, NoRow
<1>4. q # r /\ ~passed => Truthful(q, rw, rq, ld, gap)'
  BY DEF Follows, CellInv, Truthful, Tells, Delivering, Ours
<1> QED
  BY <1>2, <1>3, <1>4 DEF CellInv

(* It is all that is left to show of a step, next to the types.            *)
LEMMA CellsSuffice ==
  ASSUME HooksTypeOK', HooksNumbered',
         \A t \in Tabs, q \in Repos : \A rw, rq, ld, passed, gap :
           (rw = row'[t][q] /\ rq = request'[t][q] /\ ld = load'[t] /\ passed = (q \in stale'[t]) /\ gap = (q \in missed'[t])) =>
             CellInv(q, rw, rq, ld, passed, gap)'
  PROVE  HooksInv'
<1> SUFFICES ASSUME NEW t \in Tabs, NEW q \in Repos
             PROVE  CellInv(q, row[t][q], request[t][q], load[t], q \in stale[t], q \in missed[t])'
  BY DEF HooksInv
<1>1. PICK rw, rq, ld, passed, gap :
        rw = row'[t][q] /\ rq = request'[t][q] /\ ld = load'[t] /\ passed = (q \in stale'[t]) /\ gap = (q \in missed'[t])
  OBVIOUS
<1>2. CellInv(q, rw, rq, ld, passed, gap)'
  BY <1>1
<1> QED
  BY <1>1, <1>2 DEF CellInv, Owned, Matching, Truthful, OwnHook, Tells, Delivering, Ours, Ids, Idle, Row, NoRow

(* A step of one tab's that leaves the hooks alone.                        *)
LEMMA TabStep ==
  ASSUME HooksInv, NEW t \in Tabs, UNCHANGED <<hooks, made>>, place' \in Places,
         NEW rw \in [Repos -> RowType], NEW rq \in [Repos -> RequestType],
         NEW ld \in LoadType, NEW st \in SUBSET Repos, NEW ms \in SUBSET Repos,
         row' = [row EXCEPT ![t] = rw], request' = [request EXCEPT ![t] = rq],
         load' = [load EXCEPT ![t] = ld], stale' = [stale EXCEPT ![t] = st],
         missed' = [missed EXCEPT ![t] = ms],
         ld.left \subseteq ld.repos,
         \A r \in Repos :
           (rq[r].step # "idle" => rw[r].shown) /\ CellInv(r, rw[r], rq[r], ld, r \in st, r \in ms)
  PROVE  HooksInv'
<1>1. HooksTypeOK'
  BY DEF HooksInv, HooksTypeOK
<1>2. HooksNumbered'
  BY DEF HooksInv, HooksNumbered, Ours, Ids
<1>3. ASSUME NEW u \in Tabs, NEW q \in Repos, NEW w, NEW k, NEW l, NEW passed, NEW gap,
             w = row'[u][q], k = request'[u][q], l = load'[u], passed = (q \in stale'[u]), gap = (q \in missed'[u])
      PROVE  CellInv(q, w, k, l, passed, gap)'
  <2>1. CellInv(q, w, k, l, passed, gap)
    BY <1>3 DEF HooksInv, HooksTypeOK
  <2> QED
    BY <2>1 DEF CellInv, Owned, Matching, Truthful, OwnHook, Tells, Delivering, Ours, Ids, Idle, Row, NoRow
<1> QED
  BY <1>1, <1>2, <1>3, CellsSuffice

LEMMA CellsRead ==
  ASSUME HooksInv, NEW t \in Tabs
  PROVE  /\ row[t] \in [Repos -> RowType] /\ request[t] \in [Repos -> RequestType]
         /\ load[t] \in LoadType /\ stale[t] \in SUBSET Repos /\ missed[t] \in SUBSET Repos
         /\ load[t].left \subseteq load[t].repos
         /\ load[t].found \in [Repos -> 0..MaxHooks]
         /\ \A r \in Repos :
              /\ request[t][r].step # "idle" => row[t][r].shown
              /\ CellInv(r, row[t][r], request[t][r], load[t], r \in stale[t], r \in missed[t])
         /\ place' = place => place' \in Places
<1>1. HooksTypeOK /\ \A r \in Repos : CellInv(r, row[t][r], request[t][r], load[t], r \in stale[t], r \in missed[t])
  BY DEF HooksInv
<1>2. /\ row[t] \in [Repos -> RowType] /\ request[t] \in [Repos -> RequestType]
      /\ load[t] \in LoadType /\ stale[t] \in SUBSET Repos /\ missed[t] \in SUBSET Repos
      /\ place' = place => place' \in Places
  BY <1>1 DEF HooksTypeOK
<1>3. load[t].found \in [Repos -> 0..MaxHooks]
  BY <1>2 DEF LoadType
<1>4. load[t].left \subseteq load[t].repos
  BY <1>1, <1>2 DEF HooksTypeOK, LoadType
<1> QED
  BY <1>1, <1>2, <1>3, <1>4 DEF HooksTypeOK

(* The number 0 stands for no hook, and needs none to be its own.          *)
LEMMA NoHook ==
  ASSUME HooksInv, NEW r \in Repos
  PROVE  /\ OwnHook(r, 0)
         /\ NoRow \in RowType /\ Idle \in RequestType /\ NotLoading \in LoadType
         /\ \A hook \in 0..MaxHooks : Row(hook) \in RowType
         /\ \A passed, gap : CellInv(r, NoRow, Idle, NotLoading, passed, gap)
<1>1. OwnHook(r, 0)
  BY HooksRead DEF OwnHook, Ids
<1>2. /\ NoRow \in RowType /\ Idle \in RequestType /\ NotLoading \in LoadType
      /\ \A hook \in 0..MaxHooks : Row(hook) \in RowType
  BY HooksRead DEF NoRow, RowType, Idle, RequestType, NotLoading, LoadType, Row
<1>3. \A passed, gap : CellInv(r, NoRow, Idle, NotLoading, passed, gap)
  BY <1>1 DEF CellInv, Owned, Matching, Truthful, NoRow, Idle, NotLoading
<1> QED
  BY <1>1, <1>2, <1>3

LEMMA OpenPageStep ==
  ASSUME HooksInv, NEW t \in Tabs, NEW p \in Nat, OpenPage(t, p)
  PROVE  HooksInv'
<1> DEFINE rw == [r \in Repos |-> NoRow]
           rq == [r \in Repos |-> Idle]
           ld == [NotLoading EXCEPT !.step = "repos", !.page = p]
<1>1. ld.step = "repos" /\ ld.left = {} /\ ld.repos = {} /\ \A r \in Repos : ld.found[r] = 0
  BY DEF NotLoading
<1>2. rw \in [Repos -> RowType] /\ rq \in [Repos -> RequestType]
  BY HooksRead DEF RowType, RequestType, NoRow, Idle
<1>4. ld \in LoadType
  <2>1. NotLoading \in LoadType
    BY HooksRead DEF LoadType, NotLoading
  <2> QED
    BY <2>1 DEF LoadType
<1> HIDE DEF ld
<1>3. \A r \in Repos : CellInv(r, rw[r], rq[r], ld, r \in {}, r \in {})
  BY <1>1, NoHook DEF CellInv, Owned, Matching, Truthful, NoRow, Idle
<1>5. \A r \in Repos : rq[r].step = "idle"
  BY DEF Idle
<1>6. /\ load' = [load EXCEPT ![t] = ld] /\ row' = [row EXCEPT ![t] = rw]
      /\ request' = [request EXCEPT ![t] = rq] /\ stale' = [stale EXCEPT ![t] = {}]
      /\ missed' = [missed EXCEPT ![t] = {}]
      /\ UNCHANGED <<hooks, made, place>>
  BY DEF OpenPage, ld
<1>7. place' \in Places
  BY <1>6, CellsRead
<1>8. /\ ld.left \subseteq ld.repos /\ {} \in SUBSET Repos
      /\ \A r \in Repos : (rq[r].step # "idle" => rw[r].shown) /\ CellInv(r, rw[r], rq[r], ld, r \in {}, r \in {})
  BY <1>1, <1>3, <1>5
<1> HIDE DEF rw, rq
<1> QED
  BY <1>2, <1>4, <1>6, <1>7, <1>8, TabStep

LEMMA LoadReposStep ==
  ASSUME HooksInv, NEW t \in Tabs, LoadRepos(t)
  PROVE  HooksInv'
<1> DEFINE listed == ListRepos(PerPage + 1, load[t].page)
           ld == [load[t] EXCEPT !.step = "hooks", !.places = place, !.repos = listed, !.left = listed]
<1>1. load[t] \in LoadType /\ listed \subseteq Admin /\ place \in Places
  BY CellsRead DEF ListRepos, HooksInv, HooksTypeOK
<1>2. /\ ld \in LoadType /\ ld.left = listed /\ ld.repos = listed /\ ld.step = "hooks"
      /\ ld.found = load[t].found
  BY <1>1 DEF LoadType
<1> HIDE DEF ld
<1>3. \A r \in Repos : CellInv(r, row[t][r], request[t][r], ld, r \in stale[t], r \in missed[t])
  BY <1>2, CellsRead DEF CellInv, Owned, Matching, Truthful, LoadRepos
<1>4. /\ load' = [load EXCEPT ![t] = ld]
      /\ row' = [row EXCEPT ![t] = row[t]] /\ request' = [request EXCEPT ![t] = request[t]]
      /\ stale' = [stale EXCEPT ![t] = stale[t]] /\ missed' = [missed EXCEPT ![t] = missed[t]]
  BY DEF LoadRepos, ld, HooksInv, HooksTypeOK
<1>5. /\ row[t] \in [Repos -> RowType] /\ request[t] \in [Repos -> RequestType]
      /\ stale[t] \in SUBSET Repos /\ missed[t] \in SUBSET Repos
      /\ UNCHANGED <<hooks, made>> /\ place' \in Places
      /\ \A r \in Repos : request[t][r].step # "idle" => row[t][r].shown
  BY CellsRead DEF LoadRepos
<1>6. ld \in LoadType /\ ld.left \subseteq ld.repos
  BY <1>2
<1> QED
  BY <1>3, <1>4, <1>5, <1>6, TabStep

LEMMA LoadHooksStep ==
  ASSUME HooksInv, NEW t \in Tabs, LoadHooks(t)
  PROVE  HooksInv'
<1>1. PICK r \in load[t].left : \E hook \in {OurHook(ListedHooks(r)), 0} :
        /\ load' = [load EXCEPT ![t] = [@ EXCEPT !.found[r] = hook, !.left = load[t].left \ {r}]]
        /\ stale' = [stale EXCEPT ![t] = IF hook = OurHook(ListedHooks(r)) THEN @ \ {r} ELSE @]
        /\ missed' = [missed EXCEPT ![t] = IF hook = OurHook(ListedHooks(r)) THEN @ ELSE @ \cup {r}]
  BY DEF LoadHooks, HooksAsked
<1>2. PICK hook \in {OurHook(ListedHooks(r)), 0} :
        /\ load' = [load EXCEPT ![t] = [@ EXCEPT !.found[r] = hook, !.left = load[t].left \ {r}]]
        /\ stale' = [stale EXCEPT ![t] = IF hook = OurHook(ListedHooks(r)) THEN @ \ {r} ELSE @]
        /\ missed' = [missed EXCEPT ![t] = IF hook = OurHook(ListedHooks(r)) THEN @ ELSE @ \cup {r}]
  BY <1>1
<1> DEFINE ours == OurHook(ListedHooks(r))
           ld == [load[t] EXCEPT !.found[r] = hook, !.left = load[t].left \ {r}]
           st == IF hook = ours THEN stale[t] \ {r} ELSE stale[t]
           ms == IF hook = ours THEN missed[t] ELSE missed[t] \cup {r}
<1>3. load[t] \in LoadType /\ r \in Repos /\ r \in load[t].repos
  BY CellsRead, ProfileAssumption DEF LoadType, ProfileAssumption
<1>4. hook \in 0..MaxHooks /\ OwnHook(r, hook) /\ Tells(r, hook, hook # ours)
  <2>1. /\ ours \in 0..MaxHooks /\ Tells(r, ours, FALSE)
        /\ ours # 0 => \E g \in hooks[r] : g.id = ours /\ g.ours
    BY <1>3, OurHookTells
  <2>2. ours # 0 => OwnHook(r, ours)
    BY <1>3, <2>1, HooksRead DEF OwnHook, Ids, HooksInv, HooksNumbered
  <2>3. hook = ours \/ hook = 0
    BY <1>2
  <2> HIDE DEF ours
  <2>4. OwnHook(r, 0) /\ 0 \in 0..MaxHooks
    BY <1>3, NoHook, HooksRead
  <2>5. CASE hook = ours
    BY <2>1, <2>2, <2>4, <2>5 DEF Tells
  <2>6. CASE hook # ours
    BY <2>3, <2>4, <2>6 DEF Tells
  <2> QED
    BY <2>5, <2>6
<1>5. /\ ld \in LoadType /\ ld.left = load[t].left \ {r} /\ ld.repos = load[t].repos /\ ld.step = load[t].step
      /\ ld.found[r] = hook /\ \A q \in Repos \ {r} : ld.found[q] = load[t].found[q]
  BY <1>3, <1>4 DEF LoadType
<1>6. /\ load' = [load EXCEPT ![t] = ld]
      /\ row' = [row EXCEPT ![t] = row[t]] /\ request' = [request EXCEPT ![t] = request[t]]
      /\ stale' = [stale EXCEPT ![t] = st] /\ missed' = [missed EXCEPT ![t] = ms]
      /\ UNCHANGED <<hooks, made, place>>
  <2>1. /\ load' = [load EXCEPT ![t] = ld] /\ stale' = [stale EXCEPT ![t] = st]
        /\ missed' = [missed EXCEPT ![t] = ms]
    BY <1>2
  <2>2. row' = row /\ request' = request /\ UNCHANGED <<hooks, made, place>>
    BY DEF LoadHooks
  <2> QED
    BY <2>1, <2>2 DEF HooksInv, HooksTypeOK
<1> HIDE DEF ld
<1>7. /\ st \in SUBSET Repos /\ ms \in SUBSET Repos
      /\ hook # ours => r \in ms
      /\ \A q \in Repos \ {r} : (q \in st <=> q \in stale[t]) /\ (q \in ms <=> q \in missed[t])
  BY <1>3, CellsRead
<1> HIDE DEF st, ms, ours
<1>8. \A q \in Repos : Owned(q, row[t][q], request[t][q], ld)
  BY <1>4, <1>5, CellsRead DEF CellInv, Owned
<1>9. \A q \in Repos : Matching(row[t][q], request[t][q], ld)
  BY <1>5, CellsRead DEF CellInv, Matching
<1>10. ASSUME NEW q \in Repos, q \notin st
      PROVE  Truthful(q, row[t][q], request[t][q], ld, q \in ms)
  <2>1. ~row[t][q].shown /\ request[t][q].step # "relist"
    BY <1>1, CellsRead DEF LoadHooks, CellInv, Matching, NoRow, Row
  <2>2. CASE q = r
    <3>1. Tells(q, ld.found[q], q \in ms)
      BY <1>4, <1>5, <1>7, <2>2 DEF Tells
    <3> QED
      BY <2>1, <3>1 DEF Truthful
  <2>3. CASE q # r
    <3>1. Truthful(q, row[t][q], request[t][q], load[t], q \in ms)
      BY <1>7, <1>10, <2>3, CellsRead DEF CellInv
    <3> QED
      BY <1>5, <2>1, <2>3, <3>1 DEF Truthful
  <2> QED
    BY <2>2, <2>3
<1>11. \A q \in Repos : CellInv(q, row[t][q], request[t][q], ld, q \in st, q \in ms)
  BY <1>8, <1>9, <1>10 DEF CellInv
<1>12. /\ row[t] \in [Repos -> RowType] /\ request[t] \in [Repos -> RequestType]
       /\ stale[t] \in SUBSET Repos /\ missed[t] \in SUBSET Repos
       /\ UNCHANGED <<hooks, made>> /\ place' \in Places
       /\ \A q \in Repos : request[t][q].step # "idle" => row[t][q].shown
  BY <1>6, CellsRead
<1>13. ld.left \subseteq ld.repos
  BY <1>5, CellsRead
<1> QED
  BY <1>5, <1>6, <1>7, <1>11, <1>12, <1>13, TabStep

LEMMA ShowReposStep ==
  ASSUME HooksInv, NEW t \in Tabs, ShowRepos(t) \/ LoadFails(t)
  PROVE  HooksInv'
<1>1. PICK rw : row' = [row EXCEPT ![t] = rw] /\ rw \in [Repos -> RowType] /\
        \A r \in Repos : \/ rw[r] = NoRow
                         \/ rw[r] = Row(load[t].found[r]) /\ load[t].step = "hooks" /\ r \in load[t].repos \ load[t].left
  <2>1. CASE ShowRepos(t)
    <3> DEFINE rw == [r \in Repos |->
          IF r \in load[t].repos /\ Cardinality(Ahead(t, r)) < PerPage THEN Row(load[t].found[r]) ELSE NoRow]
    <3>1. rw \in [Repos -> RowType]
      BY NoHook, CellsRead
    <3>2. row' = [row EXCEPT ![t] = rw] /\ load[t].step = "hooks" /\ load[t].left = {}
      BY <2>1 DEF ShowRepos
    <3>3. ASSUME NEW r \in Repos
          PROVE  \/ rw[r] = NoRow
                 \/ rw[r] = Row(load[t].found[r]) /\ load[t].step = "hooks" /\ r \in load[t].repos \ load[t].left
      <4>1. \/ rw[r] = NoRow
            \/ rw[r] = Row(load[t].found[r]) /\ r \in load[t].repos
        OBVIOUS
      <4> QED
        BY <3>2, <4>1
    <3> HIDE DEF rw
    <3> QED
      BY <3>1, <3>2, <3>3
  <2>2. CASE LoadFails(t)
    <3>1. \A r \in Repos : row[t][r] = NoRow
      BY <2>2, CellsRead DEF LoadFails, CellInv, Matching
    <3>2. row' = [row EXCEPT ![t] = row[t]]
      BY <2>2 DEF LoadFails, HooksInv, HooksTypeOK
    <3> QED
      BY <3>1, <3>2, CellsRead
  <2> QED
    BY <2>1, <2>2
<1>2. /\ load' = [load EXCEPT ![t] = NotLoading] /\ request' = [request EXCEPT ![t] = request[t]]
      /\ stale' = [stale EXCEPT ![t] = stale[t]] /\ missed' = [missed EXCEPT ![t] = missed[t]]
      /\ UNCHANGED <<hooks, made, place>>
      /\ load[t].step # "idle"
  BY DEF ShowRepos, LoadFails, HooksInv, HooksTypeOK
<1>3. \A r \in Repos : request[t][r] = Idle
  BY <1>2, CellsRead DEF CellInv, Matching, NoRow
<1>4. NotLoading \in LoadType /\ NotLoading.left \subseteq NotLoading.repos
  BY HooksRead DEF NotLoading, LoadType
<1>5. ASSUME NEW r \in Repos
      PROVE  CellInv(r, rw[r], Idle, NotLoading, r \in stale[t], r \in missed[t])
  <2>1. CASE rw[r] = NoRow
    BY <2>1, NoHook DEF CellInv
  <2>2. CASE rw[r] = Row(load[t].found[r]) /\ load[t].step = "hooks" /\ r \in load[t].repos \ load[t].left
    <3>1. OwnHook(r, load[t].found[r]) /\ (r \in stale[t] \/ Tells(r, load[t].found[r], r \in missed[t]))
      BY <2>2, CellsRead DEF CellInv, Owned, Truthful
    <3>2. Owned(r, rw[r], Idle, NotLoading)
      BY <2>2, <3>1, NoHook DEF CellInv, Owned, Row
    <3>3. Matching(rw[r], Idle, NotLoading)
      BY <2>2 DEF Matching, Row, Idle, NotLoading
    <3> QED
      BY <2>2, <3>1, <3>2, <3>3 DEF CellInv, Truthful, Row, Idle, NotLoading
  <2> QED
    BY <1>1, <2>1, <2>2
<1>6. \A r \in Repos : request[t][r].step = "idle" /\ CellInv(r, rw[r], request[t][r], NotLoading, r \in stale[t], r \in missed[t])
  BY <1>3, <1>5 DEF Idle
<1> QED
  BY <1>1, <1>2, <1>4, <1>6, TabStep, CellsRead

(* A step on the request of one row that leaves the hooks alone.           *)
LEMMA RowStep ==
  ASSUME HooksInv, NEW t \in Tabs, NEW r \in Repos, UNCHANGED <<hooks, made, load, stale, missed>>, place' = place,
         NEW rw \in RowType, NEW rq \in RequestType,
         row' = [row EXCEPT ![t][r] = rw], request' = [request EXCEPT ![t][r] = rq],
         rq.step # "idle" => rw.shown,
         CellInv(r, rw, rq, load[t], r \in stale[t], r \in missed[t])
  PROVE  HooksInv'
<1> DEFINE rws == [row[t] EXCEPT ![r] = rw]
           rqs == [request[t] EXCEPT ![r] = rq]
<1>1. row[t] \in [Repos -> RowType] /\ request[t] \in [Repos -> RequestType] /\ load[t] \in LoadType
  BY CellsRead
<1>2. rws \in [Repos -> RowType] /\ rqs \in [Repos -> RequestType]
  BY <1>1
<1>3. /\ row' = [row EXCEPT ![t] = rws] /\ request' = [request EXCEPT ![t] = rqs]
      /\ load' = [load EXCEPT ![t] = load[t]] /\ stale' = [stale EXCEPT ![t] = stale[t]]
      /\ missed' = [missed EXCEPT ![t] = missed[t]]
  BY DEF HooksInv, HooksTypeOK
<1>4. ASSUME NEW q \in Repos
      PROVE  (rqs[q].step # "idle" => rws[q].shown) /\ CellInv(q, rws[q], rqs[q], load[t], q \in stale[t], q \in missed[t])
  <2>1. CASE q = r
    <3>1. rws[q] = rw /\ rqs[q] = rq
      BY <1>1, <2>1
    <3> QED
      BY <2>1, <3>1
  <2>2. CASE q # r
    <3>1. rws[q] = row[t][q] /\ rqs[q] = request[t][q]
      BY <1>1, <2>2
    <3> QED
      BY <3>1, CellsRead
  <2> QED
    BY <2>1, <2>2
<1> HIDE DEF rws, rqs
<1>5. /\ load[t] \in LoadType /\ load[t].left \subseteq load[t].repos
      /\ stale[t] \in SUBSET Repos /\ missed[t] \in SUBSET Repos
      /\ UNCHANGED <<hooks, made>> /\ place' \in Places
  BY CellsRead
<1> QED
  BY <1>2, <1>3, <1>4, <1>5, TabStep

(* Clicks, refusals, answers and failures.                                 *)
LEMMA RequestStep ==
  ASSUME HooksInv, NEW t \in Tabs, NEW r \in Repos,
         \/ ClickAdd(t, r) \/ ClickDelete(t, r) \/ RefuseHook(t, r) \/ FindRepo(t, r)
         \/ AnswerAdd(t, r) \/ RequestFails(t, r)
  PROVE  HooksInv'
<1> DEFINE cell == CellInv(r, row[t][r], request[t][r], load[t], r \in stale[t], r \in missed[t])
<1>0. /\ row[t][r] \in RowType /\ request[t][r] \in RequestType /\ load[t] \in LoadType
      /\ row \in [Tabs -> [Repos -> RowType]] /\ request \in [Tabs -> [Repos -> RequestType]]
      /\ cell /\ (request[t][r].step # "idle" => row[t][r].shown)
      /\ row[t][r].hook \in 0..MaxHooks /\ request[t][r].hook \in 0..MaxHooks
  BY CellsRead DEF HooksInv, HooksTypeOK, RowType, RequestType
<1> HIDE DEF cell
<1>1. CASE ClickAdd(t, r)
  <2> DEFINE rq == [op |-> "add", step |-> "create", hook |-> 0]
  <2>1. rq \in RequestType /\ rq.step = "create" /\ rq.hook = 0
    BY HooksRead DEF RequestType
  <2>2. /\ row' = [row EXCEPT ![t][r] = row[t][r]] /\ request' = [request EXCEPT ![t][r] = rq]
        /\ UNCHANGED <<hooks, made, load, stale, missed, place>>
    BY <1>0, <1>1 DEF ClickAdd
  <2>3. row[t][r] = Row(0) /\ row[t][r].shown /\ request[t][r].step = "idle"
    BY <1>1 DEF ClickAdd, Row, Idle
  <2> HIDE DEF rq
  <2>4. CellInv(r, row[t][r], rq, load[t], r \in stale[t], r \in missed[t])
    BY <1>0, <2>1, <2>3, NoHook DEF cell, CellInv, Owned, Matching, Truthful
  <2> QED
    BY <1>0, <2>1, <2>2, <2>3, <2>4, RowStep
<1>2. CASE ClickDelete(t, r)
  <2> DEFINE rq == [op |-> "delete", step |-> "find", hook |-> row[t][r].hook]
  <2>1. rq \in RequestType /\ rq.step = "find" /\ rq.hook = row[t][r].hook
    BY <1>0 DEF RequestType
  <2>2. /\ row' = [row EXCEPT ![t][r] = row[t][r]] /\ request' = [request EXCEPT ![t][r] = rq]
        /\ UNCHANGED <<hooks, made, load, stale, missed, place>>
    BY <1>0, <1>2 DEF ClickDelete
  <2>3. row[t][r].shown /\ row[t][r].hook # 0 /\ request[t][r].step = "idle"
    BY <1>2 DEF ClickDelete, Idle
  <2> HIDE DEF rq
  <2>4. CellInv(r, row[t][r], rq, load[t], r \in stale[t], r \in missed[t])
    BY <1>0, <2>1, <2>3 DEF cell, CellInv, Owned, Matching, Truthful
  <2> QED
    BY <1>0, <2>1, <2>2, <2>3, <2>4, RowStep
<1>3. ASSUME request[t][r].step \in {"create", "find", "delete"},
             request' = [request EXCEPT ![t][r] = Idle], UNCHANGED <<row, hooks, made, load, stale, missed, place>>
      PROVE  HooksInv'
  <2>1. row' = [row EXCEPT ![t][r] = row[t][r]]
    BY <1>0, <1>3
  <2>2. CellInv(r, row[t][r], Idle, load[t], r \in stale[t], r \in missed[t])
    BY <1>0, <1>3, NoHook DEF cell, CellInv, Owned, Matching, Truthful, Idle
  <2>3. Idle.step = "idle" /\ Idle \in RequestType
    BY NoHook DEF Idle
  <2> QED
    BY <1>0, <1>3, <2>1, <2>2, <2>3, RowStep
<1>4. CASE RefuseHook(t, r) \/ RequestFails(t, r)
  BY <1>3, <1>4 DEF RefuseHook, RequestFails
<1>5. CASE FindRepo(t, r)
  <2>1. CASE r \in ListRepos(ListMax, 1)
    <3> DEFINE rq == [request[t][r] EXCEPT !.step = "delete"]
    <3>1. rq \in RequestType /\ rq.step = "delete" /\ rq.hook = request[t][r].hook
      BY <1>0 DEF RequestType
    <3>2. /\ row' = [row EXCEPT ![t][r] = row[t][r]] /\ request' = [request EXCEPT ![t][r] = rq]
          /\ UNCHANGED <<hooks, made, load, stale, missed, place>> /\ request[t][r].step = "find"
      BY <1>0, <1>5, <2>1 DEF FindRepo
    <3> HIDE DEF rq
    <3>3. CellInv(r, row[t][r], rq, load[t], r \in stale[t], r \in missed[t])
      BY <1>0, <3>1, <3>2 DEF cell, CellInv, Owned, Matching, Truthful
    <3> QED
      BY <1>0, <3>1, <3>2, <3>3, RowStep
  <2>2. CASE r \notin ListRepos(ListMax, 1)
    <3>1. request' = [request EXCEPT ![t][r] = Idle]
      BY <1>5, <2>2 DEF FindRepo
    <3> QED
      BY <1>3, <1>5, <3>1 DEF FindRepo
  <2> QED
    BY <2>1, <2>2
<1>6. CASE AnswerAdd(t, r)
  <2>1. PICK rw \in {NoRow, Row(request[t][r].hook)} : row' = [row EXCEPT ![t][r] = rw]
    BY <1>6 DEF AnswerAdd
  <2>2. /\ request' = [request EXCEPT ![t][r] = Idle] /\ request[t][r].step = "relist"
        /\ UNCHANGED <<hooks, made, load, stale, missed, place>>
    BY <1>6 DEF AnswerAdd
  <2>3. Idle.step = "idle" /\ Idle \in RequestType /\ rw \in RowType /\ Idle.hook = 0
    BY <1>0, <2>1, NoHook DEF Idle
  <2>4. load[t].step = "idle"
    BY <1>0, <2>2 DEF cell, CellInv, Matching, Row, NoRow
  <2>5. Owned(r, rw, Idle, load[t])
    BY <1>0, <2>1, <2>3, NoHook DEF cell, CellInv, Owned, Row, NoRow
  <2>6. Matching(rw, Idle, load[t])
    BY <2>1, <2>4 DEF Matching, Idle, Row, NoRow
  <2>7. r \in stale[t] \/ Truthful(r, rw, Idle, load[t], r \in missed[t])
    BY <1>0, <2>1, <2>2, <2>4 DEF cell, CellInv, Truthful, Idle, Row, NoRow
  <2>8. CellInv(r, rw, Idle, load[t], r \in stale[t], r \in missed[t])
    BY <2>5, <2>6, <2>7 DEF CellInv
  <2> QED
    BY <2>1, <2>2, <2>3, <2>8, RowStep
<1> QED
  BY <1>1, <1>2, <1>4, <1>5, <1>6

(* A step that changes the hooks of r, and passes by all tabs' rows of r   *)
(* but those of the tab that makes it.                                     *)
LEMMA ChangeStep ==
  ASSUME HooksInv, NEW r \in Repos, Follows(r), UNCHANGED <<load, place>>,
         NEW except, PassesBy(r, except),
         row' \in [Tabs -> [Repos -> RowType]], request' \in [Tabs -> [Repos -> RequestType]],
         missed' \in [Tabs -> SUBSET Repos],
         \A u \in Tabs, q \in Repos : request'[u][q].step # "idle" => row'[u][q].shown,
         \A u \in Tabs, q \in Repos : \A rw, rq, ld, passed, gap :
           (rw = row'[u][q] /\ rq = request'[u][q] /\ ld = load[u] /\ passed = (q \in stale[u]) /\ gap = (q \in missed'[u])) =>
             \/ CellInv(q, rw, rq, ld, passed, gap) /\ (q = r => u \notin except)
             \/ CellInv(q, rw, rq, ld, passed, gap)'
  PROVE  HooksInv'
<1>1. HooksTypeOK'
  BY DEF HooksInv, HooksTypeOK, Follows, PassesBy
<1>2. \A u \in Tabs : stale'[u] = IF u \in except THEN stale[u] ELSE stale[u] \cup {r}
  BY DEF PassesBy
<1>3. ASSUME NEW u \in Tabs, NEW q \in Repos, NEW rw, NEW rq, NEW ld, NEW passed, NEW gap,
             rw = row'[u][q], rq = request'[u][q], ld = load'[u], passed = (q \in stale'[u]), gap = (q \in missed'[u])
      PROVE  CellInv(q, rw, rq, ld, passed, gap)'
  <2>1. PICK before : before = (q \in stale[u])
    OBVIOUS
  <2>2. before \in BOOLEAN /\ rw \in RowType /\ rq \in RequestType /\ ld \in LoadType
    BY <1>3, <2>1, CellsRead
  <2>3. (before => passed) /\ (q = r /\ u \notin except => passed)
    BY <1>2, <1>3, <2>1
  <2>4. CASE CellInv(q, rw, rq, ld, before, gap) /\ (q = r => u \notin except)
    <3>1. CellInv(q, rw, rq, ld, before \/ q = r, gap)'
      BY <2>2, <2>4, CellsFollow
    <3> QED
      BY <2>3, <2>4, <3>1 DEF CellInv
  <2>5. CASE CellInv(q, rw, rq, ld, before, gap)'
    BY <2>3, <2>5 DEF CellInv
  <2>6. \/ CellInv(q, rw, rq, ld, before, gap) /\ (q = r => u \notin except)
        \/ CellInv(q, rw, rq, ld, before, gap)'
    BY <1>3, <2>1
  <2> QED
    BY <2>4, <2>5, <2>6
<1> QED
  BY <1>1, <1>3, CellsSuffice DEF Follows

(* A step that leaves a tab's row and gives its request up.                *)
LEMMA GivenUp ==
  ASSUME HooksInv, NEW r \in Repos, NEW t \in Tabs, Follows(r), UNCHANGED <<row, load, place, missed>>, PassesBy(r, {}),
         request[t][r].step \in {"create", "delete"}, request' = [request EXCEPT ![t][r] = Idle]
  PROVE  HooksInv'
<1>1. /\ row' \in [Tabs -> [Repos -> RowType]] /\ request' \in [Tabs -> [Repos -> RequestType]]
      /\ request \in [Tabs -> [Repos -> RequestType]]
      /\ Idle.step = "idle"
  BY NoHook DEF HooksInv, HooksTypeOK, Idle
<1>2. \A u \in Tabs, q \in Repos : request'[u][q] = IF u = t /\ q = r THEN Idle ELSE request[u][q]
  BY <1>1
<1>3. CellInv(r, row[t][r], Idle, load[t], r \in stale[t], r \in missed[t])
  BY CellsRead, NoHook DEF CellInv, Owned, Matching, Truthful, Idle
<1>4. \A u \in Tabs, q \in Repos :
        /\ request'[u][q].step # "idle" => row'[u][q].shown
        /\ CellInv(q, row'[u][q], request'[u][q], load[u], q \in stale[u], q \in missed[u])
  BY <1>1, <1>2, <1>3, CellsRead
<1>5. missed' = missed /\ missed' \in [Tabs -> SUBSET Repos]
  BY DEF HooksInv, HooksTypeOK
<1>6. ASSUME NEW u \in Tabs, NEW q \in Repos, NEW w, NEW k, NEW ld, NEW passed, NEW gap,
             w = row'[u][q], k = request'[u][q], ld = load[u], passed = (q \in stale[u]), gap = (q \in missed'[u])
      PROVE  CellInv(q, w, k, ld, passed, gap)
  BY <1>4, <1>5, <1>6
<1> QED
  BY <1>1, <1>4, <1>5, <1>6, ChangeStep

LEMMA CreateHookStep ==
  ASSUME HooksInv, NEW t \in Tabs, NEW r \in Repos, CreateHook(t, r)
  PROVE  HooksInv'
<1>1. Adds(r, TRUE)
  BY DEF CreateHook, Adds
<1>2. Follows(r) /\ (\A n : n = made + 1 => OwnHook(r, n)') /\ Delivering(r)' = {made + 1}
  BY <1>1, AddsFollows
<1>3. PICK n : n = made + 1
  OBVIOUS
<1>4. n \in 1..MaxHooks
  BY <1>1, <1>3, HooksRead DEF Adds
<1> DEFINE rq == [op |-> "add", step |-> "relist", hook |-> n]
<1>5. /\ rq \in RequestType /\ rq.step = "relist" /\ rq.hook = n
      /\ request[t][r].step = "create" /\ row[t][r] = Row(0) /\ load[t].step = "idle" /\ row[t][r].shown
      /\ load[t].found[r] \in 0..MaxHooks
  <2>1. request[t][r] \in RequestType /\ request[t][r].step = "create"
    BY CellsRead DEF CreateHook
  <2>2. rq \in RequestType /\ rq.step = "relist" /\ rq.hook = n
    BY <1>4, <2>1 DEF RequestType
  <2>3. row[t][r] = Row(0)
    BY <2>1, CellsRead DEF CellInv, Matching
  <2>4. load[t].step = "idle" /\ row[t][r].shown
    BY <2>1, <2>3, CellsRead DEF CellInv, Matching, Row, NoRow
  <2> QED
    BY <2>1, <2>2, <2>3, <2>4, CellsRead
<1>6. /\ row' = row /\ UNCHANGED <<load, place>> /\ PassesBy(r, {t})
      /\ request' = [request EXCEPT ![t][r] = rq]
      /\ row' \in [Tabs -> [Repos -> RowType]] /\ request \in [Tabs -> [Repos -> RequestType]]
  BY <1>3 DEF CreateHook, HooksInv, HooksTypeOK
<1> HIDE DEF rq
<1>7. request' \in [Tabs -> [Repos -> RequestType]]
  BY <1>5, <1>6
<1>8. \A u \in Tabs, q \in Repos : request'[u][q] = IF u = t /\ q = r THEN rq ELSE request[u][q]
  BY <1>6
<1>9. \A u \in Tabs, q \in Repos : request'[u][q].step # "idle" => row'[u][q].shown
  BY <1>5, <1>6, <1>8, CellsRead
<1>10. ASSUME NEW w, NEW k, NEW ld, NEW passed, NEW gap, w = row[t][r], k = rq, ld = load[t]
       PROVE  CellInv(r, w, k, ld, passed, gap)'
  <2>1. OwnHook(r, 0) /\ OwnHook(r, ld.found[r]) /\ 0 \in 0..MaxHooks
    BY <1>10, CellsRead, NoHook, HooksRead DEF CellInv, Owned
  <2>2. \A hook \in 0..MaxHooks : OwnHook(r, hook) => OwnHook(r, hook)'
    BY <1>2 DEF Follows
  <2>3. w.hook = 0 /\ k.hook = n /\ k.step = "relist" /\ ld.step = "idle" /\ w = Row(0)
    BY <1>5, <1>10 DEF Row
  <2>4. Owned(r, w, k, ld)'
    BY <1>2, <1>3, <1>5, <1>10, <2>1, <2>2, <2>3 DEF Owned
  <2>5. Matching(w, k, ld)'
    BY <2>3 DEF Matching, Row
  <2>6. Tells(r, n, gap)'
    BY <1>2, <1>3, <1>4 DEF Tells
  <2>7. Truthful(r, w, k, ld, gap)'
    BY <1>4, <2>3, <2>6 DEF Truthful
  <2> QED
    BY <2>4, <2>5, <2>7 DEF CellInv
<1>11. missed' = missed /\ missed' \in [Tabs -> SUBSET Repos]
  BY DEF CreateHook, HooksInv, HooksTypeOK
<1>12. ASSUME NEW u \in Tabs, NEW q \in Repos, NEW w, NEW k, NEW ld, NEW passed, NEW gap,
              w = row'[u][q], k = request'[u][q], ld = load[u], passed = (q \in stale[u]), gap = (q \in missed'[u])
       PROVE  \/ CellInv(q, w, k, ld, passed, gap) /\ (q = r => u \notin {t})
              \/ CellInv(q, w, k, ld, passed, gap)'
  <2>1. CASE u = t /\ q = r
    <3>1. CellInv(r, w, k, ld, passed, gap)'
      BY <1>6, <1>8, <1>10, <1>12, <2>1
    <3> QED
      BY <2>1, <3>1
  <2>2. CASE ~(u = t /\ q = r)
    <3>1. CellInv(q, w, k, ld, passed, gap)
      BY <1>6, <1>8, <1>11, <1>12, <2>2, CellsRead
    <3> QED
      BY <2>2, <3>1
  <2> QED
    BY <2>1, <2>2
<1> QED
  BY <1>2, <1>6, <1>7, <1>9, <1>11, <1>12, ChangeStep

LEMMA DeleteHookStep ==
  ASSUME HooksInv, NEW t \in Tabs, NEW r \in Repos, DeleteHook(t, r)
  PROVE  HooksInv'
<1> DEFINE id == request[t][r].hook
<1>1. Removes(r, id)
  BY DEF DeleteHook, Removes
<1>2. Follows(r) /\ Delivering(r)' = Delivering(r) \ {id}
  BY <1>1, RemovesFollows
<1>3. /\ request[t][r].step = "delete" /\ id = row[t][r].hook /\ id # 0 /\ row[t][r].shown /\ load[t].step = "idle"
      /\ r \in stale[t] \/ Delivering(r) = {id}
  <2>1. request[t][r].step = "delete" /\ row[t][r].shown
    BY CellsRead DEF DeleteHook
  <2>2. id = row[t][r].hook /\ id # 0
    BY <2>1, CellsRead DEF CellInv, Matching
  <2>3. load[t].step = "idle"
    BY <2>1, CellsRead DEF CellInv, Matching, NoRow
  <2>4. r \in stale[t] \/ Delivering(r) = {id}
    BY <2>1, <2>2, CellsRead DEF CellInv, Truthful, Tells
  <2> QED
    BY <2>1, <2>2, <2>3, <2>4
<1>4. /\ row' = [row EXCEPT ![t][r] = Row(0)] /\ UNCHANGED <<load, place>> /\ PassesBy(r, {t})
      /\ request' = [request EXCEPT ![t][r] = Idle]
      /\ row \in [Tabs -> [Repos -> RowType]] /\ request \in [Tabs -> [Repos -> RequestType]]
  BY DEF DeleteHook, HooksInv, HooksTypeOK
<1>5. Idle \in RequestType /\ Row(0) \in RowType /\ Idle.step = "idle" /\ Idle.hook = 0 /\ Row(0).hook = 0 /\ Row(0).shown
  <2>1. Idle \in RequestType /\ Row(0) \in RowType
    <3>1. 0 \in 0..MaxHooks
      BY HooksRead
    <3> QED
      BY <3>1, NoHook
  <2> QED
    BY <2>1 DEF Idle, Row
<1>6. row' \in [Tabs -> [Repos -> RowType]] /\ request' \in [Tabs -> [Repos -> RequestType]]
  BY <1>4, <1>5
<1>7. \A u \in Tabs, q \in Repos :
        /\ request'[u][q] = IF u = t /\ q = r THEN Idle ELSE request[u][q]
        /\ row'[u][q] = IF u = t /\ q = r THEN Row(0) ELSE row[u][q]
  BY <1>4
<1>8. \A u \in Tabs, q \in Repos : request'[u][q].step # "idle" => row'[u][q].shown
  BY <1>5, <1>7, CellsRead
<1>9. ASSUME NEW ld, NEW passed, NEW gap, ld = load[t], passed = (r \in stale[t]), gap = (r \in missed'[t])
      PROVE  CellInv(r, Row(0), Idle, ld, passed, gap)'
  <2>1. OwnHook(r, 0) /\ OwnHook(r, ld.found[r]) /\ 0 \in 0..MaxHooks /\ ld.found[r] \in 0..MaxHooks
    BY <1>9, CellsRead, NoHook, HooksRead DEF CellInv, Owned
  <2>2. \A hook \in 0..MaxHooks : OwnHook(r, hook) => OwnHook(r, hook)'
    BY <1>2 DEF Follows
  <2>3. Owned(r, Row(0), Idle, ld)'
    BY <2>1, <2>2 DEF Owned, Row, Idle
  <2>4. Matching(Row(0), Idle, ld)'
    BY <1>3, <1>9 DEF Matching, Row, Idle
  <2>5. passed \/ Tells(r, 0, gap)'
    BY <1>2, <1>3, <1>9 DEF Tells
  <2>6. passed \/ Truthful(r, Row(0), Idle, ld, gap)'
    BY <1>3, <1>9, <2>5 DEF Truthful, Row, Idle
  <2> QED
    BY <2>3, <2>4, <2>6 DEF CellInv
<1>10. /\ missed' \in [Tabs -> SUBSET Repos]
       /\ \A u \in Tabs, q \in Repos : ~(u = t /\ q = r) => (q \in missed'[u] <=> q \in missed[u])
  BY DEF DeleteHook, HooksInv, HooksTypeOK
<1>11. ASSUME NEW u \in Tabs, NEW q \in Repos, NEW w, NEW k, NEW ld, NEW passed, NEW gap,
              w = row'[u][q], k = request'[u][q], ld = load[u], passed = (q \in stale[u]), gap = (q \in missed'[u])
       PROVE  \/ CellInv(q, w, k, ld, passed, gap) /\ (q = r => u \notin {t})
              \/ CellInv(q, w, k, ld, passed, gap)'
  <2>1. CASE u = t /\ q = r
    <3>1. w = Row(0) /\ k = Idle
      BY <1>7, <1>11, <2>1
    <3>2. CellInv(r, Row(0), Idle, ld, passed, gap)'
      BY <1>9, <1>11, <2>1
    <3> QED
      BY <2>1, <3>1, <3>2 DEF Row, Idle
  <2>2. CASE ~(u = t /\ q = r)
    <3>1. CellInv(q, w, k, ld, passed, gap)
      BY <1>7, <1>10, <1>11, <2>2, CellsRead
    <3> QED
      BY <2>2, <3>1
  <2> QED
    BY <2>1, <2>2
<1> QED
  BY <1>2, <1>4, <1>6, <1>8, <1>10, <1>11, ChangeStep

LEMMA ChangeHooksStep ==
  ASSUME HooksInv, NEW r \in Repos, ChangeHooks(r)
  PROVE  HooksInv'
<1>1. Follows(r)
  <2>1. \/ \E ours \in BOOLEAN : Adds(r, ours)
        \/ \E h \in hooks[r] : Removes(r, h.id) \/ Toggles(r, h)
    BY DEF ChangeHooks, Adds, Removes, Toggles
  <2> QED
    BY <2>1, AddsFollows, RemovesFollows, TogglesFollows
<1>2. /\ UNCHANGED <<row, request, load, place>> /\ PassesBy(r, {})
      /\ row' \in [Tabs -> [Repos -> RowType]] /\ request' \in [Tabs -> [Repos -> RequestType]]
  BY DEF ChangeHooks, HooksInv, HooksTypeOK
<1>3. \A u \in Tabs, q \in Repos :
        /\ request'[u][q].step # "idle" => row'[u][q].shown
        /\ CellInv(q, row'[u][q], request'[u][q], load[u], q \in stale[u], q \in missed[u])
  BY <1>2, CellsRead
<1>4. missed' = missed /\ missed' \in [Tabs -> SUBSET Repos]
  BY DEF ChangeHooks, HooksInv, HooksTypeOK
<1>5. ASSUME NEW u \in Tabs, NEW q \in Repos, NEW w, NEW k, NEW ld, NEW passed, NEW gap,
             w = row'[u][q], k = request'[u][q], ld = load[u], passed = (q \in stale[u]), gap = (q \in missed'[u])
      PROVE  CellInv(q, w, k, ld, passed, gap)
  BY <1>3, <1>4, <1>5
<1> QED
  BY <1>1, <1>2, <1>3, <1>4, <1>5, ChangeStep

(* The list moves, a call's answer is lost, or nothing happens here.       *)
LEMMA TouchStep ==
  ASSUME HooksInv, \/ \E r \in Repos : Touch(r)
                   \/ UNCHANGED hookVars
  PROVE  HooksInv'
<1>1. UNCHANGED <<hooks, made, row, request, load, stale, missed>> /\ place' \in Places
  BY TouchKeepsOrder DEF Touch, hookVars, HooksInv, HooksTypeOK
<1>2. HooksTypeOK' /\ HooksNumbered'
  BY <1>1 DEF HooksInv, HooksTypeOK, HooksNumbered, Ours, Ids
<1>3. ASSUME NEW u \in Tabs, NEW q \in Repos, NEW w, NEW k, NEW l, NEW passed, NEW gap,
             w = row'[u][q], k = request'[u][q], l = load'[u], passed = (q \in stale'[u]), gap = (q \in missed'[u])
      PROVE  CellInv(q, w, k, l, passed, gap)'
  <2>1. CellInv(q, w, k, l, passed, gap)
    BY <1>1, <1>3 DEF HooksInv
  <2> QED
    BY <1>1, <2>1 DEF CellInv, Owned, Matching, Truthful, OwnHook, Tells, Delivering, Ours, Ids, Idle, Row, NoRow
<1> QED
  BY <1>2, <1>3, CellsSuffice

LEMMA LoseStep ==
  ASSUME HooksInv, NEW t \in Tabs, NEW r \in Repos, LoseCreated(t, r) \/ LoseDeleted(t, r)
  PROVE  HooksInv'
<1>1. CASE LoseCreated(t, r)
  <2>1. Adds(r, TRUE)
    BY <1>1 DEF LoseCreated, Adds
  <2>2. Follows(r)
    BY <2>1, AddsFollows
  <2> QED
    BY <1>1, <2>2, GivenUp DEF LoseCreated
<1>2. CASE LoseDeleted(t, r)
  <2>1. Removes(r, request[t][r].hook)
    BY <1>2 DEF LoseDeleted, Removes
  <2>2. Follows(r)
    BY <2>1, RemovesFollows
  <2> QED
    BY <1>2, <2>2, GivenUp DEF LoseDeleted
<1> QED
  BY <1>1, <1>2

LEMMA HooksStep ==
  ASSUME HooksInv, [HooksNext]_hookVars
  PROVE  HooksInv'
<1>1. ASSUME NEW t \in Tabs, NEW p \in 1..(Cardinality(Repos) + PerPage) \div PerPage, OpenPage(t, p)
      PROVE  HooksInv'
  BY <1>1, OpenPageStep
<1>2. ASSUME NEW t \in Tabs, LoadRepos(t) \/ LoadHooks(t) \/ ShowRepos(t) \/ LoadFails(t)
      PROVE  HooksInv'
  BY <1>2, LoadReposStep, LoadHooksStep, ShowReposStep
<1>3. ASSUME NEW t \in Tabs, NEW r \in Repos,
             \/ ClickAdd(t, r) \/ ClickDelete(t, r) \/ Serve(t, r)
             \/ LoseCreated(t, r) \/ LoseDeleted(t, r) \/ RequestFails(t, r)
      PROVE  HooksInv'
  BY <1>3, RequestStep, CreateHookStep, DeleteHookStep, LoseStep DEF Serve
<1>4. ASSUME NEW r \in Repos, ChangeHooks(r) \/ Touch(r)
      PROVE  HooksInv'
  BY <1>4, ChangeHooksStep, TouchStep
<1>5. CASE UNCHANGED hookVars
  BY <1>5, TouchStep
<1> QED
  BY <1>1, <1>2, <1>3, <1>4, <1>5 DEF HooksNext

-----------------------------------------------------------------------------
(* The theorems                                                            *)

LEMMA SettingsStayTyped ==
  /\ SettingsInit => SettingsTypeOK
  /\ SettingsTypeOK /\ [SettingsNext]_settingsVars => SettingsTypeOK'
<1>1. SettingsInit => SettingsTypeOK
  BY DEF SettingsInit, SettingsTypeOK, NoPage
<1>2. SettingsTypeOK /\ [SettingsNext]_settingsVars => SettingsTypeOK'
  BY DEF SettingsTypeOK, SettingsNext, settingsVars, ShowName, RefuseName, UpdateSettings, UpdateFails, Login, NoPage
<1> QED
  BY <1>1, <1>2

LEMMA ProfileInvariant == Spec => [](HooksInv /\ SettingsTypeOK)
<1>1. Init => HooksInv /\ SettingsTypeOK
  BY HooksInitially, SettingsStayTyped DEF Init
<1>2. HooksInv /\ SettingsTypeOK /\ [Next]_<<visit, hookVars, settingsVars>> => (HooksInv /\ SettingsTypeOK)'
  <2> SUFFICES ASSUME HooksInv, SettingsTypeOK, [Next]_<<visit, hookVars, settingsVars>>
               PROVE  HooksInv' /\ SettingsTypeOK'
    OBVIOUS
  <2>1. [HooksNext]_hookVars /\ [SettingsNext]_settingsVars
    BY DEF Next
  <2> QED
    BY <2>1, HooksStep, SettingsStayTyped
<1> QED
  BY <1>1, <1>2, PTL DEF Spec

(* Rows, requests, lists and names are always what their queries and forms *)
(* allow (profile.go, github.go).                                          *)
THEOREM TypesCorrect == Spec => []TypeOK
<1>1. HooksInv /\ SettingsTypeOK => TypeOK
  BY DEF HooksInv, TypeOK
<1> QED
  BY <1>1, ProfileInvariant, PTL

(* A row that no change passed by tells what GitHub has, but for an Add    *)
(* row whose hook the list missed when the call for it failed; an Added    *)
(* row tells it whatever calls failed, and no row names a hook of another  *)
(* repository (profile.go:105-128,155-175,219-240, github.go:103-155).     *)
THEOREM RowsAreTrue == Spec => []RowsTellTheTruth
<1>1. ASSUME HooksInv, NEW t \in Tabs, NEW r \in Repos, row[t][r].shown, request[t][r] = Idle,
             r \notin stale[t], Cardinality(hooks[r]) <= HooksMax
      PROVE  Delivering(r) = {row[t][r].hook} \ {0} \/ (row[t][r].hook = 0 /\ r \in missed[t])
  <2>1. /\ Truthful(r, row[t][r], request[t][r], load[t], r \in missed[t])
        /\ request[t][r].step = "idle"
    BY <1>1, CellsRead DEF CellInv, Idle
  <2> QED
    BY <1>1, <2>1 DEF Truthful, Tells
<1>2. ASSUME HooksInv, NEW t \in Tabs, NEW r \in Repos, NEW q \in Repos \ {r}
      PROVE  row[t][r].hook \notin Ids(q)
  BY <1>2 DEF HooksInv, CellInv, Owned, OwnHook
<1>3. HooksInv => RowsTellTheTruth
  BY <1>1, <1>2 DEF RowsTellTheTruth, Delivering
<1> QED
  BY <1>3, ProfileInvariant, PTL

(* Serving a request, its answer lost or not, never removes a hook of      *)
(* somebody else's service (github.go:158-240).                            *)
THEOREM ForeignHooksAreSafe == Spec => ForeignHooksStay
<1>1. HooksInv /\ [HooksNext]_hookVars =>
        [\A t \in Tabs, r \in Repos : Serve(t, r) \/ LoseDeleted(t, r) =>
           hooks[r] \ Ours(r) \subseteq hooks'[r]]_hookVars
  <2> SUFFICES ASSUME HooksInv, NEW t \in Tabs, NEW r \in Repos, Serve(t, r) \/ LoseDeleted(t, r)
               PROVE  hooks[r] \ Ours(r) \subseteq hooks'[r]
    OBVIOUS
  <2>1. hooks \in [Repos -> SUBSET Hook]
    BY HooksRead
  <2>2. CASE UNCHANGED hooks
    BY <2>2
  <2>3. CASE CreateHook(t, r)
    BY <2>1, <2>3 DEF CreateHook
  <2>4. CASE DeleteHook(t, r) \/ LoseDeleted(t, r)
    <3>1. hooks'[r] = {h \in hooks[r] : h.id # request[t][r].hook}
      BY <2>1, <2>4 DEF DeleteHook, LoseDeleted, Without
    <3>2. \A h \in hooks[r] : h.id = request[t][r].hook => h.ours
      BY CellsRead DEF CellInv, Owned, OwnHook
    <3> QED
      BY <3>1, <3>2 DEF Ours
  <2> QED
    BY <2>2, <2>3, <2>4 DEF Serve, RefuseHook, AnswerAdd, FindRepo
<1>2. [Next]_<<visit, hookVars, settingsVars>> => [HooksNext]_hookVars
  BY DEF Next
<1> QED
  BY <1>1, <1>2, ProfileInvariant, PTL DEF Spec, ForeignHooksStay

=============================================================================
