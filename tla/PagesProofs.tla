------------------------------- MODULE PagesProofs ------------------------------
(***************************************************************************)
(* Theorems about KeywordRules, ItemList and ChatPage, and about Pages,    *)
(* which puts them beside SharedScan, for every value of their constants.  *)
(***************************************************************************)
EXTENDS Pages, SharedScanProofs, FiniteSetTheorems, WellFoundedInduction

-----------------------------------------------------------------------------
(* Rows with ids of their own *)

\* Rows that were given the ids below n, each its own.
Kept(rows, n) ==
    /\ \A r \in rows : r.id \in Nat /\ r.id < n
    /\ \A r, s \in rows : r.id = s.id => r = s

\* There are finitely many of them.
LEMMA KeptIsFinite ==
    ASSUME NEW n \in Nat, NEW rows, Kept(rows, n)
    PROVE  IsFiniteSet(rows)
<1> DEFINE f == [r \in rows |-> r.id]
<1>1. f \in Injection(rows, 0 .. n)
  BY DEF Kept, Injection, IsInjective
<1>2. IsFiniteSet(0 .. n)
  BY FS_Interval
<1> QED
  BY <1>1, <1>2, FS_Injection

\* A set of numbers has a least element.
LEMMA LeastNumber ==
    ASSUME NEW T \in SUBSET Nat, T # {}
    PROVE  \E i \in T : \A j \in T : i <= j
<1>1. PICK i \in T : \A j \in T : <<j, i>> \notin OpToRel(<, Nat)
  BY NatLessThanWellFounded, WFMin, Zenon
<1>2. ASSUME NEW j \in T
      PROVE  i <= j
  <2>1. ~(j < i)
    BY <1>1 DEF OpToRel
  <2>2. i \in Nat /\ j \in Nat
    OBVIOUS
  <2> QED
    BY <2>1, <2>2
<1> QED
  BY <1>2

\* Of some rows one is the newest and one the oldest.
LEMMA NewestIsOne ==
    ASSUME NEW n \in Nat, NEW rows, Kept(rows, n), NEW some \in SUBSET rows, some # {}
    PROVE  Newest(some) \in some
<1> DEFINE Ages == {k \in 0 .. n : \E r \in some : r.id + k = n}
<1>1. Ages \in SUBSET Nat
  OBVIOUS
<1>2. Ages # {}
  <2>1. PICK r \in some : r.id \in Nat /\ r.id < n
    BY DEF Kept
  <2>2. n - r.id \in Ages
    BY <2>1
  <2> QED
    BY <2>2
<1>3. PICK k \in Ages : \A j \in Ages : k <= j
  BY <1>1, <1>2, LeastNumber
<1>4. PICK r \in some : r.id + k = n
  BY <1>3
<1>5. ASSUME NEW s \in some
      PROVE  s.id <= r.id
  <2>1. r.id \in Nat /\ s.id \in Nat /\ s.id < n
    BY DEF Kept
  <2>2. n - s.id \in Ages
    BY <2>1
  <2> QED
    BY <1>3, <1>4, <2>1, <2>2
<1> QED
  BY <1>5 DEF Newest

\* ... and the oldest is one of them.
LEMMA OldestIsOne ==
    ASSUME NEW n \in Nat, NEW rows, Kept(rows, n), NEW some \in SUBSET rows, some # {}
    PROVE  Oldest(some) \in some
<1> DEFINE Ids == {k \in Nat : \E r \in some : r.id = k}
<1>1. Ids \in SUBSET Nat /\ Ids # {}
  BY DEF Kept
<1>2. PICK k \in Ids : \A j \in Ids : k <= j
  BY <1>1, LeastNumber
<1>3. PICK r \in some : r.id = k
  BY <1>2
<1>4. \A s \in some : s.id \in Ids
  BY DEF Kept
<1> QED
  BY <1>2, <1>3, <1>4 DEF Oldest

\* The rows of a saved list have new ids, each its own: the number of rows newer than one
\* differs from row to row.
LEMMA NewRowsAreKept ==
    ASSUME NEW n \in Nat, NEW base, Kept(base, n), NEW new, nextId \in Nat
    PROVE  /\ Cardinality(base) \in Nat
           /\ \A r \in NewRows(base, new) :
                r.id \in Nat /\ nextId <= r.id /\ r.id < nextId + Cardinality(base) + 1
           /\ \A r, s \in NewRows(base, new) : r.id = s.id => r = s
<1> DEFINE Newer(row) == {s \in base : s.id > row.id}
           Rank(row) == Cardinality(Newer(row))
<1>1. IsFiniteSet(base) /\ Cardinality(base) \in Nat
  BY KeptIsFinite, FS_CardinalityType
<1>2. ASSUME NEW row \in base
      PROVE  IsFiniteSet(Newer(row)) /\ Rank(row) \in Nat /\ Rank(row) < Cardinality(base)
  <2>1. Newer(row) \in SUBSET base /\ row \notin Newer(row)
    BY DEF Kept
  <2>2. /\ IsFiniteSet(Newer(row)) /\ Rank(row) <= Cardinality(base)
        /\ Cardinality(base) = Rank(row) => base = Newer(row)
    BY <1>1, <2>1, FS_Subset
  <2>3. Rank(row) \in Nat
    BY <2>2, FS_CardinalityType
  <2> QED
    BY <1>1, <2>1, <2>2, <2>3
<1>3. ASSUME NEW row \in base, NEW other \in base, row.id < other.id
      PROVE  Rank(other) < Rank(row)
  <2>1. Newer(other) \in SUBSET Newer(row)
    BY <1>3 DEF Kept
  <2>2. other \in Newer(row) /\ other \notin Newer(other)
    BY <1>3 DEF Kept
  <2>3. /\ Rank(other) <= Rank(row)
        /\ Rank(row) = Rank(other) => Newer(row) = Newer(other)
    BY <1>2, <2>1, FS_Subset
  <2> QED
    BY <1>2, <2>2, <2>3
<1>4. ASSUME NEW row \in base, NEW other \in base, Rank(row) = Rank(other)
      PROVE  row = other
  <2>1. row.id \in Nat /\ other.id \in Nat
    BY DEF Kept
  <2>2. Rank(row) \in Nat /\ Rank(other) \in Nat
    BY <1>2
  <2>3. ~(row.id < other.id)
    <3> SUFFICES ASSUME row.id < other.id
                 PROVE  FALSE
      OBVIOUS
    <3>1. Rank(other) < Rank(row)
      BY <1>3
    <3> QED
      BY <1>4, <2>2, <3>1
  <2>4. ~(other.id < row.id)
    <3> SUFFICES ASSUME other.id < row.id
                 PROVE  FALSE
      OBVIOUS
    <3>1. Rank(row) < Rank(other)
      BY <1>3
    <3> QED
      BY <1>4, <2>2, <3>1
  <2> QED
    BY <2>1, <2>3, <2>4 DEF Kept
<1> HIDE DEF Rank, Newer
<1>5. NewRows(base, new) = {Row(row.rule, nextId + Rank(row)) : row \in base}
                             \cup {Row(new, nextId + Cardinality(base))}
  BY DEF NewRows, Rank, Newer
<1>6. ASSUME NEW r \in NewRows(base, new)
      PROVE  r.id \in Nat /\ nextId <= r.id /\ r.id < nextId + Cardinality(base) + 1
  BY <1>1, <1>2, <1>5 DEF Row
<1>7. ASSUME NEW r \in NewRows(base, new), NEW s \in NewRows(base, new), r.id = s.id
      PROVE  r = s
  <2>1. CASE r = Row(new, nextId + Cardinality(base)) \/ s = Row(new, nextId + Cardinality(base))
    BY <2>1, <1>1, <1>2, <1>5, <1>7 DEF Row
  <2>2. CASE \E row, other \in base : /\ r = Row(row.rule, nextId + Rank(row))
                                      /\ s = Row(other.rule, nextId + Rank(other))
    <3>1. PICK row \in base, other \in base : /\ r = Row(row.rule, nextId + Rank(row))
                                              /\ s = Row(other.rule, nextId + Rank(other))
      BY <2>2
    <3>2. Rank(row) = Rank(other)
      BY <1>2, <1>7, <3>1 DEF Row
    <3> QED
      BY <1>4, <3>1, <3>2
  <2> QED
    BY <1>5, <2>1, <2>2
<1> QED
  BY <1>1, <1>6, <1>7

-----------------------------------------------------------------------------
(* The keyword rules: the inductive invariant *)

RowRec == [id : Nat, rule : Rule]

\* What a tab is about to change: the rule it adds or imports, the row it deletes or edits,
\* or the list it read and saves with the new rule.
Change ==
    {Nothing} \cup [do : {"read", "import"}, rule : Rule]
      \cup [do : {"save"}, rule : Rule, base : SUBSET RowRec]
      \cup [do : {"delete"}, row : RowRec]
      \cup [do : {"update"}, row : RowRec, rule : Rule]

RuleTypes ==
    /\ nextId \in Nat
    /\ rules \subseteq RowRec
    /\ listed \in [Tab -> SUBSET RowRec]
    /\ change \in [Tab -> Change]
    /\ known \subseteq Rule
    /\ requested \in 0 .. MaxRules
    /\ overwritten \in BOOLEAN

\* The stored rows, the listed ones and those of a list that is saved were given their ids.
\* A list that is saved is of text.
IdsGiven ==
    /\ Kept(rules, nextId)
    /\ \A t \in Tab : \A r \in listed[t] : r.id < nextId
    /\ \A t \in Tab : change[t].do = "save" =>
            Kept(change[t].base, nextId) /\ Text(change[t].base) = change[t].base

RulesInv == RuleTypes /\ IdsGiven /\ RulesStay

-----------------------------------------------------------------------------
(* What the changes do *)

\* A change that ends leaves the tab with none, and the other tabs with theirs.
LEMMA EndsEffect ==
    ASSUME RuleTypes, NEW t \in Tab, Ends(t)
    PROVE  /\ change' \in [Tab -> Change] /\ change'[t] = Nothing
           /\ \A u \in Tab \ {t} : change'[u] = change[u]
           /\ UNCHANGED <<listed, requested>>
BY DEF RuleTypes, Ends, Change

\* What a change carries.
LEMMA Carries ==
    ASSUME RuleTypes, NEW t \in Tab
    PROVE  /\ change[t].do \in {"read", "import", "save", "update"} => change[t].rule \in Rule
           /\ change[t].do \in {"delete", "update"} => change[t].row \in RowRec
           /\ change[t].do = "save" => change[t].base \subseteq RowRec
<1>1. change[t] \in Change
  BY DEF RuleTypes
<1> QED
  BY <1>1 DEF Change, Nothing

\* The saved list: the pictures as they were, the rules of text with new ids.
LEMMA SavedList ==
    ASSUME RuleTypes, IdsGiven, NEW t \in Tab, change[t].do = "save", SaveList(t)
    PROVE  /\ Cardinality(change[t].base) \in Nat /\ nextId' \in Nat /\ nextId < nextId'
           /\ rules' \subseteq RowRec /\ Kept(rules', nextId')
<1> DEFINE base == change[t].base
           new == change[t].rule
<1>1. base \subseteq RowRec /\ Kept(base, nextId) /\ new \in Rule
  BY Carries DEF IdsGiven
<1>2. rules' = (rules \ Text(rules)) \cup NewRows(base, new)
      /\ nextId' = nextId + Cardinality(base) + 1
  BY DEF SaveList, Saved
<1>3. /\ Cardinality(base) \in Nat
      /\ \A r \in NewRows(base, new) :
            r.id \in Nat /\ nextId <= r.id /\ r.id < nextId + Cardinality(base) + 1
      /\ \A r, s \in NewRows(base, new) : r.id = s.id => r = s
  BY <1>1, NewRowsAreKept DEF RuleTypes
<1>4. NewRows(base, new) \subseteq RowRec
  <2>1. ASSUME NEW r \in NewRows(base, new)
        PROVE  r \in RowRec
    <3>1. r.id \in Nat
      BY <1>3
    <3>2. \E id : \E rule \in Rule : r = Row(rule, id)
      BY <1>1 DEF NewRows, RowRec
    <3> QED
      BY <3>1, <3>2 DEF Row, RowRec
  <2> QED
    BY <2>1
<1> HIDE DEF base, new
<1>5. Kept(rules', nextId')
  BY <1>2, <1>3 DEF Kept, IdsGiven, RuleTypes
<1>6. nextId' \in Nat /\ nextId < nextId' /\ rules' \subseteq RowRec
  BY <1>2, <1>3, <1>4 DEF RuleTypes
<1> QED
  BY <1>3, <1>5, <1>6 DEF base

\* A row that is inserted gets the next id.
LEMMA Inserted ==
    ASSUME RuleTypes, IdsGiven, NEW r \in Rule, Insert(r)
    PROVE  /\ nextId' \in Nat /\ nextId < nextId'
           /\ rules' \subseteq RowRec /\ Kept(rules', nextId')
BY DEF Insert, Row, RowRec, Kept, IdsGiven, RuleTypes

\* A row that is rewritten keeps its id.
LEMMA Rewritten ==
    ASSUME RuleTypes, IdsGiven, NEW r \in Rule, NEW row \in rules, Rewrite(row, r)
    PROVE  /\ nextId' = nextId
           /\ rules' \subseteq RowRec /\ Kept(rules', nextId')
           /\ \E s \in rules' : s.rule = r
           /\ \A s \in rules \ {row} : s \in rules'
<1>1. /\ rules' = (rules \ {row}) \cup {Row(r, row.id)} /\ nextId' = nextId
      /\ Row(r, row.id).id = row.id /\ Row(r, row.id).rule = r
  BY DEF Rewrite, Row
<1>2. Row(r, row.id) \in RowRec /\ rules \subseteq RowRec
  BY DEF Row, RowRec, RuleTypes
<1>3. Kept(rules', nextId)
  BY <1>1 DEF Kept, IdsGiven
<1> QED
  BY <1>1, <1>2, <1>3

\* The row a request means is stored.
LEMMA Meant ==
    ASSUME RuleTypes, IdsGiven, NEW hits \in SUBSET rules, hits # {}
    PROVE  Newest(hits) \in rules /\ Oldest(hits) \in rules
BY NewestIsOne, OldestIsOne DEF RuleTypes, IdsGiven


\* A deletion takes a stored row.
LEMMA DeleteEffect ==
    ASSUME RuleTypes, IdsGiven, NEW t \in Tab, Delete(t)
    PROVE  \E row \in rules : rules' = rules \ {row} /\ known' = Forget(row)
<1> DEFINE hits == {s \in rules : s.id = change[t].row.id} \cup Fits(change[t].row.rule)
<1>1. hits \in SUBSET rules /\ hits # {}
  BY DEF Delete, Fits
<1>2. rules' = rules \ {Newest(hits)} /\ known' = Forget(Newest(hits))
  BY DEF Delete
<1> QED
  BY <1>1, <1>2, Meant

\* An edit, and an import that finds the keyword, make a stored row another rule.
Turned(row, r) == Rewrite(row, r) /\ known' = Forget(row) \cup {r}

\* An edit turns a stored row.
LEMMA UpdateEffect ==
    ASSUME RuleTypes, IdsGiven, NEW t \in Tab, Update(t)
    PROVE  \E row \in rules, r \in Rule : Turned(row, r)
<1> DEFINE hits == Fits(change[t].row.rule)
           row == Newest(hits)
           new == [change[t].rule EXCEPT !.image = row.rule.image]
<1>1. hits \in SUBSET rules /\ hits # {}
  BY DEF Update, Fits
<1>2. Turned(row, new)
  BY DEF Update, Turned
<1>3. row \in rules
  BY <1>1, Meant
<1>4. change[t].rule \in Rule /\ row.rule \in Rule
  BY <1>3, Carries DEF Update, RuleTypes, RowRec
<1>5. new \in Rule
  BY <1>4 DEF Rule
<1> HIDE DEF row, new
<1> QED
  BY <1>2, <1>3, <1>5

\* An import adds a rule or turns a stored row.
LEMMA ImportEffect ==
    ASSUME RuleTypes, IdsGiven, NEW t \in Tab, Import(t)
    PROVE  \/ Insert(change[t].rule) /\ known' = known \cup {change[t].rule}
           \/ \E row \in rules, r \in Rule : Turned(row, r)
<1> DEFINE same == {row \in rules : row.rule.keyword = change[t].rule.keyword}
<1>1. CASE same # {}
  <2>1. Oldest(same) \in rules
    BY <1>1, Meant
  <2>2. Turned(Oldest(same), change[t].rule)
    BY <1>1 DEF Import, Turned
  <2>3. change[t].rule \in Rule
    BY Carries DEF Import
  <2> QED
    BY <2>1, <2>2, <2>3
<1>2. CASE same = {}
  BY <1>2 DEF Import
<1> QED
  BY <1>1, <1>2

\* The rows after a row was turned.
LEMMA TurnedTypes ==
    ASSUME RuleTypes, IdsGiven, NEW row \in rules, NEW r \in Rule, Turned(row, r)
    PROVE  nextId' = nextId /\ rules' \subseteq RowRec /\ known' \subseteq Rule
BY Rewritten DEF Turned, Forget, RuleTypes

-----------------------------------------------------------------------------
(* Every step keeps the invariant *)

\* The types.
LEMMA RuleTypesStep == RulesInv /\ [RulesNext]_ruleVars => RuleTypes'
<1> SUFFICES ASSUME RulesInv, [RulesNext]_ruleVars
             PROVE  RuleTypes'
  OBVIOUS
<1> USE DEF RulesInv
<1>1. ASSUME NEW t \in Tab, Refresh(t)
      PROVE  RuleTypes'
  BY <1>1 DEF Refresh, RuleTypes
<1>2. ASSUME NEW t \in Tab, Asks(t)
      PROVE  RuleTypes'
  <2>1. ASSUME NEW what \in Change, Begin(t, what)
        PROVE  RuleTypes'
    BY <2>1, RuleAssumption DEF Begin, RuleTypes
  <2>2. \E what \in Change : Begin(t, what)
    <3>1. listed[t] \subseteq RowRec /\ Text(listed[t]) \subseteq listed[t]
      BY DEF RuleTypes, Text
    <3> QED
      BY <1>2, <3>1 DEF Asks, Change
  <2> QED
    BY <2>1, <2>2
<1>3. ASSUME NEW t \in Tab, Fails(t)
      PROVE  RuleTypes'
  BY <1>3, EndsEffect DEF Fails, RuleTypes
<1>4. ASSUME NEW t \in Tab, ReadList(t)
      PROVE  RuleTypes'
  <2>1. [do |-> "save", rule |-> change[t].rule, base |-> Text(rules)] \in Change
    BY <1>4, Carries DEF ReadList, RuleTypes, Change, Text
  <2> QED
    BY <1>4, <2>1 DEF ReadList, RuleTypes
<1>5. ASSUME NEW t \in Tab, SaveList(t)
      PROVE  RuleTypes'
  <2>1. Ends(t) /\ known' = known \cup {change[t].rule} /\ change[t].do = "save"
    BY <1>5 DEF SaveList
  <2>2. overwritten' \in BOOLEAN
    BY <1>5 DEF SaveList
  <2> QED
    BY <1>5, <2>1, <2>2, SavedList, EndsEffect, Carries DEF RuleTypes
<1>6. ASSUME NEW t \in Tab, AddImage(t)
      PROVE  RuleTypes'
  BY <1>6, Inserted, EndsEffect, Carries DEF AddImage, RuleTypes
<1>7. ASSUME NEW t \in Tab, Delete(t)
      PROVE  RuleTypes'
  BY <1>7, EndsEffect DEF Delete, Forget, RuleTypes
<1>8. ASSUME NEW t \in Tab, Update(t)
      PROVE  RuleTypes'
  <2>1. \E row \in rules, r \in Rule : Turned(row, r)
    BY <1>8, UpdateEffect
  <2>2. Ends(t) /\ UNCHANGED overwritten
    BY <1>8 DEF Update
  <2> QED
    BY <2>1, <2>2, TurnedTypes, EndsEffect DEF RuleTypes
<1>9. ASSUME NEW t \in Tab, Import(t)
      PROVE  RuleTypes'
  <2>1. Ends(t) /\ UNCHANGED overwritten /\ change[t].rule \in Rule
    BY <1>9, Carries DEF Import
  <2>2. CASE Insert(change[t].rule) /\ known' = known \cup {change[t].rule}
    BY <2>1, <2>2, Inserted, EndsEffect DEF RuleTypes
  <2>3. CASE \E row \in rules, r \in Rule : Turned(row, r)
    BY <2>1, <2>3, TurnedTypes, EndsEffect DEF RuleTypes
  <2> QED
    BY <1>9, <2>2, <2>3, ImportEffect
<1>10. CASE UNCHANGED ruleVars
  BY <1>10 DEF ruleVars, RuleTypes
<1> QED
  BY <1>1, <1>2, <1>3, <1>4, <1>5, <1>6, <1>7, <1>8, <1>9, <1>10 DEF RulesNext

\* The ids.
LEMMA IdsStep == RulesInv /\ [RulesNext]_ruleVars => IdsGiven'
<1> SUFFICES ASSUME RulesInv, [RulesNext]_ruleVars
             PROVE  IdsGiven'
  OBVIOUS
<1> USE DEF RulesInv
<1>a. ASSUME NEW t \in Tab, Ends(t), nextId' \in Nat, nextId <= nextId', Kept(rules', nextId')
      PROVE  IdsGiven'
  <2>1. \A u \in Tab : \A r \in listed'[u] : r.id < nextId'
    BY <1>a DEF Ends, IdsGiven, RuleTypes, RowRec
  <2>2. ASSUME NEW u \in Tab, change'[u].do = "save"
        PROVE  Kept(change'[u].base, nextId') /\ Text(change'[u].base) = change'[u].base
    <3>1. change'[u] = change[u]
      BY <1>a, <2>2, EndsEffect DEF Nothing
    <3>2. Kept(change[u].base, nextId) /\ Text(change[u].base) = change[u].base
      BY <2>2, <3>1 DEF IdsGiven
    <3> QED
      BY <1>a, <3>1, <3>2 DEF Kept, RuleTypes
  <2> QED
    BY <1>a, <2>1, <2>2 DEF IdsGiven
<1>1. ASSUME NEW t \in Tab, Refresh(t)
      PROVE  IdsGiven'
  BY <1>1 DEF Refresh, RuleTypes, IdsGiven, Kept
<1>2. ASSUME NEW t \in Tab, Asks(t)
      PROVE  IdsGiven'
  <2>1. \E what : what.do # "save" /\ Begin(t, what)
    BY <1>2 DEF Asks
  <2> QED
    BY <2>1 DEF Begin, RuleTypes, IdsGiven
<1>3. ASSUME NEW t \in Tab, Fails(t)
      PROVE  IdsGiven'
  BY <1>3, <1>a DEF Fails, RuleTypes, IdsGiven
<1>4. ASSUME NEW t \in Tab, ReadList(t)
      PROVE  IdsGiven'
  <2>1. Kept(Text(rules), nextId) /\ Text(Text(rules)) = Text(rules)
    BY DEF Text, Kept, IdsGiven
  <2>2. change'[t].base = Text(rules) /\ \A u \in Tab \ {t} : change'[u] = change[u]
    BY <1>4 DEF ReadList, RuleTypes
  <2>3. UNCHANGED <<rules, nextId, listed>>
    BY <1>4 DEF ReadList
  <2> QED
    BY <2>1, <2>2, <2>3 DEF IdsGiven
<1>5. ASSUME NEW t \in Tab, SaveList(t)
      PROVE  IdsGiven'
  <2>1. Ends(t) /\ change[t].do = "save"
    BY <1>5 DEF SaveList
  <2> QED
    BY <1>5, <1>a, <2>1, SavedList DEF RuleTypes
<1>6. ASSUME NEW t \in Tab, AddImage(t)
      PROVE  IdsGiven'
  <2>1. Ends(t) /\ change[t].rule \in Rule /\ Insert(change[t].rule)
    BY <1>6, Carries DEF AddImage
  <2> QED
    BY <1>a, <2>1, Inserted DEF RuleTypes
<1>7. ASSUME NEW t \in Tab, Delete(t)
      PROVE  IdsGiven'
  <2>1. PICK row \in rules : rules' = rules \ {row}
    BY <1>7, DeleteEffect
  <2>2. Ends(t) /\ nextId' = nextId
    BY <1>7 DEF Delete
  <2> QED
    BY <1>a, <2>1, <2>2 DEF RuleTypes, IdsGiven, Kept
<1>8. ASSUME NEW t \in Tab, NEW row \in rules, NEW r \in Rule, Turned(row, r), Ends(t)
      PROVE  IdsGiven'
  BY <1>a, <1>8, Rewritten DEF Turned, RuleTypes
<1>9. ASSUME NEW t \in Tab, Update(t)
      PROVE  IdsGiven'
  <2>1. Ends(t)
    BY <1>9 DEF Update
  <2> QED
    BY <1>8, <1>9, <2>1, UpdateEffect
<1>10. ASSUME NEW t \in Tab, Import(t)
       PROVE  IdsGiven'
  <2>1. Ends(t) /\ change[t].rule \in Rule
    BY <1>10, Carries DEF Import
  <2>2. CASE Insert(change[t].rule)
    BY <1>a, <2>1, <2>2, Inserted DEF RuleTypes
  <2> QED
    BY <1>8, <1>10, <2>1, <2>2, ImportEffect
<1>11. CASE UNCHANGED ruleVars
  BY <1>11 DEF ruleVars, IdsGiven
<1> QED
  BY <1>1, <1>2, <1>3, <1>4, <1>5, <1>6, <1>7, <1>9, <1>10, <1>11 DEF RulesNext

\* The saved rules.
LEMMA StayStep == RulesInv /\ [RulesNext]_ruleVars => RulesStay'
<1> SUFFICES ASSUME RulesInv, [RulesNext]_ruleVars
             PROVE  RulesStay'
  OBVIOUS
<1> USE DEF RulesInv
<1>1. ASSUME NEW t \in Tab, Refresh(t) \/ Asks(t) \/ Fails(t) \/ ReadList(t)
      PROVE  RulesStay'
  <2>1. UNCHANGED <<rules, known, overwritten>>
    BY <1>1 DEF Refresh, Asks, Begin, Fails, ReadList
  <2> QED
    BY <2>1 DEF RulesStay
<1>2. ASSUME NEW t \in Tab, SaveList(t)
      PROVE  RulesStay'
  <2> DEFINE base == change[t].base
             new == change[t].rule
  <2>1. /\ rules' = (rules \ Text(rules)) \cup NewRows(base, new)
        /\ known' = known \cup {new}
        /\ overwritten' = (overwritten \/ base # Text(rules))
    BY <1>2 DEF SaveList, Saved
  <2>2. /\ \A row \in base : \E s \in NewRows(base, new) : s.rule = row.rule
        /\ \E s \in NewRows(base, new) : s.rule = new
    <3>1. ASSUME NEW row \in base
          PROVE  \E s \in NewRows(base, new) : s.rule = row.rule
      <4> DEFINE s == Row(row.rule, nextId + Cardinality({x \in base : x.id > row.id}))
      <4>1. s \in NewRows(base, new)
        BY DEF NewRows
      <4>2. s.rule = row.rule
        BY DEF Row
      <4> HIDE DEF s
      <4> QED
        BY <4>1, <4>2
    <3>2. /\ Row(new, nextId + Cardinality(base)) \in NewRows(base, new)
          /\ Row(new, nextId + Cardinality(base)).rule = new
      BY DEF NewRows, Row
    <3> QED
      BY <3>1, <3>2
  <2>3. ASSUME NEW r \in known', ~overwritten' \/ r.image
        PROVE  \E row \in rules' : row.rule = r
    <3>1. CASE r = new
      BY <2>1, <2>2, <3>1
    <3>2. CASE r # new
      <4>1. PICK row \in rules : row.rule = r
        BY <2>1, <2>3, <3>2 DEF RulesStay
      <4>2. CASE r.image
        BY <2>1, <4>1, <4>2 DEF Text
      <4>3. CASE ~r.image
        BY <2>1, <2>2, <2>3, <4>1, <4>3 DEF Text
      <4> QED
        BY <4>2, <4>3
    <3> QED
      BY <3>1, <3>2
  <2> QED
    BY <2>3 DEF RulesStay
<1>3. ASSUME NEW r, Insert(r), known' = known \cup {r}, UNCHANGED overwritten
      PROVE  RulesStay'
  <2>1. rules \subseteq rules' /\ \E row \in rules' : row.rule = r
    <3>1. Row(r, nextId) \in rules' /\ Row(r, nextId).rule = r
      BY <1>3 DEF Insert, Row
    <3> QED
      BY <1>3, <3>1 DEF Insert
  <2> QED
    BY <1>3, <2>1 DEF RulesStay
<1>4. ASSUME NEW row \in rules, NEW r \in Rule, Turned(row, r), UNCHANGED overwritten
      PROVE  RulesStay'
  <2>1. /\ \E s \in rules' : s.rule = r
        /\ \A s \in rules \ {row} : s \in rules'
    BY <1>4, Rewritten DEF Turned
  <2>2. known' = (known \ {row.rule}) \cup {r}
    BY <1>4 DEF Turned, Forget
  <2> QED
    BY <1>4, <2>1, <2>2 DEF RulesStay
<1>5. ASSUME NEW t \in Tab, AddImage(t)
      PROVE  RulesStay'
  BY <1>3, <1>5 DEF AddImage
<1>6. ASSUME NEW t \in Tab, Delete(t)
      PROVE  RulesStay'
  <2>1. UNCHANGED overwritten
    BY <1>6 DEF Delete
  <2> QED
    BY <1>6, <2>1, DeleteEffect DEF Forget, RulesStay
<1>7. ASSUME NEW t \in Tab, Update(t)
      PROVE  RulesStay'
  <2>1. UNCHANGED overwritten
    BY <1>7 DEF Update
  <2> QED
    BY <1>4, <1>7, <2>1, UpdateEffect
<1>8. ASSUME NEW t \in Tab, Import(t)
      PROVE  RulesStay'
  <2>1. UNCHANGED overwritten
    BY <1>8 DEF Import
  <2> QED
    BY <1>3, <1>4, <1>8, <2>1, ImportEffect
<1>9. CASE UNCHANGED ruleVars
  BY <1>9 DEF ruleVars, RulesStay
<1> QED
  BY <1>1, <1>2, <1>5, <1>6, <1>7, <1>8, <1>9 DEF RulesNext

\* The invariant holds at the start.
LEMMA RulesStart == RulesInit => RulesInv
<1> SUFFICES ASSUME RulesInit
             PROVE  RulesInv
  OBVIOUS
<1>1. RuleTypes
  <2>1. change \in [Tab -> Change]
    BY DEF RulesInit, Change
  <2>2. rules \subseteq RowRec /\ listed \in [Tab -> SUBSET RowRec] /\ known \subseteq Rule
    BY DEF RulesInit
  <2>3. nextId = 1 /\ requested = 0 /\ overwritten \in BOOLEAN
    BY DEF RulesInit
  <2>4. nextId \in Nat /\ requested \in 0 .. MaxRules
    BY <2>3, RuleAssumption
  <2> QED
    BY <2>1, <2>2, <2>3, <2>4 DEF RuleTypes
<1>2. IdsGiven
  BY DEF RulesInit, IdsGiven, Kept, Nothing
<1>3. RulesStay
  BY DEF RulesInit, RulesStay
<1> QED
  BY <1>1, <1>2, <1>3 DEF RulesInv

\* The invariant of the rules holds throughout.
THEOREM RulesInvariant == RulesSpec => []RulesInv
<1>1. RulesInit => RulesInv
  BY RulesStart
<1>2. RulesInv /\ [RulesNext]_ruleVars => RulesInv'
  BY RuleTypesStep, IdsStep, StayStep DEF RulesInv
<1> QED
  BY <1>1, <1>2, PTL DEF RulesSpec

\* The stored rows have ids of their own, whatever lists are saved, and the rows that tabs
\* show and edit were given theirs (keywords.py, Keywords.tsx).
THEOREM RulesTypeCorrect == RulesSpec => []RulesTypeOK
<1>1. RulesInv => RulesTypeOK
  BY Carries DEF RulesInv, RuleTypes, IdsGiven, RulesTypeOK, Kept, RowRec, Change, Nothing
<1> QED
  BY <1>1, RulesInvariant, PTL

\* A saved rule stays until its row is changed or deleted, in any number of tabs, unless a
\* list was saved that lacked another tab's rules of text (keywords.py save_keywords,
\* Keywords.tsx).
THEOREM SavedRulesStay == RulesSpec => []RulesStay
<1>1. RulesInv => RulesStay
  BY DEF RulesInv
<1> QED
  BY <1>1, RulesInvariant, PTL


-----------------------------------------------------------------------------
(* The item list *)

ConfirmRec ==
    {NotAsked} \cup [do : {"one", "delete", "offline", "platform"}, of : SUBSET Listing]

ListTypes ==
    /\ account \in Filter
    /\ items \subseteq Listing /\ selected \subseteq items
    /\ confirm \in ConfirmRec
    /\ calls \subseteq Call /\ loads \subseteq Filter
    /\ asked \in 0 .. MaxLoads

\* While the platform's confirmation is open, what is selected was selected when it opened,
\* and those items are of the account that is chosen: nothing is added to the selection and
\* no other account is chosen under it.
PlatformNamed ==
    confirm.do = "platform" =>
        selected \subseteq confirm.of /\ \A i \in confirm.of : SellerOf[i] = account

ListInv == ListTypes /\ PlatformNamed

\* A confirmation names items that are listed.
LEMMA OpenEffect ==
    ASSUME ListTypes, OpenConfirm
    PROVE  /\ confirm' \in ConfirmRec
           /\ confirm'.do = "platform" => PlatformChecked /\ confirm'.of = selected
           /\ UNCHANGED <<account, items, selected, calls, loads, asked>>
<1>1. CASE \E i \in items : Opens("one", {i})
  BY <1>1 DEF Opens, ConfirmRec, ListTypes
<1>2. CASE Opens("delete", selected) \/ Opens("offline", selected)
  BY <1>2 DEF Opens, ConfirmRec, ListTypes
<1>3. CASE PlatformChecked /\ Opens("platform", selected)
  BY <1>3 DEF Opens, ConfirmRec, ListTypes
<1> QED
  BY <1>1, <1>2, <1>3 DEF OpenConfirm

\* What is confirmed is sent for items that are listed, or that were.
LEMMA ConfirmedEffect ==
    ASSUME ListTypes, Confirmed
    PROVE  /\ confirm' \in {confirm, NotAsked}
           /\ \/ UNCHANGED calls
              \/ \E c \in Call : /\ calls' = calls \cup {c}
                                 /\ c.do = confirm.do /\ c.by = account
                                 /\ c.do = "platform" => c.of = selected
           /\ UNCHANGED <<account, items, selected, loads, asked>>
<1> DEFINE chosen == IF confirm.do = "one" THEN confirm.of ELSE selected
           c == [do |-> confirm.do, by |-> account, of |-> chosen]
<1>1. CASE chosen = {}
  BY <1>1 DEF Confirmed
<1>2. CASE chosen # {}
  <2>1. confirm' = confirm /\ calls' = calls \cup {c}
    BY <1>2 DEF Confirmed
  <2>2. chosen \in SUBSET Listing /\ account \in Filter
    BY DEF ListTypes, ConfirmRec, NotAsked
  <2>3. confirm.do \in {"one", "delete", "offline", "platform"}
    BY DEF Confirmed, ListTypes, ConfirmRec
  <2>4. c \in Call
    BY <2>2, <2>3 DEF Call
  <2> QED
    BY <2>1, <2>4 DEF Confirmed
<1> QED
  BY <1>1, <1>2 DEF Confirmed

\* The types of the list.
LEMMA ListTypesStep == ListInv /\ [ListNext]_listVars => ListTypes'
<1> SUFFICES ASSUME ListInv, [ListNext]_listVars
             PROVE  ListTypes'
  OBVIOUS
<1> USE DEF ListInv
<1>a. ASSUME NEW filters \in SUBSET Filter, AskList(filters)
      PROVE  loads' \subseteq Filter /\ asked' \in 0 .. MaxLoads
  BY <1>a, ListAssumption DEF AskList, ListTypes
<1>1. ASSUME NEW a \in Filter, ChooseAccount(a)
      PROVE  ListTypes'
  BY <1>1, <1>a DEF ChooseAccount, ListTypes
<1>2. ASSUME NEW a \in Filter, Loaded(a)
      PROVE  ListTypes'
  <2>1. items' \subseteq Listing /\ selected' \subseteq items'
    BY <1>2 DEF Loaded, SelectionShown, Of, ListTypes
  <2> QED
    BY <1>2, <2>1 DEF Loaded, ListTypes
<1>3. CASE Reload
  BY <1>3, <1>a DEF Reload, ListTypes
<1>4. ASSUME NEW i \in Listing, Toggle(i)
      PROVE  ListTypes'
  BY <1>4 DEF Toggle, ListTypes
<1>5. CASE ToggleAll
  BY <1>5 DEF ToggleAll, ListTypes
<1>6. CASE OpenConfirm
  BY <1>6, OpenEffect DEF ListTypes
<1>7. CASE Cancel
  BY <1>7 DEF Cancel, ListTypes, ConfirmRec
<1>8. CASE Confirmed
  BY <1>8, ConfirmedEffect DEF ListTypes, ConfirmRec
<1>9. ASSUME NEW c \in calls, Done(c)
      PROVE  ListTypes'
  <2>1. c.by \in Filter
    BY DEF ListTypes, Call
  <2>2. loads' \subseteq Filter /\ asked' \in 0 .. MaxLoads
    BY <1>9, <1>a, <2>1 DEF Done, ListTypes
  <2>3. confirm' \in ConfirmRec
    BY <1>9 DEF Done, Closed, ListTypes, ConfirmRec
  <2> QED
    BY <1>9, <2>2, <2>3 DEF Done, ListTypes
<1>10. ASSUME NEW c \in calls, NotDone(c)
       PROVE  ListTypes'
  <2>1. confirm' \in ConfirmRec
    BY <1>10 DEF NotDone, Closed, ListTypes, ConfirmRec
  <2> QED
    BY <1>10, <2>1 DEF NotDone, ListTypes
<1>11. CASE UNCHANGED listVars
  BY <1>11 DEF listVars, ListTypes
<1> QED
  BY <1>1, <1>2, <1>3, <1>4, <1>5, <1>6, <1>7, <1>8, <1>9, <1>10, <1>11 DEF ListNext

\* The selection under the platform's confirmation.
LEMMA NamedStep == ListInv /\ [ListNext]_listVars => PlatformNamed'
<1> SUFFICES ASSUME ListInv, [ListNext]_listVars
             PROVE  PlatformNamed'
  OBVIOUS
<1> USE DEF ListInv
<1>1. ASSUME NEW a \in Filter, ChooseAccount(a)
      PROVE  PlatformNamed'
  BY <1>1 DEF ChooseAccount, PlatformNamed, NotAsked
<1>2. ASSUME NEW a \in Filter, Loaded(a)
      PROVE  PlatformNamed'
  <2>1. selected' \subseteq selected /\ UNCHANGED <<account, confirm>>
    BY <1>2 DEF Loaded, SelectionShown
  <2> QED
    BY <2>1 DEF PlatformNamed
<1>3. CASE Reload
  BY <1>3 DEF Reload, PlatformNamed
<1>4. ASSUME NEW i \in Listing, Toggle(i)
      PROVE  PlatformNamed'
  BY <1>4 DEF Toggle, PlatformNamed, NotAsked
<1>5. CASE ToggleAll
  BY <1>5 DEF ToggleAll, PlatformNamed, NotAsked
<1>6. CASE OpenConfirm
  BY <1>6, OpenEffect DEF PlatformChecked, PlatformNamed
<1>7. CASE Cancel
  BY <1>7 DEF Cancel, PlatformNamed, NotAsked
<1>8. CASE Confirmed
  BY <1>8, ConfirmedEffect DEF PlatformNamed, NotAsked
<1>9. ASSUME NEW c \in calls, Done(c) \/ NotDone(c)
      PROVE  PlatformNamed'
  <2>1. confirm' \in {confirm, NotAsked} /\ selected' \subseteq selected /\ account' = account
    BY <1>9 DEF Done, NotDone, Closed
  <2> QED
    BY <2>1 DEF PlatformNamed, NotAsked
<1>10. CASE UNCHANGED listVars
  BY <1>10 DEF listVars, PlatformNamed
<1> QED
  BY <1>1, <1>2, <1>3, <1>4, <1>5, <1>6, <1>7, <1>8, <1>9, <1>10 DEF ListNext

\* The invariant holds at the start.
LEMMA ListStarts == ListInit => ListInv
BY ListAssumption DEF ListInit, ListInv, ListTypes, PlatformNamed, ConfirmRec, NotAsked, Filter

\* The invariant of the item list holds throughout.
THEOREM ListInvariant == ListSpec => []ListInv
<1>1. ListInit => ListInv
  BY ListStarts
<1>2. ListInv /\ [ListNext]_listVars => ListInv'
  BY ListTypesStep, NamedStep DEF ListInv
<1> QED
  BY <1>1, <1>2, PTL DEF ListSpec

\* What is selected is listed, whatever lists are answered late (Items.tsx).
THEOREM ListTypeCorrect == ListSpec => []ListTypeOK
<1>1. ListInv => ListTypeOK
  BY DEF ListInv, ListTypes, ListTypeOK, ConfirmRec, NotAsked
<1> QED
  BY <1>1, ListInvariant, PTL

\* Calls for the platform are added by its confirmation only.
LEMMA PlatformCall ==
    ASSUME ListInv, [ListNext]_listVars, NEW c \in calls' \ calls, c.do = "platform"
    PROVE  c.of \subseteq confirm.of /\ \A i \in c.of : SellerOf[i] = c.by
<1>1. Confirmed
  BY OpenEffect DEF ListInv, ListNext, listVars, ChooseAccount, Loaded, Reload, Toggle,
     ToggleAll,
     Cancel, Done, NotDone
<1>2. c.do = confirm.do /\ c.by = account /\ c.of = selected
  BY <1>1, ConfirmedEffect DEF ListInv
<1> QED
  BY <1>2 DEF ListInv, PlatformNamed

\* The platform is asked to delete only items that the open confirmation named and that the
\* account whose cookie is used sells, for any items, accounts and number of lists answered
\* late (Items.tsx openBatchXianyuDelete, handleBatchXianyuDelete).
THEOREM PlatformDeletesOwn == ListSpec => PlatformDeleteOwn
<1>1. ListInv /\ [ListNext]_listVars
        => [\A c \in calls' \ calls :
              c.do = "platform" =>
                c.of \subseteq confirm.of /\ \A i \in c.of : SellerOf[i] = c.by]_listVars
  BY PlatformCall
<1> QED
  BY <1>1, ListInvariant, PTL DEF ListSpec, PlatformDeleteOwn

-----------------------------------------------------------------------------
(* The chat page: the invariant                                            *)

\* No count of messages runs ahead of the events.
Counted ==
    /\ msgs.n <= events
    /\ \A a \in Owner, c \in Conv : msgCache[<<a, c>>].n <= events
    /\ \A c \in Conv : got[c] <= events

\* The status that is asked, and the picture that waits, are of the conversation shown; a
\* confirmation is about the blacklist.
Waiting ==
    /\ dialog # None => dialog.do \in {"block", "unblock"}
    /\ pasted \in {cid, None}
    /\ \A c \in Conv : Request("status", c) \in inFlight => c = cid

\* The conversation shown is the last one of the active account.
Placed ==
    /\ cid # None => active # None /\ cid = last[active]
    /\ \A a \in Owner : last[a] # None => AccountOf[last[a]] = a

\* Messages on the screen are in the cache too.
Synced == ~late /\ msgs # NoMsgs => cid # None /\ msgCache[<<active, cid>>] = msgs

Held(c) == msgCache[<<AccountOf[c], c>>]

\* What is cached of a conversation is complete; a conversation that is shown with no
\* messages, or will be when its account comes back, has none or is being loaded.
Complete(c) ==
    /\ Held(c) # NoMsgs => Held(c).n = got[c]
    /\ /\ last[AccountOf[c]] = c
       /\ c = cid => msgs = NoMsgs
       /\ c # cid => Held(c) = NoMsgs
       => got[c] = 0 \/ Request("messages", c) \in inFlight
Counts == ~late => \A c \in Conv \ missed : Complete(c)

ChatInv ==
    /\ ChatTypeOK /\ Counted /\ Waiting /\ Placed /\ CachesBelong /\ BlockedIsOfShown
    /\ Synced /\ Counts

\* The types, as functions of their arguments, and what the constants give.
LEMMA ChatTypes ==
    ASSUME ChatTypeOK
    PROVE  /\ None \notin Conv /\ None \notin Owner /\ MaxEvents \in Nat
           /\ \A c \in Conv : AccountOf[c] \in Owner
           /\ NoMsgs.of = None /\ NoMsgs.n = 0
           /\ \A m \in Messages : m.n \in Nat /\ m.of \in Conv \cup {None} /\ (m.of = None <=> m = NoMsgs)
           /\ msgs \in Messages /\ \A a \in Owner, c \in Conv : msgCache[<<a, c>>] \in Messages
           /\ active \in Owner \cup {None} /\ cid \in Conv \cup {None} /\ convs \in Owner \cup {None}
           /\ \A a \in Owner : last[a] \in Conv \cup {None} /\ convCache[a] \in Owner \cup {None}
           /\ \A c \in Conv : got[c] \in Nat
           /\ events \in Nat /\ late \in BOOLEAN
<1>1. None \notin Conv /\ None \notin Owner /\ MaxEvents \in Nat
  BY ChatAssumption
<1>2. \A c \in Conv : AccountOf[c] \in Owner
  BY DEF Owner
<1>3. NoMsgs.of = None /\ NoMsgs.n = 0
  BY DEF NoMsgs
<1>4. \A m \in Messages : m.n \in Nat /\ m.of \in Conv \cup {None} /\ (m.of = None <=> m = NoMsgs)
  BY <1>1, <1>3 DEF Messages, NoMsgs
<1>5. msgs \in Messages /\ \A a \in Owner, c \in Conv : msgCache[<<a, c>>] \in Messages
  BY DEF ChatTypeOK
<1>6. /\ active \in Owner \cup {None} /\ cid \in Conv \cup {None} /\ convs \in Owner \cup {None}
      /\ \A a \in Owner : last[a] \in Conv \cup {None} /\ convCache[a] \in Owner \cup {None}
      /\ late \in BOOLEAN
  BY DEF ChatTypeOK
<1>7. events \in Nat /\ \A c \in Conv : got[c] \in Nat
  BY <1>1 DEF ChatTypeOK
<1>8. QED BY <1>1, <1>2, <1>3, <1>4, <1>5, <1>6, <1>7

-----------------------------------------------------------------------------
(* The caches, entry by entry                                              *)

Pairs == Owner \X Conv

\* Putting the shown messages away changes the entry of what is shown alone.
LEMMA MsgsSynced ==
    ASSUME NEW cache \in [Pairs -> Messages], NEW a \in Owner \cup {None},
           NEW c \in Conv \cup {None}, NEW m \in Messages, None \notin Conv, None \notin Owner
    PROVE  /\ SyncMsgs(cache, a, c, m) \in [Pairs -> Messages]
           /\ \A b \in Owner, d \in Conv :
                SyncMsgs(cache, a, c, m)[<<b, d>>] =
                    IF b = a /\ d = c /\ m # NoMsgs THEN m ELSE cache[<<b, d>>]
<1>1. CASE None \in {a, c} \/ m = NoMsgs
  BY <1>1 DEF SyncMsgs
<1>2. CASE ~(None \in {a, c} \/ m = NoMsgs)
  <2>1. <<a, c>> \in Pairs
    BY <1>2 DEF Pairs
  <2>2. SyncMsgs(cache, a, c, m) = [cache EXCEPT ![<<a, c>>] = m]
    BY <1>2 DEF SyncMsgs
  <2>3. \A b \in Owner, d \in Conv :
           [cache EXCEPT ![<<a, c>>] = m][<<b, d>>] = IF <<b, d>> = <<a, c>> THEN m ELSE cache[<<b, d>>]
    BY DEF Pairs
  <2>4. QED BY <1>2, <2>1, <2>2, <2>3
<1>3. QED BY <1>1, <1>2

\* Putting the shown list away changes the entry of the shown account alone.
LEMMA ConvsSynced ==
    ASSUME NEW cache \in [Owner -> Owner \cup {None}], NEW a \in Owner \cup {None},
           NEW list \in Owner \cup {None}, None \notin Owner
    PROVE  /\ SyncConvs(cache, a, list) \in [Owner -> Owner \cup {None}]
           /\ \A b \in Owner : SyncConvs(cache, a, list)[b] =
                                   IF b = a /\ list # None THEN list ELSE cache[b]
BY DEF SyncConvs

-----------------------------------------------------------------------------
(* What the steps do to what is shown and cached, entry by entry           *)

Requests == ConvRequest \cup AccountRequest
View == <<active, cid, convs, msgs, convCache, msgCache, last>>
Views ==
    /\ active \in Owner \cup {None} /\ cid \in Conv \cup {None}
    /\ convs \in Owner \cup {None} /\ msgs \in Messages
    /\ convCache \in [Owner -> Owner \cup {None}]
    /\ msgCache \in [Pairs -> Messages]
    /\ last \in [Owner -> Conv \cup {None}]

SameLoads == \A c \in Conv : Request("messages", c) \in inFlight' <=> Request("messages", c) \in inFlight
FewerStatus == \A c \in Conv : Request("status", c) \in inFlight' => Request("status", c) \in inFlight

\* Nothing of it changes.
Quiet == UNCHANGED <<View, got, missed>> /\ SameLoads /\ FewerStatus

\* Another account is shown, or none.
OpensAccount(a) ==
    /\ a \in Owner \cup {None} /\ a # active /\ active' = a
    /\ cid' = None \/ (a \in Owner /\ cid' = last'[a])
    /\ \A b \in Owner : last'[b] \in {last[b], None}
    /\ convs' \in {None} \cup (IF a = None THEN {} ELSE {convCache[a]})
    /\ msgs' = (IF cid' = None THEN NoMsgs ELSE msgCache[<<a, cid'>>])
    /\ UNCHANGED <<convCache, msgCache, got, missed, late>>
    /\ SameLoads /\ \A c \in Conv : Request("status", c) \in inFlight' => c = cid'
    /\ pasted' = None /\ blocked' = None

\* Another conversation is shown, or the same one once more.
Picks(c) ==
    /\ c \in Conv /\ active \in Owner /\ convs = AccountOf[c]
    /\ cid' = c /\ msgs' = msgCache[<<active, c>>]
    /\ \A a \in Owner : last'[a] = IF a = active THEN c ELSE last[a]
    /\ \A a \in Owner, d \in Conv : msgCache'[<<a, d>>] = msgCache[<<a, d>>]
    /\ UNCHANGED <<active, convs, convCache, got, missed, late>>
    /\ \A d \in Conv : Request("messages", d) \in inFlight' <=>
          Request("messages", d) \in inFlight \/ (d = c /\ msgCache[<<active, c>>] = NoMsgs)
    /\ \A d \in Conv : Request("status", d) \in inFlight' =>
          d = c \/ (c = cid /\ Request("status", d) \in inFlight)
    /\ \/ c = cid /\ UNCHANGED <<pasted, blocked>>
       \/ c # cid /\ pasted' = None /\ blocked' = None

\* A list and messages come to the screen, and from there to the caches.
Shows(list, m) ==
    /\ list \in Owner \cup {None} /\ m \in Messages
    /\ convs' = list /\ msgs' = m
    /\ \A a \in Owner : convCache'[a] = IF a = active /\ list # None THEN list ELSE convCache[a]
    /\ \A a \in Owner, c \in Conv :
          msgCache'[<<a, c>>] = IF a = active /\ c = cid /\ m # NoMsgs THEN m ELSE msgCache[<<a, c>>]
    /\ UNCHANGED <<active, cid, last>>

\* What is shown and cached is well typed, and so is what is asked.
LEMMA ViewTypes == ChatTypeOK => Views /\ inFlight \subseteq Requests
BY DEF ChatTypeOK, Views, Requests, Pairs

\* Two requests are the same if they ask the same of the same.
LEMMA RequestFields ==
    ASSUME NEW what, NEW for, NEW what2, NEW for2
    PROVE  /\ Request(what, for).do = what /\ Request(what, for).for = for
           /\ Request(what, for) = Request(what2, for2) <=> what = what2 /\ for = for2
BY DEF Request

\* The requests there are, and what each is for.
LEMMA RequestTypes ==
    /\ \A c \in Conv, what \in {"messages", "send", "image", "status", "block", "unblock"} :
          Request(what, c) \in Requests /\ Request(what, c) \in ConvRequest
    /\ \A a \in Owner, what \in {"list", "connect", "disconnect", "close"} :
          Request(what, a) \in Requests
    /\ \A r \in Requests : r.do \notin {"list", "connect", "disconnect", "close"} =>
          r \in ConvRequest /\ r.for \in Conv /\ r = Request(r.do, r.for)
BY DEF Requests, ConvRequest, AccountRequest, Request

\* Showing a list and messages puts them on the screen and in their caches.
LEMMA ShowsEffect ==
    ASSUME ChatTypeOK, NEW list \in Owner \cup {None}, NEW m \in Messages, Shown(list, m)
    PROVE  Shows(list, m) /\ Views'
<1>1. Views /\ None \notin Conv /\ None \notin Owner
  BY ViewTypes, ChatTypes
<1>2. /\ convCache' = SyncConvs(convCache, active, list)
      /\ msgCache' = SyncMsgs(msgCache, active, cid, m)
      /\ convs' = list /\ msgs' = m /\ UNCHANGED <<active, cid, last>>
  BY DEF Shown
<1>3. /\ convCache' \in [Owner -> Owner \cup {None}]
      /\ \A a \in Owner : convCache'[a] = IF a = active /\ list # None THEN list ELSE convCache[a]
  BY <1>1, <1>2, ConvsSynced DEF Views
<1>4. /\ msgCache' \in [Pairs -> Messages]
      /\ \A a \in Owner, c \in Conv :
            msgCache'[<<a, c>>] = IF a = active /\ c = cid /\ m # NoMsgs THEN m ELSE msgCache[<<a, c>>]
  <2>1. msgCache \in [Pairs -> Messages] /\ active \in Owner \cup {None} /\ cid \in Conv \cup {None}
    BY <1>1 DEF Views
  <2>2. /\ SyncMsgs(msgCache, active, cid, m) \in [Pairs -> Messages]
        /\ \A b \in Owner, d \in Conv :
             SyncMsgs(msgCache, active, cid, m)[<<b, d>>] =
                 IF b = active /\ d = cid /\ m # NoMsgs THEN m ELSE msgCache[<<b, d>>]
    BY <1>1, <2>1, MsgsSynced
  <2>3. QED BY <1>2, <2>2
<1>5. Shows(list, m)
  BY <1>2, <1>3, <1>4 DEF Shows
<1>6. Views'
  BY <1>1, <1>2, <1>3, <1>4 DEF Views
<1>7. QED BY <1>5, <1>6

\* Switching to another account shows what its caches have.
LEMMA GoesEffect ==
    ASSUME ChatTypeOK, NEW a \in Owner \cup {None}, a # active, NEW open \in SUBSET Owner,
           NEW done \in SUBSET AccountRequest,
           Switched(a, open, done), UNCHANGED <<got, missed, late>>
    PROVE  OpensAccount(a) /\ Views' /\ inFlight' \subseteq Requests
<1>1. Views /\ inFlight \subseteq Requests /\ None \notin Conv /\ None \notin Owner
  BY ViewTypes, ChatTypes
<1>2. active' = a /\ pasted' = None /\ blocked' = None /\ UNCHANGED <<convCache, msgCache>>
  BY DEF Switched
<1>3. /\ cid' = (IF a \in open THEN last[a] ELSE None)
      /\ convs' = (IF a \in open THEN convCache[a] ELSE None)
      /\ msgs' = (IF cid' = None THEN NoMsgs ELSE msgCache[<<a, cid'>>])
      /\ last' = (IF a \in open \cup {None} \/ cid = None THEN last ELSE [last EXCEPT ![a] = None])
  BY <1>2 DEF Switched
<1>4. /\ inFlight' = (CleanedUp(inFlight) \ done)
                      \cup (IF a \in open /\ convs' = None THEN {Request("list", a)} ELSE {})
                      \cup (IF cid' # None THEN {Request("status", cid')} ELSE {})
  BY <1>3 DEF Switched
<1>5. /\ cid' \in Conv \cup {None} /\ convs' \in Owner \cup {None}
      /\ cid' = None \/ (a \in Owner /\ cid' = last'[a])
      /\ last' \in [Owner -> Conv \cup {None}] /\ \A b \in Owner : last'[b] \in {last[b], None}
  BY <1>1, <1>3 DEF Views
<1>6. msgs' \in Messages
  BY <1>1, <1>3, <1>5 DEF Views, Pairs, Messages
<1>7. Views'
  BY <1>1, <1>2, <1>5, <1>6 DEF Views
<1>8. \A c \in Conv : Request("messages", c) \notin done /\ Request("status", c) \notin done
  BY DEF AccountRequest, Request
<1>9. \A c \in Conv : Request("messages", c) \in CleanedUp(inFlight) <=> Request("messages", c) \in inFlight
  BY RequestFields DEF CleanedUp
<1>10. \A c \in Conv : Request("status", c) \notin CleanedUp(inFlight)
  BY RequestFields DEF CleanedUp
<1>11. SameLoads
  BY <1>4, <1>8, <1>9, RequestFields DEF SameLoads
<1>12. \A c \in Conv : Request("status", c) \in inFlight' => c = cid'
  BY <1>4, <1>8, <1>10, RequestFields
<1>13. inFlight' \subseteq Requests
  BY <1>1, <1>4, <1>5, RequestTypes DEF CleanedUp
<1>14. QED BY <1>1, <1>2, <1>3, <1>5, <1>7, <1>11, <1>12, <1>13 DEF OpensAccount

\* Activating an account switches to it, or changes nothing that is shown.
LEMMA ActivateEffect ==
    ASSUME ChatTypeOK, NEW a \in Owner \cup {None}, NEW open \in SUBSET Owner,
           NEW done \in SUBSET AccountRequest,
           Activate(a, open, done), UNCHANGED <<got, missed, late>>
    PROVE  /\ OpensAccount(a) \/ (Quiet /\ UNCHANGED <<pasted, blocked, late>>)
           /\ Views' /\ inFlight' \subseteq Requests
<1>1. Views /\ inFlight \subseteq Requests
  BY ViewTypes
<1>2. CASE a # active
  BY <1>2, GoesEffect DEF Activate
<1>3. CASE a = active
  <2>1. inFlight' = inFlight \ done /\ UNCHANGED View /\ UNCHANGED <<pasted, blocked>>
    BY <1>3 DEF Activate, View
  <2>2. \A c \in Conv : Request("messages", c) \notin done
    BY DEF AccountRequest, Request
  <2>3. SameLoads /\ FewerStatus /\ inFlight' \subseteq Requests
    BY <1>1, <2>1, <2>2 DEF SameLoads, FewerStatus
  <2>4. Views'
    BY <1>1, <2>1 DEF View, Views
  <2>5. QED BY <2>1, <2>3, <2>4 DEF Quiet
<1>4. QED BY <1>2, <1>3

\* Selecting a conversation shows what its cache has, and asks for the rest.
LEMMA PicksEffect ==
    ASSUME ChatTypeOK, NEW c \in Conv, SelectConversation(c)
    PROVE  Picks(c) /\ Views' /\ inFlight' \subseteq Requests
<1> DEFINE m == msgCache[<<active, c>>]
           requests == IF m = NoMsgs THEN {Request("messages", c)} ELSE {}
<1>1. Views /\ inFlight \subseteq Requests /\ None \notin Conv /\ None \notin Owner
  BY ViewTypes, ChatTypes
<1>2. /\ convs = AccountOf[c] /\ active \in Owner /\ Moved(c, m, requests)
      /\ UNCHANGED <<got, missed, late>>
  BY <1>1 DEF SelectConversation, Views
<1>3. m \in Messages
  BY <1>1, <1>2 DEF Views, Pairs
<1>4. /\ cid' = c /\ msgs' = m /\ last' = [last EXCEPT ![active] = c]
      /\ UNCHANGED <<active, convs, convCache>>
  BY <1>2 DEF Moved
<1>5. \A d \in Conv : Request("messages", d) \in requests <=> d = c /\ m = NoMsgs
  BY RequestFields
<1>6. \A d \in Conv : Request("status", d) \notin requests
  BY RequestFields
<1>7. \A d \in Conv : /\ Request("messages", d) \in CleanedUp(inFlight) <=> Request("messages", d) \in inFlight
                      /\ Request("status", d) \notin CleanedUp(inFlight)
                      /\ Request("messages", d) # Request("status", c)
                      /\ Request("status", d) = Request("status", c) => d = c
  BY RequestFields DEF CleanedUp
<1>8. requests \subseteq Requests /\ Request("status", c) \in Requests /\ CleanedUp(inFlight) \subseteq Requests
  BY <1>1, RequestTypes DEF CleanedUp
<1> HIDE DEF requests
<1>9. CASE c = cid
  <2>1. /\ msgCache' = SyncMsgs(msgCache, active, c, m) /\ inFlight' = inFlight \cup requests
        /\ UNCHANGED <<pasted, blocked>>
    BY <1>2, <1>9 DEF Moved
  <2>2. msgCache' \in [Pairs -> Messages]
        /\ \A a \in Owner, d \in Conv : msgCache'[<<a, d>>] = msgCache[<<a, d>>]
    <3>1. msgCache \in [Pairs -> Messages] /\ active \in Owner \cup {None} /\ c \in Conv \cup {None}
      BY <1>1 DEF Views
    <3> HIDE DEF m
    <3>2. /\ SyncMsgs(msgCache, active, c, m) \in [Pairs -> Messages]
          /\ \A b \in Owner, d \in Conv :
               SyncMsgs(msgCache, active, c, m)[<<b, d>>] =
                   IF b = active /\ d = c /\ m # NoMsgs THEN m ELSE msgCache[<<b, d>>]
      BY <1>1, <1>3, <3>1, MsgsSynced
    <3> USE DEF m
    <3>3. QED BY <2>1, <3>2
  <2>3. Views'
    BY <1>1, <1>2, <1>3, <1>4, <2>2 DEF Views
  <2>4. \A a \in Owner : last'[a] = IF a = active THEN c ELSE last[a]
    BY <1>1, <1>2, <1>4 DEF Views
  <2>5. /\ \A d \in Conv : Request("messages", d) \in inFlight' <=>
              Request("messages", d) \in inFlight \/ (d = c /\ m = NoMsgs)
        /\ \A d \in Conv : Request("status", d) \in inFlight' => Request("status", d) \in inFlight
        /\ inFlight' \subseteq Requests
    BY <1>1, <1>5, <1>6, <1>8, <2>1
  <2>6. QED BY <1>2, <1>4, <1>9, <2>1, <2>2, <2>3, <2>4, <2>5 DEF Picks
<1>10. CASE c # cid
  <2>1. /\ UNCHANGED msgCache /\ pasted' = None /\ blocked' = None
        /\ inFlight' = CleanedUp(inFlight) \cup requests \cup {Request("status", c)}
    BY <1>2, <1>10 DEF Moved, ImageAfterMove
  <2>2. Views'
    BY <1>1, <1>2, <1>3, <1>4, <2>1 DEF Views
  <2>3. \A a \in Owner : last'[a] = IF a = active THEN c ELSE last[a]
    BY <1>1, <1>2, <1>4 DEF Views
  <2>4. /\ \A d \in Conv : Request("messages", d) \in inFlight' <=>
              Request("messages", d) \in inFlight \/ (d = c /\ m = NoMsgs)
        /\ \A d \in Conv : Request("status", d) \in inFlight' => d = c
        /\ inFlight' \subseteq Requests
    BY <1>1, <1>5, <1>6, <1>7, <1>8, <2>1
  <2>5. QED BY <1>2, <1>4, <1>10, <2>1, <2>2, <2>3, <2>4 DEF Picks
<1>11. QED BY <1>9, <1>10

OtherLoads(c) ==
    \A d \in Conv \ {c} : Request("messages", d) \in inFlight' <=> Request("messages", d) \in inFlight

\* The list of the account shown arrives.
ListComes ==
    /\ \E list \in {active, None} : Shows(list, msgs)
    /\ SameLoads /\ FewerStatus /\ UNCHANGED <<got, missed, pasted, blocked>>

\* The messages of the conversation shown arrive, or those of some conversation never will.
Answered(c) ==
    /\ c \in Conv /\ OtherLoads(c) /\ FewerStatus /\ UNCHANGED <<got, pasted, blocked>>
    /\ \/ /\ c = cid /\ UNCHANGED missed
          /\ \E m \in Messages : /\ Shows(convs, m) /\ m.of \in {c, None}
                                 /\ m.n # got[c] => c \in missed
       \/ UNCHANGED View /\ missed' = missed \cup {c}

\* A message is pushed: on the screen, for the account shown, or behind it.
Pushed(c) ==
    /\ c \in Conv /\ SameLoads /\ FewerStatus /\ UNCHANGED <<pasted, blocked>>
    /\ \A d \in Conv : got'[d] = IF d = c THEN got[d] + 1 ELSE got[d]
    /\ missed' = IF Lost(AccountOf[c], c) THEN missed \cup {c} ELSE missed
    /\ \/ /\ AccountOf[c] = active /\ c = cid
          /\ \E m \in Messages : /\ Shows(active, m) /\ m.n = msgs.n + 1
                                 /\ m.of = IF msgs = NoMsgs THEN c ELSE msgs.of
       \/ AccountOf[c] = active /\ c # cid /\ Shows(active, msgs)
       \/ /\ AccountOf[c] # active /\ UNCHANGED <<active, cid, convs, msgs, last, convCache>>
          /\ \A a \in Owner, d \in Conv :
                 IF a = AccountOf[c] /\ d = c /\ Held(c) # NoMsgs
                 THEN /\ msgCache'[<<a, d>>].n = Held(c).n + 1
                      /\ msgCache'[<<a, d>>].of = Held(c).of
                 ELSE msgCache'[<<a, d>>] = msgCache[<<a, d>>]

\* A message is pushed that the page takes for one that it has.
Skipped(c) ==
    /\ c \in Conv /\ SameLoads /\ FewerStatus /\ UNCHANGED <<pasted, blocked>>
    /\ \/ UNCHANGED <<got, missed>>
       \/ /\ missed' = missed \cup {c}
          /\ \A d \in Conv : got'[d] = IF d = c THEN got[d] + 1 ELSE got[d]
    /\ Shows(active, msgs) \/ UNCHANGED View

\* A message of the conversation shown is sent.
Posted ==
    /\ cid \in Conv /\ SameLoads /\ FewerStatus /\ UNCHANGED <<got, pasted, blocked>>
    /\ missed' = IF Request("messages", cid) \in inFlight THEN missed \cup {cid} ELSE missed
    /\ \E m \in Messages : /\ Shows(convs, m)
                           /\ m.n = msgs.n /\ m.of = IF msgs = NoMsgs THEN cid ELSE msgs.of

\* A message that is appended counts, and the list stays its conversation's.
LEMMA AppendFields ==
    ASSUME NEW m \in Messages, NEW c \in Conv, NEW mine \in BOOLEAN, None \notin Conv,
           MaxEvents \in Nat, m.n + 1 <= MaxEvents
    PROVE  /\ Append1(m, c, mine) \in Messages /\ Append1(m, c, mine) # NoMsgs
           /\ Append1(m, c, mine).n = m.n + 1
           /\ Append1(m, c, mine).of = IF m = NoMsgs THEN c ELSE m.of
<1>1. /\ m.n \in Nat /\ m.n + 1 \in 0 .. MaxEvents
      /\ m.of = None <=> m = NoMsgs
      /\ m.of # None => m.of \in Conv
  BY DEF Messages, NoMsgs
<1>2. m.own \in BOOLEAN
  <2>1. CASE m = NoMsgs
    BY <2>1 DEF NoMsgs
  <2>2. CASE m \in [of : Conv, n : 0 .. MaxEvents, own : BOOLEAN]
    BY <2>2
  <2>3. QED BY <2>1, <2>2 DEF Messages
<1>3. (mine \/ m.own) \in BOOLEAN
  OBVIOUS
<1> DEFINE own == mine \/ m.own
           of == IF m.of = None THEN c ELSE m.of
<1>4. Append1(m, c, mine) = [of |-> of, n |-> m.n + 1, own |-> own]
  BY DEF Append1
<1>5. of \in Conv /\ own \in BOOLEAN
  BY <1>1, <1>3
<1> HIDE DEF own
<1>6. QED BY <1>1, <1>4, <1>5 DEF Messages, NoMsgs

\* A message that the page adds itself counts for none that was pushed.
LEMMA AddedFields ==
    ASSUME NEW m \in Messages, NEW c \in Conv, None \notin Conv, MaxEvents \in Nat
    PROVE  /\ Added(m, c) \in Messages /\ Added(m, c) # NoMsgs
           /\ Added(m, c).n = m.n
           /\ Added(m, c).of = IF m = NoMsgs THEN c ELSE m.of
<1>1. /\ m.n \in 0 .. MaxEvents
      /\ m.of = None <=> m = NoMsgs
      /\ m.of # None => m.of \in Conv
  BY DEF Messages, NoMsgs
<1>2. QED BY <1>1 DEF Added, Messages, NoMsgs

\* An answer to the load of messages is a list of its conversation.
LEMMA LoadedFields ==
    ASSUME NEW c \in Conv, NEW k \in 0 .. MaxEvents, MaxEvents \in Nat,
           NEW m \in {NoMsgs} \cup [of : {c}, n : 0 .. k, own : BOOLEAN]
    PROVE  m \in Messages /\ m.of \in {c, None} /\ m.n \in Nat /\ m.n <= k
BY DEF Messages, NoMsgs

\* The answers to the lists.
LEMMA ListEffect ==
    ASSUME ChatInv, NEW a \in Owner, ListLoaded(a), ~late'
    PROVE  (ListComes \/ Quiet) /\ UNCHANGED <<pasted, blocked>>
<1>1. ChatTypeOK /\ None \notin Owner /\ msgs \in Messages
  BY ChatTypes DEF ChatInv
<1>2. inFlight' = inFlight \ {Request("list", a)} /\ UNCHANGED <<got, missed, pasted, blocked>>
  BY DEF ListLoaded
<1>3. SameLoads /\ FewerStatus
  BY <1>2, RequestFields DEF SameLoads, FewerStatus
<1>4. CASE UNCHANGED <<active, cid, convs, msgs, convCache, msgCache, last, late>>
  BY <1>2, <1>3, <1>4 DEF Quiet, View
<1>5. CASE \E list \in {a, None} : Shown(list, msgs) /\ a = active
  BY <1>1, <1>2, <1>3, <1>5, ShowsEffect DEF ListComes
<1>6. QED BY <1>4, <1>5 DEF ListLoaded

\* The answers to the messages.
LEMMA AnsweredEffect ==
    ASSUME ChatInv, NEW c \in Conv, MessagesLoaded(c), ~late'
    PROVE  Answered(c)
<1>1. /\ ChatTypeOK /\ None \notin Conv /\ MaxEvents \in Nat /\ convs \in Owner \cup {None}
      /\ got[c] \in Nat /\ got[c] <= MaxEvents
  BY ChatTypes DEF ChatInv, ChatTypeOK
<1>2. inFlight' = inFlight \ {Request("messages", c)} /\ UNCHANGED <<got, pasted, blocked>>
  BY DEF MessagesLoaded
<1>3. OtherLoads(c) /\ FewerStatus
  BY <1>2, RequestFields DEF OtherLoads, FewerStatus
<1>4. ASSUME NEW m \in {NoMsgs} \cup [of : {c}, n : 0 .. got[c], own : BOOLEAN]
      PROVE  m \in Messages /\ m.of \in {c, None}
  BY <1>1, LoadedFields
<1>5. CASE UNCHANGED <<active, cid, convs, msgs, convCache, msgCache, last, late>>
           /\ missed' = missed \cup {c}
  BY <1>2, <1>3, <1>5 DEF Answered, View
<1>6. CASE c = cid /\ UNCHANGED missed
           /\ \E m \in {NoMsgs} \cup [of : {c}, n : 0 .. got[c], own : BOOLEAN] :
                (m.n # got[c] => c \in missed) /\ Shown(convs, m)
  <2>1. PICK m \in {NoMsgs} \cup [of : {c}, n : 0 .. got[c], own : BOOLEAN] :
                (m.n # got[c] => c \in missed) /\ Shown(convs, m)
    BY <1>6
  <2>2. m \in Messages /\ m.of \in {c, None}
    BY <1>4
  <2>3. Shows(convs, m)
    BY <1>1, <2>1, <2>2, ShowsEffect
  <2>4. QED BY <1>2, <1>3, <1>6, <2>1, <2>2, <2>3 DEF Answered
<1>7. QED BY <1>5, <1>6 DEF MessagesLoaded

\* A message that is pushed goes to its own conversation, shown or not.
LEMMA PushedEffect ==
    ASSUME ChatInv, NEW c \in Conv, Push(c)
    PROVE  Pushed(c)
<1> DEFINE a == AccountOf[c]
<1>1. /\ ChatTypeOK /\ Views /\ None \notin Conv /\ MaxEvents \in Nat /\ a \in Owner
      /\ msgs \in Messages /\ Held(c) \in Messages /\ events \in Nat /\ events < MaxEvents
      /\ None \notin Owner
  BY ChatTypes, ViewTypes DEF ChatInv, Held, Push, Event
<1>2. msgs.n \in Nat /\ Held(c).n \in Nat /\ msgs.n + 1 <= MaxEvents /\ Held(c).n + 1 <= MaxEvents
  <2>1. msgs.n <= events /\ Held(c).n <= events
    BY <1>1 DEF ChatInv, Counted, Held
  <2>2. msgs.n \in Nat /\ Held(c).n \in Nat
    BY <1>1, ChatTypes
  <2>3. QED BY <1>1, <2>1, <2>2
<1>3. SameLoads /\ FewerStatus /\ UNCHANGED <<pasted, blocked>>
  BY DEF Push, SameLoads, FewerStatus
<1>4. \A d \in Conv : got'[d] = IF d = c THEN got[d] + 1 ELSE got[d]
  BY <1>1 DEF Push, ChatTypeOK
<1>5. missed' = IF Lost(AccountOf[c], c) THEN missed \cup {c} ELSE missed
  BY DEF Push
<1>6. CASE a = active /\ c = cid
  <2>1. PICK mine \in BOOLEAN : Shown(active, Append1(msgs, c, mine))
    BY <1>6 DEF Push
  <2>2. Append1(msgs, c, mine) \in Messages /\ Append1(msgs, c, mine).n = msgs.n + 1
        /\ Append1(msgs, c, mine).of = IF msgs = NoMsgs THEN c ELSE msgs.of
    BY <1>1, <1>2, AppendFields
  <2>3. Shows(active, Append1(msgs, c, mine))
    BY <1>1, <1>6, <2>1, <2>2, ShowsEffect
  <2>4. QED BY <1>3, <1>4, <1>5, <1>6, <2>2, <2>3 DEF Pushed
<1>7. CASE a = active /\ c # cid
  <2>1. Shown(active, msgs)
    BY <1>7 DEF Push
  <2>2. Shows(active, msgs)
    BY <1>1, <1>7, <2>1, ShowsEffect
  <2>3. QED BY <1>3, <1>4, <1>5, <1>7, <2>2 DEF Pushed
<1>8. CASE a # active
  <2>1. PICK mine \in BOOLEAN : PushBehind(a, c, mine) /\ UNCHANGED <<active, cid, convs, msgs, last>>
    BY <1>8 DEF Push
  <2>2. <<a, c>> \in Pairs /\ msgCache \in [Pairs -> Messages]
    BY <1>1 DEF Pairs, Views
  <2>3. CASE Held(c) = NoMsgs
    BY <1>3, <1>4, <1>5, <1>8, <2>1, <2>3 DEF Pushed, PushBehind, Held
  <2>4. CASE Held(c) # NoMsgs
    <3>1. msgCache' = [msgCache EXCEPT ![<<a, c>>] = Append1(Held(c), c, mine)]
      BY <2>1, <2>4 DEF PushBehind, Held
    <3>2. Append1(Held(c), c, mine).n = Held(c).n + 1 /\ Append1(Held(c), c, mine).of = Held(c).of
      BY <1>1, <1>2, <2>4, AppendFields
    <3>3. \A b \in Owner, d \in Conv :
             msgCache'[<<b, d>>] = IF b = a /\ d = c THEN Append1(Held(c), c, mine) ELSE msgCache[<<b, d>>]
      BY <2>2, <3>1 DEF Pairs
    <3>4. UNCHANGED convCache
      BY <2>1 DEF PushBehind
    <3>5. QED BY <1>3, <1>4, <1>5, <1>8, <2>1, <2>4, <3>2, <3>3, <3>4 DEF Pushed
  <2>5. QED BY <2>3, <2>4
<1>9. QED BY <1>6, <1>7, <1>8

\* A message that is taken for one the page has changes no list of messages.
LEMMA SkippedEffect ==
    ASSUME ChatInv, NEW c \in Conv, Repeated(c)
    PROVE  Skipped(c)
<1>1. ChatTypeOK /\ active \in Owner \cup {None} /\ msgs \in Messages /\ AccountOf[c] \in Owner
  BY ChatTypes DEF ChatInv
<1>2. SameLoads /\ FewerStatus /\ UNCHANGED <<pasted, blocked>>
  BY DEF Repeated, SameLoads, FewerStatus
<1>3. \/ UNCHANGED <<got, missed>>
      \/ /\ missed' = missed \cup {c}
         /\ \A d \in Conv : got'[d] = IF d = c THEN got[d] + 1 ELSE got[d]
  BY <1>1 DEF Repeated, ChatTypeOK
<1>4. CASE AccountOf[c] = active
  <2>1. Shown(active, msgs)
    BY <1>4 DEF Repeated
  <2>2. Shows(active, msgs)
    BY <1>1, <1>4, <2>1, ShowsEffect
  <2>3. QED BY <1>2, <1>3, <2>2 DEF Skipped
<1>5. CASE AccountOf[c] # active
  BY <1>2, <1>3, <1>5 DEF Repeated, View, Skipped
<1>6. QED BY <1>4, <1>5

\* The answer to a message that was sent goes to the conversation it was sent from.
LEMMA PostedEffect ==
    ASSUME ChatInv, NEW r, Sent(r), ~late'
    PROVE  Posted
<1>1. /\ ChatTypeOK /\ inFlight \subseteq Requests /\ None \notin Conv /\ MaxEvents \in Nat
      /\ msgs \in Messages /\ convs \in Owner \cup {None} /\ (msgs.of = None <=> msgs = NoMsgs)
  BY ChatTypes, ViewTypes DEF ChatInv
<1>2. r \in inFlight /\ r.do \in {"send", "image"}
  BY DEF Sent, Sending, Doing
<1>3. r.for \in Conv /\ r.for = cid
  BY <1>1, <1>2, RequestTypes DEF Sent
<1>4. /\ inFlight' = inFlight \ {r} /\ UNCHANGED <<got, pasted, blocked>>
      /\ missed' = IF Request("messages", cid) \in inFlight THEN missed \cup {cid} ELSE missed
  BY <1>3 DEF Sent
<1>5. SameLoads /\ FewerStatus
  BY <1>2, <1>4, RequestFields DEF SameLoads, FewerStatus
<1> DEFINE m == Added(msgs, cid)
<1>6. /\ m \in Messages /\ Shown(convs, m) /\ m.n = msgs.n
      /\ m.of = IF msgs = NoMsgs THEN cid ELSE msgs.of
  BY <1>1, <1>3, AddedFields DEF Sent
<1> HIDE DEF m
<1>7. Shows(convs, m)
  BY <1>1, <1>6, ShowsEffect
<1>8. QED BY <1>3, <1>4, <1>5, <1>6, <1>7 DEF Posted

\* The other steps leave what is shown and cached alone.
LEMMA AccountEffect ==
    ASSUME ChatTypeOK, NEW a \in Owner, SelectAccount(a) \/ Connected(a) \/ Disconnected(a)
    PROVE  /\ (\E b \in Owner \cup {None} : OpensAccount(b))
              \/ (Quiet /\ UNCHANGED <<pasted, blocked, late>>)
           /\ Views' /\ inFlight' \subseteq Requests
<1>1. Views /\ inFlight \subseteq Requests /\ connected \subseteq Owner
      /\ active \in Owner \cup {None}
  BY ViewTypes DEF ChatTypeOK, Views
<1>2. \A b \in Owner, what \in {"connect", "disconnect", "close"} : {Request(what, b)} \subseteq AccountRequest
  BY DEF AccountRequest, Request
<1>3. ASSUME NEW R \in SUBSET AccountRequest, inFlight' = (inFlight \cup R) \/ inFlight' = inFlight \ R,
             UNCHANGED <<View, got, missed, pasted, blocked, late>>
      PROVE  Quiet /\ UNCHANGED <<pasted, blocked, late>> /\ Views' /\ inFlight' \subseteq Requests
  <2>1. \A c \in Conv : Request("messages", c) \notin R /\ Request("status", c) \notin R
    BY DEF AccountRequest, Request
  <2>2. SameLoads /\ FewerStatus
    BY <1>3, <2>1 DEF SameLoads, FewerStatus
  <2>3. QED BY <1>1, <1>3, <2>2 DEF Quiet, View, Views, Requests
<1>4. CASE SelectAccount(a)
  <2>1. CASE a \in connected
    BY <1>1, <1>4, <2>1, ActivateEffect DEF SelectAccount
  <2>2. CASE a \notin connected
    BY <1>2, <1>3, <1>4, <2>2 DEF SelectAccount, View
  <2>3. QED BY <2>1, <2>2
<1>5. CASE Connected(a)
  <2>1. CASE connected' \in {connected, connected \cup {a}} /\ Activate(a, connected', {Request("connect", a)})
    <3>1. connected' \in SUBSET Owner /\ {Request("connect", a)} \in SUBSET AccountRequest
      BY <1>1, <1>2, <2>1
    <3>2. UNCHANGED <<got, missed, late>>
      BY <1>5 DEF Connected
    <3>3. QED BY <2>1, <3>1, <3>2, ActivateEffect
  <2>2. CASE inFlight' = inFlight \ {Request("connect", a)} /\ UNCHANGED <<View, pasted,
                                                                           blocked>>
    BY <1>2, <1>3, <1>5, <2>2 DEF Connected
  <2>3. QED BY <1>5, <2>1, <2>2 DEF Connected, View
<1>6. CASE Disconnected(a)
  <2>1. PICK what \in {"disconnect", "close"} :
          \/ Activate(None, {}, {Request(what, a)})
          \/ Activate(active, connected, {Request(what, a)})
    BY <1>6 DEF Disconnected
  <2>2. UNCHANGED <<got, missed, late>> /\ {Request(what, a)} \subseteq AccountRequest
    BY <1>2, <1>6 DEF Disconnected
  <2>3. CASE Activate(None, {}, {Request(what, a)})
    BY <2>2, <2>3, ActivateEffect
  <2>4. CASE Activate(active, connected, {Request(what, a)})
    BY <1>1, <2>2, <2>4, ActivateEffect
  <2>5. QED BY <2>1, <2>3, <2>4
<1>7. QED BY <1>4, <1>5, <1>6

\* These events change nothing that is shown, and ask for no messages.
LEMMA QuietEffects ==
    ASSUME ChatInv, \/ \E a \in Owner : Disconnect(a) \/ Dropped(a)
                    \/ ReloadList \/ Paste \/ Send \/ Ask \/ Confirm
                    \/ (\E c \in Conv : StatusAnswered(c)) \/ \E r \in inFlight : Blacklisted(r)
    PROVE  Quiet /\ Views' /\ inFlight' \subseteq Requests
<1>1. /\ ChatTypeOK /\ Views /\ inFlight \subseteq Requests /\ connected \subseteq Owner
      /\ dialog \in ConvRequest \cup {None} /\ (dialog # None => dialog.do \in {"block", "unblock"})
  BY ViewTypes DEF ChatInv, ChatTypeOK, Waiting
<1>2. ASSUME UNCHANGED <<View, got, missed>>, NEW r, r.do # "messages",
             \/ inFlight' = inFlight \ {r}
             \/ inFlight' = inFlight \cup {r} /\ r.do # "status" /\ r \in Requests
      PROVE  Quiet /\ Views' /\ inFlight' \subseteq Requests
  <2>1. \A c \in Conv : Request("messages", c) # r
    BY <1>2, RequestFields
  <2>2. inFlight' = inFlight \ {r} \/ \A c \in Conv : Request("status", c) # r
    BY <1>2, RequestFields
  <2>3. SameLoads /\ FewerStatus
    BY <1>2, <2>1, <2>2 DEF SameLoads, FewerStatus
  <2>4. QED BY <1>1, <1>2, <2>3 DEF Quiet, View, Views
<1>3. ASSUME NEW a \in Owner, Disconnect(a)
      PROVE  Quiet /\ Views' /\ inFlight' \subseteq Requests
  <2>1. PICK what \in {"close", "disconnect"} : inFlight' = inFlight \cup {Request(what, a)}
    BY <1>3 DEF Disconnect
  <2>2. Request(what, a) \in Requests /\ Request(what, a).do \notin {"messages", "status"}
    BY RequestTypes, RequestFields
  <2>3. UNCHANGED <<View, got, missed>>
    BY <1>3 DEF Disconnect, View
  <2>4. QED BY <1>2, <2>1, <2>2, <2>3
<1>4. ASSUME UNCHANGED <<inFlight, View, got, missed>>
      PROVE  Quiet /\ Views' /\ inFlight' \subseteq Requests
  BY <1>1, <1>4 DEF Quiet, View, Views, SameLoads, FewerStatus
<1>5. CASE Paste \/ Ask \/ \E a \in Owner : Dropped(a)
  BY <1>4, <1>5 DEF Paste, Ask, Dropped, View
<1>6. CASE ReloadList
  <2>1. active \in Owner
    BY <1>1, <1>6 DEF ReloadList, Views
  <2>2. Request("list", active) \in Requests /\ Request("list", active).do = "list"
    BY <2>1, RequestTypes, RequestFields
  <2>3. inFlight' = inFlight \cup {Request("list", active)} /\ UNCHANGED <<View, got, missed>>
    BY <1>6 DEF ReloadList, View
  <2>4. QED BY <1>2, <2>2, <2>3
<1>7. CASE Send
  <2>1. cid \in Conv /\ UNCHANGED <<View, got, missed>>
    BY <1>1, <1>7 DEF Send, Views, View
  <2>2. \/ UNCHANGED inFlight
        \/ \E what \in {"image", "send"} : inFlight' = inFlight \cup {Request(what, cid)}
    BY <1>7 DEF Send
  <2>3. \A what \in {"image", "send"} :
           Request(what, cid) \in Requests /\ Request(what, cid).do = what
    BY <2>1, RequestTypes, RequestFields
  <2>4. QED BY <1>2, <1>4, <2>1, <2>2, <2>3
<1>8. CASE Confirm
  <2>1. UNCHANGED <<View, got, missed>> /\ dialog # None
        /\ (UNCHANGED inFlight \/ inFlight' = inFlight \cup {dialog})
    BY <1>8 DEF Confirm, View
  <2>2. dialog \in Requests /\ dialog.do \notin {"messages", "status"}
    BY <1>1, <2>1 DEF Requests
  <2>3. QED BY <1>2, <1>4, <2>1, <2>2
<1>9. ASSUME NEW c \in Conv, StatusAnswered(c)
      PROVE  Quiet /\ Views' /\ inFlight' \subseteq Requests
  <2>1. Request("status", c).do # "messages"
    BY RequestFields
  <2>2. inFlight' = inFlight \ {Request("status", c)} /\ UNCHANGED <<View, got, missed>>
    BY <1>9 DEF StatusAnswered, View
  <2>3. QED BY <1>2, <2>1, <2>2
<1>10. ASSUME NEW r \in inFlight, Blacklisted(r)
       PROVE  Quiet /\ Views' /\ inFlight' \subseteq Requests
  <2>1. inFlight' = inFlight \ {r} /\ UNCHANGED <<View, got, missed>> /\ r.do \in {"block", "unblock"}
    BY <1>10 DEF Blacklisted, Blacklisting, Doing, View
  <2>2. QED BY <1>2, <2>1
<1>11. QED BY <1>3, <1>5, <1>6, <1>7, <1>8, <1>9, <1>10, <1>4 DEF Dropped

-----------------------------------------------------------------------------
(* Every step keeps every part of the invariant                            *)

\* What a step does as long as no answer comes too late.
LEMMA ChatCases ==
    ASSUME ChatInv, ChatEvent, ~late'
    PROVE  \/ Quiet \/ (\E a \in Owner \cup {None} : OpensAccount(a))
           \/ ListComes \/ Posted
           \/ \E c \in Conv : Picks(c) \/ Answered(c) \/ Pushed(c) \/ Skipped(c)
<1>1. ChatTypeOK
  BY DEF ChatInv
<1>2. ASSUME NEW a \in Owner, SelectAccount(a) \/ Connected(a) \/ Disconnected(a)
      PROVE  Quiet \/ \E b \in Owner \cup {None} : OpensAccount(b)
  BY <1>1, <1>2, AccountEffect
<1>3. ASSUME NEW a \in Owner, ListLoaded(a)
      PROVE  ListComes \/ Quiet
  BY <1>3, ListEffect
<1>4. ASSUME NEW c \in Conv, SelectConversation(c)
      PROVE  Picks(c)
  BY <1>1, <1>4, PicksEffect
<1>5. ASSUME NEW c \in Conv, MessagesLoaded(c)
      PROVE  Answered(c)
  BY <1>5, AnsweredEffect
<1>6. ASSUME NEW c \in Conv, Push(c)
      PROVE  Pushed(c)
  BY <1>6, PushedEffect
<1>7. ASSUME NEW r \in inFlight, Sent(r)
      PROVE  Posted
  BY <1>7, PostedEffect
<1>8. ASSUME NEW c \in Conv, Repeated(c)
      PROVE  Skipped(c)
  BY <1>8, SkippedEffect
<1>9. QED BY QuietEffects, <1>2, <1>3, <1>4, <1>5, <1>6, <1>7, <1>8 DEF ChatEvent

\* What is shown and cached belongs where it is.
LEMMA StepBelongs ==
    ASSUME ChatInv, ~late, ChatEvent
    PROVE  CachesBelong'
<1> SUFFICES ASSUME ~late'
             PROVE  CachesBelong'
  BY DEF CachesBelong
<1>1. /\ ChatTypeOK /\ CachesBelong /\ Placed /\ None \notin Conv /\ None \notin Owner
      /\ NoMsgs.of = None /\ active \in Owner \cup {None} /\ cid \in Conv \cup {None}
      /\ \A m \in Messages : m.of = None <=> m = NoMsgs
      /\ msgs \in Messages /\ \A a \in Owner, c \in Conv : msgCache[<<a, c>>] \in Messages
      /\ \A a \in Owner : last[a] \in Conv \cup {None} /\ \A c \in Conv : AccountOf[c] \in Owner
  BY ChatTypes DEF ChatInv
<1>2. /\ convs \in {active, None} /\ msgs.of \in {cid, None}
      /\ \A a \in Owner : convCache[a] \in {a, None}
      /\ \A a \in Owner, c \in Conv :
          msgCache[<<a, c>>] # NoMsgs => msgCache[<<a, c>>].of = c /\ AccountOf[c] = a
  BY <1>1 DEF CachesBelong
<1>3. ASSUME NEW list \in {active, None}, NEW m \in Messages, m.of \in {cid, None}, Shows(list, m)
      PROVE  CachesBelong'
  <2>1. cid \in Conv /\ active \in Owner => AccountOf[cid] = active
    BY <1>1 DEF Placed
  <2>2. QED BY <1>1, <1>2, <1>3, <2>1 DEF Shows, CachesBelong
<1>4. CASE Quiet
  BY <1>2, <1>4 DEF Quiet, View, CachesBelong
<1>5. ASSUME NEW a \in Owner \cup {None}, OpensAccount(a)
      PROVE  CachesBelong'
  BY <1>1, <1>2, <1>5 DEF OpensAccount, CachesBelong
<1>6. CASE ListComes
  BY <1>1, <1>2, <1>3, <1>6 DEF ListComes
<1>7. CASE Posted
  <2>1. PICK m \in Messages : /\ Shows(convs, m) /\ m.n = msgs.n
                               /\ m.of = IF msgs = NoMsgs THEN cid ELSE msgs.of
    BY <1>7 DEF Posted
  <2>2. m.of \in {cid, None}
    BY <1>2, <2>1
  <2>3. QED BY <1>2, <1>3, <2>1, <2>2
<1>8. ASSUME NEW c \in Conv, Picks(c)
      PROVE  CachesBelong'
  BY <1>1, <1>2, <1>8 DEF Picks, CachesBelong
<1>9. ASSUME NEW c \in Conv, Answered(c)
      PROVE  CachesBelong'
  <2>1. CASE UNCHANGED View
    BY <1>2, <2>1 DEF View, CachesBelong
  <2>2. CASE ~(UNCHANGED View)
    BY <1>2, <1>3, <1>9, <2>2 DEF Answered
  <2>3. QED BY <2>1, <2>2
<1>10. ASSUME NEW c \in Conv, Pushed(c)
       PROVE  CachesBelong'
  <2>1. CASE AccountOf[c] = active
    BY <1>1, <1>2, <1>3, <1>10, <2>1 DEF Pushed
  <2>2. CASE AccountOf[c] # active
    BY <1>1, <1>2, <1>10, <2>2 DEF Pushed, CachesBelong, Held
  <2>3. QED BY <2>1, <2>2
<1>11. ASSUME NEW c \in Conv, Skipped(c)
       PROVE  CachesBelong'
  BY <1>1, <1>2, <1>3, <1>11 DEF Skipped, View, CachesBelong
<1>12. QED BY ChatCases, <1>4, <1>5, <1>6, <1>7, <1>8, <1>9, <1>10, <1>11

\* The messages on the screen are cached.
LEMMA StepSynced ==
    ASSUME ChatInv, ~late, ChatEvent
    PROVE  Synced'
<1> SUFFICES ASSUME ~late', msgs' # NoMsgs
             PROVE  cid' # None /\ msgCache'[<<active', cid'>>] = msgs'
  BY DEF Synced
<1>1. /\ ChatTypeOK /\ Placed /\ None \notin Conv /\ None \notin Owner
      /\ active \in Owner \cup {None} /\ cid \in Conv \cup {None}
      /\ \A a \in Owner : last[a] \in Conv \cup {None} /\ \A c \in Conv : AccountOf[c] \in Owner
      /\ (cid # None => active # None)
      /\ (msgs # NoMsgs => cid # None /\ msgCache[<<active, cid>>] = msgs)
  BY ChatTypes DEF ChatInv, Placed, Synced
<1>2. ASSUME NEW list, NEW m, m # NoMsgs => cid # None, Shows(list, m)
      PROVE  cid' # None /\ msgCache'[<<active', cid'>>] = msgs'
  BY <1>1, <1>2 DEF Shows
<1>3. CASE Quiet
  BY <1>1, <1>3 DEF Quiet, View
<1>4. ASSUME NEW a \in Owner \cup {None}, OpensAccount(a)
      PROVE  cid' # None /\ msgCache'[<<active', cid'>>] = msgs'
  BY <1>1, <1>4 DEF OpensAccount
<1>5. CASE ListComes
  BY <1>1, <1>2, <1>5 DEF ListComes
<1>6. CASE Posted
  BY <1>1, <1>2, <1>6 DEF Posted
<1>7. ASSUME NEW c \in Conv, Picks(c)
      PROVE  cid' # None /\ msgCache'[<<active', cid'>>] = msgs'
  BY <1>1, <1>7 DEF Picks
<1>8. ASSUME NEW c \in Conv, Answered(c)
      PROVE  cid' # None /\ msgCache'[<<active', cid'>>] = msgs'
  <2>1. CASE UNCHANGED View
    BY <1>1, <2>1 DEF View
  <2>2. CASE ~(UNCHANGED View)
    BY <1>1, <1>2, <1>8, <2>2 DEF Answered
  <2>3. QED BY <2>1, <2>2
<1>9. ASSUME NEW c \in Conv, Pushed(c)
      PROVE  cid' # None /\ msgCache'[<<active', cid'>>] = msgs'
  <2>1. CASE AccountOf[c] = active
    BY <1>1, <1>2, <1>9, <2>1 DEF Pushed
  <2>2. CASE AccountOf[c] # active
    <3>1. msgs # NoMsgs /\ cid \in Conv /\ active \in Owner
      BY <1>1, <1>9, <2>2 DEF Pushed
    <3>2. QED BY <1>1, <1>9, <2>2, <3>1 DEF Pushed
  <2>3. QED BY <2>1, <2>2
<1>10. ASSUME NEW c \in Conv, Skipped(c)
       PROVE  cid' # None /\ msgCache'[<<active', cid'>>] = msgs'
  BY <1>1, <1>2, <1>10 DEF Skipped, View
<1>11. QED BY ChatCases, <1>3, <1>4, <1>5, <1>6, <1>7, <1>8, <1>9, <1>10

\* Nothing shown is left out, and nothing shown is counted twice.
LEMMA StepCounts ==
    ASSUME ChatInv, ~late, ChatEvent
    PROVE  Counts'
<1> SUFFICES ASSUME ~late', NEW d \in Conv, d \notin missed'
             PROVE  Complete(d)'
  BY DEF Counts
<1>1. /\ ChatTypeOK /\ None \notin Conv /\ None \notin Owner
      /\ active \in Owner \cup {None} /\ cid \in Conv \cup {None}
      /\ \A a \in Owner : last[a] \in Conv \cup {None} /\ \A c \in Conv : AccountOf[c] \in Owner
      /\ \A c \in Conv : got[c] \in Nat /\ NoMsgs.n = 0 /\ NoMsgs.of = None
      /\ \A m \in Messages : m.n \in Nat /\ (m.of = None <=> m = NoMsgs)
      /\ msgs \in Messages
  BY ChatTypes DEF ChatInv
<1>2. /\ (cid # None => active # None /\ cid = last[active])
      /\ \A a \in Owner : last[a] # None => AccountOf[last[a]] = a
      /\ (msgs # NoMsgs => cid # None /\ msgCache[<<active, cid>>] = msgs)
  BY DEF ChatInv, Placed, Synced
<1>3. d \notin missed => Complete(d)
  BY DEF ChatInv, Counts
<1> DEFINE a == AccountOf[d]
<1>4. a \in Owner
  BY ChatTypes DEF ChatInv
<1>5. d = cid => a = active
  BY <1>1, <1>2
<1>6. CASE Quiet
  BY <1>1, <1>3, <1>6 DEF Quiet, View, SameLoads, Complete, Held
<1>7. ASSUME NEW b \in Owner \cup {None}, OpensAccount(b)
      PROVE  Complete(d)'
  <2>1. d \notin missed /\ Held(d)' = Held(d) /\ got' = got
        /\ (last'[a] = d => last[a] = d)
    BY <1>1, <1>4, <1>7 DEF OpensAccount, Held
  <2>2. Request("messages", d) \in inFlight => Request("messages", d) \in inFlight'
    BY <1>7 DEF OpensAccount, SameLoads
  <2>3. ASSUME last'[a] = d, d = cid' => msgs' = NoMsgs, d # cid' => Held(d) = NoMsgs
        PROVE  got[d] = 0 \/ Request("messages", d) \in inFlight
    <3>1. Held(d) = NoMsgs
      <4>1. CASE d # cid'
        BY <2>3, <4>1
      <4>2. CASE d = cid'
        <5>1. b \in Owner /\ last'[b] = d /\ last[b] = d
          BY <1>1, <1>7, <4>2 DEF OpensAccount
        <5>2. b = a
          BY <1>1, <1>2, <5>1
        <5>3. msgs' = msgCache[<<a, d>>]
          BY <1>1, <1>7, <4>2, <5>2 DEF OpensAccount
        <5>4. QED BY <2>3, <4>2, <5>3 DEF Held
      <4>3. QED BY <4>1, <4>2
    <3>2. d = cid => msgs = NoMsgs
      BY <1>2, <1>5, <3>1 DEF Held
    <3>3. QED BY <1>3, <2>1, <2>3, <3>1, <3>2 DEF Complete
  <2>4. QED BY <1>3, <2>1, <2>2, <2>3 DEF Complete
<1>8. ASSUME NEW c \in Conv, Picks(c)
      PROVE  Complete(d)'
  <2>1. /\ d \notin missed /\ got' = got /\ active' = active /\ AccountOf[c] = active /\ active \in Owner
        /\ last'[a] = IF a = active THEN c ELSE last[a]
        /\ msgs' = msgCache[<<active, c>>] /\ cid' = c
        /\ Request("messages", d) \in inFlight' <=>
              Request("messages", d) \in inFlight \/ (d = c /\ msgCache[<<active, c>>] = NoMsgs)
    <3>1. convs = AccountOf[c] /\ convs \in {active, None}
      BY <1>8 DEF Picks, ChatInv, CachesBelong
    <3>2. QED BY <1>1, <1>4, <1>8, <3>1 DEF Picks
  <2>2. Held(d)' = Held(d)
    BY <1>4, <1>8 DEF Picks, Held
  <2>3. QED BY <1>1, <1>3, <1>5, <2>1, <2>2 DEF Complete, Held
<1>9. CASE ListComes
  <2>1. /\ d \notin missed /\ got' = got /\ msgs' = msgs /\ UNCHANGED <<active, cid, last>>
        /\ Request("messages", d) \in inFlight' <=> Request("messages", d) \in inFlight
        /\ Held(d)' = IF a = active /\ d = cid /\ msgs # NoMsgs THEN msgs ELSE Held(d)
    BY <1>4, <1>9 DEF ListComes, Shows, SameLoads, Held
  <2>2. Held(d)' = Held(d)
    BY <1>2, <2>1 DEF Held
  <2>3. QED BY <1>3, <2>1, <2>2 DEF Complete
<1>10. CASE Posted
  <2>1. PICK m \in Messages : /\ Shows(convs, m) /\ m.n = msgs.n
                               /\ m.of = IF msgs = NoMsgs THEN cid ELSE msgs.of
    BY <1>10 DEF Posted
  <2>2. /\ d \notin missed /\ got' = got /\ UNCHANGED <<active, cid, last>> /\ msgs' = m
        /\ Request("messages", d) \in inFlight' <=> Request("messages", d) \in inFlight
        /\ Held(d)' = IF a = active /\ d = cid /\ m # NoMsgs THEN m ELSE Held(d)
        /\ d = cid => Request("messages", d) \notin inFlight
    BY <1>4, <1>10, <2>1 DEF Posted, Shows, SameLoads, Held
  <2>3. cid \in Conv /\ m # NoMsgs
    BY <1>1, <1>10, <2>1 DEF Posted, NoMsgs
  <2>4. CASE d = cid
    <3>1. msgs = NoMsgs => got[d] = 0 /\ m.n = 0
      BY <1>1, <1>2, <1>3, <1>5, <2>1, <2>2, <2>4 DEF Complete
    <3>2. msgs # NoMsgs => m.n = got[d]
      BY <1>2, <1>3, <1>5, <2>1, <2>2, <2>4 DEF Complete, Held
    <3>3. QED BY <1>1, <1>5, <2>2, <2>3, <2>4, <3>1, <3>2 DEF Complete
  <2>5. CASE d # cid
    BY <1>1, <1>2, <1>3, <1>4, <2>2, <2>5 DEF Complete
  <2>6. QED BY <2>4, <2>5
<1>11. ASSUME NEW c \in Conv, Answered(c)
       PROVE  Complete(d)'
  <2>1. CASE UNCHANGED View /\ missed' = missed \cup {c}
    <3>1. d # c /\ d \notin missed /\ got' = got
          /\ (Request("messages", d) \in inFlight' <=> Request("messages", d) \in inFlight)
      BY <1>11, <2>1 DEF Answered, OtherLoads
    <3>2. QED BY <1>3, <2>1, <3>1 DEF View, Complete, Held
  <2>2. CASE c = cid /\ UNCHANGED missed
             /\ \E m \in Messages : Shows(convs, m) /\ (m.n # got[c] => c \in missed)
    <3>1. PICK m \in Messages : Shows(convs, m) /\ (m.n # got[c] => c \in missed)
      BY <2>2
    <3>2. /\ d \notin missed /\ got' = got /\ UNCHANGED <<active, cid, last>> /\ msgs' = m
          /\ d # c => (Request("messages", d) \in inFlight' <=> Request("messages", d) \in inFlight)
          /\ Held(d)' = IF a = active /\ d = cid /\ m # NoMsgs THEN m ELSE Held(d)
      BY <1>4, <1>11, <2>2, <3>1 DEF Answered, OtherLoads, Shows, Held
    <3>3. CASE d = c
      BY <1>1, <1>3, <1>5, <2>2, <3>1, <3>2, <3>3 DEF Complete
    <3>4. CASE d # c
      BY <1>1, <1>2, <1>3, <1>4, <2>2, <3>2, <3>4 DEF Complete
    <3>5. QED BY <3>3, <3>4
  <2>3. QED BY <1>11, <2>1, <2>2 DEF Answered
<1>12. ASSUME NEW c \in Conv, Pushed(c)
       PROVE  Complete(d)'
  <2>1. /\ d \notin missed /\ (d = c => ~Lost(AccountOf[c], c))
        /\ got'[d] = IF d = c THEN got[d] + 1 ELSE got[d]
        /\ (Request("messages", d) \in inFlight' <=> Request("messages", d) \in inFlight)
        /\ UNCHANGED <<active, cid, last>>
    BY <1>12 DEF Pushed, SameLoads, Shows
  <2>2. Complete(d)
    BY <1>3, <2>1
  <2>3. CASE AccountOf[c] = active /\ c = cid
    <3>1. PICK m \in Messages : Shows(active, m) /\ m.n = msgs.n + 1
                                /\ m.of = IF msgs = NoMsgs THEN c ELSE msgs.of
      BY <1>12, <2>3 DEF Pushed
    <3>2. msgs' = m /\ m # NoMsgs
          /\ Held(d)' = IF a = active /\ d = cid /\ m # NoMsgs THEN m ELSE Held(d)
      BY <1>1, <1>4, <3>1 DEF Shows, Held
    <3>3. CASE d = c
      <4>1. Request("messages", d) \notin inFlight
        BY <2>1, <3>3 DEF Lost
      <4>2. msgs = NoMsgs => got[d] = 0 /\ msgs.n = 0
        BY <1>1, <1>2, <2>2, <2>3, <3>3, <4>1 DEF Complete
      <4>3. msgs # NoMsgs => msgs.n = got[d]
        BY <1>2, <2>2, <2>3, <3>3 DEF Complete, Held
      <4>4. m.n = got[d] + 1
        BY <1>1, <3>1, <4>2, <4>3
      <4>5. QED BY <2>1, <2>3, <3>2, <3>3, <4>4 DEF Complete
    <3>4. CASE d # c
      BY <1>1, <1>2, <1>4, <2>1, <2>2, <2>3, <3>2, <3>4 DEF Complete
    <3>5. QED BY <3>3, <3>4
  <2>4. CASE AccountOf[c] = active /\ c # cid
    <3>1. Shows(active, msgs)
      BY <1>12, <2>4 DEF Pushed
    <3>2. msgs' = msgs /\ Held(d)' = IF a = active /\ d = cid /\ msgs # NoMsgs THEN msgs ELSE Held(d)
      BY <1>4, <3>1 DEF Shows, Held
    <3>3. Held(d)' = Held(d)
      BY <1>2, <3>2 DEF Held
    <3>4. CASE d = c
      <4>1. Held(d) = NoMsgs
        BY <2>1, <2>4, <3>4 DEF Lost, Held
      <4>2. last[a] # d
        BY <2>1, <2>4, <3>4, <4>1 DEF Lost, Held
      <4>3. QED BY <2>1, <3>3, <4>1, <4>2 DEF Complete
    <3>5. CASE d # c
      BY <2>1, <2>2, <3>2, <3>3, <3>5 DEF Complete
    <3>6. QED BY <3>4, <3>5
  <2>5. CASE AccountOf[c] # active
    <3>1. msgs' = msgs
          /\ IF d = c /\ Held(c) # NoMsgs
             THEN Held(d)'.n = Held(c).n + 1 /\ Held(d)'.of = Held(c).of
             ELSE Held(d)' = Held(d)
      BY <1>4, <1>12, <2>5 DEF Pushed, Held
    <3>2. CASE d = c /\ Held(c) = NoMsgs
      <4>1. last[a] # d
        BY <1>5, <2>1, <2>5, <3>2 DEF Lost, Held
      <4>2. QED BY <2>1, <3>1, <3>2, <4>1 DEF Complete
    <3>3. CASE d = c /\ Held(c) # NoMsgs
      <4>1. Held(c).n = got[d]
        BY <2>2, <3>3 DEF Complete
      <4>2. Held(d)' # NoMsgs
        <5>1. Held(c) \in Messages
          BY ChatTypes, <1>1 DEF Held
        <5>2. QED BY <1>1, <3>1, <3>3, <5>1
      <4>3. QED BY <1>5, <2>1, <2>5, <3>1, <3>3, <4>1, <4>2 DEF Complete
    <3>4. CASE d # c
      BY <2>1, <2>2, <3>1, <3>4 DEF Complete
    <3>5. QED BY <3>2, <3>3, <3>4
  <2>6. QED BY <2>3, <2>4, <2>5
<1>13. ASSUME NEW c \in Conv, Skipped(c)
       PROVE  Complete(d)'
  <2>1. /\ d \notin missed /\ got'[d] = got[d] /\ UNCHANGED <<active, cid, last>> /\ msgs' = msgs
        /\ Request("messages", d) \in inFlight' <=> Request("messages", d) \in inFlight
        /\ Held(d)' = Held(d) \/ Held(d)' = IF a = active /\ d = cid /\ msgs # NoMsgs THEN msgs ELSE Held(d)
    BY <1>4, <1>13 DEF Skipped, Shows, View, SameLoads, Held
  <2>2. Held(d)' = Held(d)
    BY <1>2, <2>1 DEF Held
  <2>3. QED BY <1>3, <2>1, <2>2 DEF Complete
<1>14. QED BY ChatCases, <1>6, <1>7, <1>8, <1>9, <1>10, <1>11, <1>12, <1>13

\* What other steps do to where the page is, to the pasted picture and the blacklist mark.
Stays ==
    /\ UNCHANGED <<active, cid, last>> /\ FewerStatus
    /\ pasted' \in {pasted, cid, None}
    /\ late' \/ blocked' \in {blocked, cid, None}

\* An event switches the account, picks a conversation, or stays where it is.
LEMMA StaysEffect ==
    ASSUME ChatInv, ~late, ChatEvent
    PROVE  \/ \E a \in Owner \cup {None} : OpensAccount(a)
           \/ \E c \in Conv : Picks(c)
           \/ Stays
<1>1. ChatTypeOK /\ inFlight \subseteq Requests
  BY ViewTypes DEF ChatInv
<1>2. ASSUME NEW a \in Owner, SelectAccount(a) \/ Connected(a) \/ Disconnected(a)
      PROVE  Stays \/ \E b \in Owner \cup {None} : OpensAccount(b)
  BY <1>1, <1>2, AccountEffect DEF Quiet, View, Stays
<1>3. ASSUME NEW a \in Owner, ListLoaded(a)
      PROVE  Stays
  <2>1. FewerStatus /\ UNCHANGED <<pasted, blocked>>
    BY <1>3 DEF ListLoaded, FewerStatus
  <2>2. QED BY <1>3, <2>1 DEF ListLoaded, Shown, Stays
<1>4. ASSUME NEW c \in Conv, SelectConversation(c)
      PROVE  Picks(c)
  BY <1>1, <1>4, PicksEffect
<1>5. ASSUME NEW c \in Conv, MessagesLoaded(c)
      PROVE  Stays
  <2>1. FewerStatus /\ UNCHANGED <<pasted, blocked>>
    BY <1>5 DEF MessagesLoaded, FewerStatus
  <2>2. QED BY <1>5, <2>1 DEF MessagesLoaded, Shown, Stays
<1>6. ASSUME NEW c \in Conv, Push(c)
      PROVE  Stays
  <2>1. FewerStatus /\ UNCHANGED <<pasted, blocked>>
    BY <1>6 DEF Push, FewerStatus
  <2>2. QED BY <1>6, <2>1 DEF Push, Shown, Stays
<1>7. ASSUME NEW r, Sent(r)
      PROVE  Stays
  <2>1. FewerStatus /\ UNCHANGED <<pasted, blocked>>
    BY <1>7 DEF Sent, FewerStatus
  <2>2. QED BY <1>7, <2>1 DEF Sent, Shown, Stays
<1>8. ASSUME ReloadList \/ Paste \/ Send \/ Ask \/ Confirm \/ \E a \in Owner : Disconnect(a) \/ Dropped(a)
      PROVE  Stays
  <2>1. Quiet
    BY <1>8, QuietEffects
  <2>2. pasted' \in {pasted, cid, None} /\ UNCHANGED blocked
    BY <1>8 DEF ReloadList, Paste, Send, Ask, Confirm, Disconnect, Dropped
  <2>3. QED BY <2>1, <2>2 DEF Quiet, View, Stays
<1>9. ASSUME NEW c \in Conv, StatusAnswered(c)
      PROVE  Stays
  <2>1. Quiet
    BY <1>9, QuietEffects
  <2>2. c = cid
    BY <1>9 DEF StatusAnswered, ChatInv, Waiting
  <2>3. QED BY <1>9, <2>1, <2>2 DEF StatusAnswered, Quiet, View, Stays
<1>10. ASSUME NEW r \in inFlight, Blacklisted(r)
       PROVE  Stays
  <2>1. Quiet
    BY <1>10, QuietEffects
  <2>2. late' \/ blocked' \in {blocked, cid, None}
    BY <1>10 DEF Blacklisted
  <2>3. QED BY <1>10, <2>1, <2>2 DEF Blacklisted, Quiet, View, Stays
<1>11. ASSUME NEW c \in Conv, Repeated(c)
       PROVE  Stays
  <2>1. FewerStatus /\ UNCHANGED <<pasted, blocked>>
    BY <1>11 DEF Repeated, FewerStatus
  <2>2. QED BY <1>11, <2>1 DEF Repeated, Shown, Stays
<1>12. QED BY <1>2, <1>3, <1>4, <1>5, <1>6, <1>7, <1>8, <1>9, <1>10, <1>11 DEF ChatEvent

\* The page stays where its account was left.
LEMMA StepPlaced ==
    ASSUME ChatInv, ~late, ChatEvent
    PROVE  Placed'
<1>1. ChatTypeOK /\ Placed /\ None \notin Conv /\ None \notin Owner /\ CachesBelong
  BY ChatTypes DEF ChatInv
<1>2. CASE Stays
  BY <1>1, <1>2 DEF Stays, Placed
<1>3. ASSUME NEW a \in Owner \cup {None}, OpensAccount(a)
      PROVE  Placed'
  BY <1>1, <1>3 DEF OpensAccount, Placed
<1>4. ASSUME NEW c \in Conv, Picks(c)
      PROVE  Placed'
  <2>1. AccountOf[c] = active
    <3>1. AccountOf[c] \in {active, None} /\ AccountOf[c] \in Owner
      BY <1>1, <1>4, ChatTypes DEF Picks, CachesBelong
    <3>2. QED BY <1>1, <3>1
  <2>2. QED BY <1>1, <1>4, <2>1 DEF Picks, Placed
<1>5. QED BY StaysEffect, <1>2, <1>3, <1>4

\* The picture and the status that is asked go with the conversation.
LEMMA StepWaiting ==
    ASSUME ChatInv, ~late, ChatEvent
    PROVE  Waiting'
<1>1. /\ dialog # None => dialog.do \in {"block", "unblock"}
      /\ pasted \in {cid, None}
      /\ \A c \in Conv : Request("status", c) \in inFlight => c = cid
  BY DEF ChatInv, Waiting
<1>2. dialog' # None => dialog'.do \in {"block", "unblock"}
  <2>1. Ask => dialog'.do \in {"block", "unblock"}
    BY DEF Ask, Request
  <2>2. Ask \/ dialog' \in {dialog, None}
    BY DEF ChatEvent, SelectAccount, Connected, Disconnect, Disconnected, Dropped, ListLoaded,
       ReloadList,
           SelectConversation, MessagesLoaded, Push, Repeated, StatusAnswered, Paste, Send, Confirm, Sent, Blacklisted
  <2>3. QED BY <1>1, <2>1, <2>2
<1>3. CASE Stays
  BY <1>1, <1>2, <1>3 DEF Stays, FewerStatus, Waiting
<1>4. ASSUME NEW a \in Owner \cup {None}, OpensAccount(a)
      PROVE  Waiting'
  BY <1>2, <1>4 DEF OpensAccount, Waiting
<1>5. ASSUME NEW c \in Conv, Picks(c)
      PROVE  Waiting'
  BY <1>1, <1>2, <1>5 DEF Picks, Waiting
<1>6. QED BY StaysEffect, <1>3, <1>4, <1>5

\* The blacklist mark goes with the conversation.
LEMMA StepBlocked ==
    ASSUME ChatInv, ~late, ChatEvent
    PROVE  BlockedIsOfShown'
<1> SUFFICES ASSUME ~late'
             PROVE  blocked' \in {cid', None}
  BY DEF BlockedIsOfShown
<1>1. blocked \in {cid, None}
  BY DEF ChatInv, BlockedIsOfShown
<1>2. QED BY <1>1, StaysEffect DEF Stays, OpensAccount, Picks

\* No count runs ahead of the events, whether or not an answer comes late.
LEMMA StepCounted ==
    ASSUME ChatInv, ~late, ChatEvent
    PROVE  Counted'
<1>1. /\ ChatTypeOK /\ None \notin Conv /\ None \notin Owner /\ NoMsgs.n = 0 /\ NoMsgs \in Messages
      /\ events \in Nat /\ msgs \in Messages
      /\ convs \in Owner \cup {None}
  BY ChatTypes DEF ChatInv, Messages
<1>2. /\ \A c \in Conv : got[c] \in Nat
      /\ \A m \in Messages : m.n \in Nat
  BY <1>1, ChatTypes
<1>3. /\ msgs.n <= events
      /\ \A a \in Owner, c \in Conv : msgCache[<<a, c>>].n <= events
      /\ \A c \in Conv : got[c] <= events
  BY DEF ChatInv, Counted
<1>4. events' \in {events, events + 1}
  BY DEF ChatEvent, SelectAccount, Connected, Disconnect, Disconnected, Dropped, ListLoaded,
     ReloadList,
         SelectConversation, MessagesLoaded, Push, Repeated, StatusAnswered, Paste, Send, Ask, Confirm, Sent,
         Blacklisted, Event
<1>5. ASSUME msgs'.n <= events', \A c \in Conv : got'[c] <= events',
             \A a \in Owner, c \in Conv : msgCache'[<<a, c>>] = msgs' \/ msgCache'[<<a, c>>].n <= events'
      PROVE  Counted'
  BY <1>5 DEF Counted
<1>6. \A k \in Nat : k <= events => k <= events'
  BY <1>1, <1>4
<1>7. \A a \in Owner, c \in Conv : msgCache[<<a, c>>].n <= events'
  <2>1. \A a \in Owner, c \in Conv : msgCache[<<a, c>>] \in Messages
    BY <1>1, ChatTypes
  <2>2. QED BY <1>2, <1>3, <1>6, <2>1
<1>8. \A c \in Conv : got[c] <= events'
  BY <1>2, <1>3, <1>6
<1>9. ASSUME NEW list \in Owner \cup {None}, NEW m \in Messages, Shown(list, m), m.n <= events',
             \A c \in Conv : got'[c] <= events'
      PROVE  Counted'
  <2>1. Shows(list, m)
    BY <1>1, <1>9, ShowsEffect
  <2>2. QED BY <1>5, <1>7, <1>9, <2>1 DEF Shows
<1>10. msgs.n <= events'
  BY <1>1, <1>2, <1>3, <1>6
<1>11. CASE Quiet
  BY <1>5, <1>7, <1>8, <1>10, <1>11 DEF Quiet, View
<1>12. ASSUME NEW a \in Owner \cup {None}, OpensAccount(a)
       PROVE  Counted'
  <2>1. msgs' = NoMsgs \/ (msgs' = msgCache[<<a, cid'>>] /\ a \in Owner /\ cid' \in Conv)
    <3>1. \A b \in Owner : last[b] \in Conv \cup {None}
      BY <1>1, ChatTypes
    <3>2. cid' # None => a \in Owner /\ cid' \in Conv
      BY <1>12, <3>1 DEF OpensAccount
    <3>3. msgs' = (IF cid' = None THEN NoMsgs ELSE msgCache[<<a, cid'>>])
      BY <1>12 DEF OpensAccount
    <3>4. CASE cid' = None
      BY <3>3, <3>4
    <3>5. CASE cid' # None
      BY <3>2, <3>3, <3>5
    <3>6. QED BY <3>4, <3>5
  <2>2. 0 <= events'
    BY <1>1, <1>4
  <2>3. msgs'.n <= events'
    BY <1>1, <1>7, <2>1, <2>2
  <2>4. QED BY <1>5, <1>7, <1>8, <1>12, <2>3 DEF OpensAccount
<1>13. ASSUME NEW c \in Conv, Picks(c)
       PROVE  Counted'
  BY <1>5, <1>7, <1>8, <1>13 DEF Picks
<1>14. ASSUME NEW a \in Owner, ListLoaded(a)
       PROVE  Counted'
  <2>1. CASE UNCHANGED <<active, cid, convs, msgs, convCache, msgCache, last, late>>
    BY <1>5, <1>7, <1>8, <1>10, <1>14, <2>1 DEF ListLoaded
  <2>2. CASE \E list \in {a, None} : Shown(list, msgs)
    BY <1>1, <1>8, <1>9, <1>10, <1>14, <2>2 DEF ListLoaded
  <2>3. QED BY <1>14, <2>1, <2>2 DEF ListLoaded
<1>15. ASSUME NEW c \in Conv, MessagesLoaded(c)
       PROVE  Counted'
  <2>1. CASE UNCHANGED <<active, cid, convs, msgs, convCache, msgCache, last, late>>
    BY <1>5, <1>7, <1>8, <1>10, <1>15, <2>1 DEF MessagesLoaded
  <2>2. CASE \E m \in {NoMsgs} \cup [of : {c}, n : 0 .. got[c], own : BOOLEAN] : Shown(convs, m)
    <3>1. PICK m \in {NoMsgs} \cup [of : {c}, n : 0 .. got[c], own : BOOLEAN] : Shown(convs, m)
      BY <2>2
    <3>2. got[c] \in 0 .. MaxEvents /\ MaxEvents \in Nat
      BY <1>1, ChatTypes DEF ChatTypeOK
    <3>3. m \in Messages /\ m.n <= got[c] /\ m.n \in Nat
      BY <3>1, <3>2, LoadedFields
    <3>4. got[c] <= events' /\ events' \in Nat
      BY <1>1, <1>4, <1>8
    <3>5. m.n <= events'
      BY <1>2, <3>3, <3>4
    <3>6. UNCHANGED got
      BY <1>15 DEF MessagesLoaded
    <3>7. QED BY <1>1, <1>8, <1>9, <3>1, <3>3, <3>5, <3>6
  <2>3. QED BY <1>15, <2>1, <2>2 DEF MessagesLoaded
<1>16. ASSUME NEW c \in Conv, Push(c)
       PROVE  Counted'
  <2>1. Pushed(c) /\ events' = events + 1
    BY <1>16, PushedEffect DEF Push, Event
  <2>2. \A d \in Conv : got'[d] <= events'
    BY <1>1, <1>2, <1>3, <1>8, <2>1 DEF Pushed
  <2>3. CASE AccountOf[c] = active
    <3>1. PICK m \in Messages : Shows(active, m) /\ (m = msgs \/ m.n = msgs.n + 1)
      BY <1>1, <2>1, <2>3 DEF Pushed
    <3>2. m.n <= events'
      BY <1>1, <1>2, <1>3, <1>10, <2>1, <3>1
    <3>3. QED BY <1>5, <1>7, <2>2, <3>1, <3>2 DEF Shows
  <2>4. CASE AccountOf[c] # active
    <3>1. \A a \in Owner, d \in Conv : \/ msgCache'[<<a, d>>] = msgCache[<<a, d>>]
                                       \/ msgCache'[<<a, d>>].n = Held(c).n + 1
      BY <2>1, <2>4 DEF Pushed
    <3>2. Held(c).n + 1 <= events'
      <4>1. Held(c).n <= events /\ Held(c).n \in Nat
        BY <1>1, <1>3, ChatTypes DEF Held
      <4>2. QED BY <1>1, <2>1, <4>1
    <3>3. UNCHANGED msgs
      BY <2>1, <2>4 DEF Pushed
    <3>4. QED BY <1>5, <1>7, <1>10, <2>2, <3>1, <3>2, <3>3
  <2>5. QED BY <2>3, <2>4
<1>17. ASSUME NEW r \in inFlight, Sent(r)
       PROVE  Counted'
  <2>1. Shown(convs, Added(msgs, r.for)) /\ UNCHANGED got
    BY <1>17 DEF Sent
  <2>2. r.for \in Conv
    BY <1>1, <1>17, ViewTypes, RequestTypes DEF Sent, Sending, Doing
  <2>3. Added(msgs, r.for) \in Messages /\ Added(msgs, r.for).n = msgs.n
    BY <1>1, <2>2, ChatTypes, AddedFields
  <2>4. QED BY <1>1, <1>8, <1>9, <1>10, <2>1, <2>3
<1>18. ASSUME NEW a \in Owner, SelectAccount(a) \/ Connected(a) \/ Disconnected(a)
       PROVE  Counted'
  BY <1>1, <1>11, <1>12, <1>18, AccountEffect
<1>19. ASSUME NEW c \in Conv, SelectConversation(c)
       PROVE  Counted'
  BY <1>1, <1>13, <1>19, PicksEffect
<1>20. ASSUME NEW c \in Conv, Repeated(c)
       PROVE  Counted'
  <2>1. Skipped(c) /\ events' = events + 1
    BY <1>20, SkippedEffect DEF Repeated, Event
  <2>2. \A d \in Conv : got'[d] <= events'
    BY <1>1, <1>2, <1>3, <1>8, <2>1 DEF Skipped
  <2>3. CASE Shows(active, msgs)
    BY <1>5, <1>7, <1>10, <2>2, <2>3 DEF Shows
  <2>4. CASE UNCHANGED View
    BY <1>5, <1>7, <1>10, <2>2, <2>4 DEF View
  <2>5. QED BY <2>1, <2>3, <2>4 DEF Skipped
<1>21. QED BY QuietEffects, <1>11, <1>14, <1>15, <1>16, <1>17, <1>18, <1>19, <1>20 DEF ChatEvent

\* What is shown, cached and on its way keeps its type.
LEMMA StepViews ==
    ASSUME ChatInv, ~late, ChatEvent
    PROVE  Views' /\ inFlight' \subseteq Requests
<1>1. /\ ChatTypeOK /\ Views /\ inFlight \subseteq Requests /\ MaxEvents \in Nat
      /\ convs \in Owner \cup {None} /\ msgs \in Messages /\ NoMsgs \in Messages
  BY ViewTypes, ChatTypes DEF ChatInv, Messages
<1>2. ASSUME NEW a \in Owner, SelectAccount(a) \/ Connected(a) \/ Disconnected(a)
      PROVE  Views' /\ inFlight' \subseteq Requests
  BY <1>1, <1>2, AccountEffect
<1>3. ASSUME NEW a \in Owner, ListLoaded(a)
      PROVE  Views' /\ inFlight' \subseteq Requests
  <2>1. CASE \E list \in {a, None} : Shown(list, msgs)
    BY <1>1, <1>3, <2>1, ShowsEffect DEF ListLoaded
  <2>2. CASE UNCHANGED <<active, cid, convs, msgs, convCache, msgCache, last, late>>
    BY <1>1, <1>3, <2>2 DEF ListLoaded, Views
  <2>3. QED BY <1>3, <2>1, <2>2 DEF ListLoaded
<1>4. ASSUME NEW c \in Conv, SelectConversation(c)
      PROVE  Views' /\ inFlight' \subseteq Requests
  BY <1>1, <1>4, PicksEffect
<1>5. ASSUME NEW c \in Conv, MessagesLoaded(c)
      PROVE  Views' /\ inFlight' \subseteq Requests
  <2>1. CASE UNCHANGED <<active, cid, convs, msgs, convCache, msgCache, last, late>>
    BY <1>1, <1>5, <2>1 DEF MessagesLoaded, Views
  <2>2. CASE \E m \in {NoMsgs} \cup [of : {c}, n : 0 .. got[c], own : BOOLEAN] : Shown(convs, m)
    <3>1. PICK m \in {NoMsgs} \cup [of : {c}, n : 0 .. got[c], own : BOOLEAN] : Shown(convs, m)
      BY <2>2
    <3>2. got[c] \in 0 .. MaxEvents
      BY <1>1 DEF ChatTypeOK
    <3>3. m \in Messages
      BY <1>1, <3>1, <3>2, LoadedFields
    <3>4. QED BY <1>1, <1>5, <3>1, <3>3, ShowsEffect DEF MessagesLoaded
  <2>3. QED BY <1>5, <2>1, <2>2 DEF MessagesLoaded
<1>6. ASSUME NEW c \in Conv, Push(c)
      PROVE  Views' /\ inFlight' \subseteq Requests
  <2> DEFINE a == AccountOf[c]
  <2>1. /\ a \in Owner /\ UNCHANGED inFlight /\ events \in Nat /\ events < MaxEvents
        /\ None \notin Conv /\ Held(c) \in Messages
    BY <1>1, <1>6, ChatTypes DEF Push, Event, Held
  <2>2. msgs.n + 1 <= MaxEvents /\ Held(c).n + 1 <= MaxEvents
    <3>1. msgs.n <= events /\ Held(c).n <= events /\ msgs.n \in Nat /\ Held(c).n \in Nat
      BY <1>1, <2>1, ChatTypes DEF ChatInv, Counted, Held
    <3>2. QED BY <1>1, <2>1, <3>1
  <2>3. \A mine \in BOOLEAN : Append1(msgs, c, mine) \in Messages /\ Append1(Held(c), c, mine) \in Messages
    BY <1>1, <2>1, <2>2, AppendFields
  <2>4. CASE a = active
    <3>1. PICK mine \in BOOLEAN : Shown(a, IF c = cid THEN Append1(msgs, c, mine) ELSE msgs)
      BY <1>6, <2>4 DEF Push
    <3>2. QED BY <1>1, <2>1, <2>3, <3>1, ShowsEffect
  <2>5. CASE a # active
    <3>1. PICK mine \in BOOLEAN : PushBehind(a, c, mine) /\ UNCHANGED <<active, cid, convs, msgs, last>>
      BY <1>6, <2>5 DEF Push
    <3>2. msgCache' \in [Pairs -> Messages] /\ UNCHANGED convCache
      BY <1>1, <2>1, <2>3, <3>1 DEF PushBehind, Held, Views, Pairs
    <3>3. QED BY <1>1, <2>1, <3>1, <3>2 DEF Views
  <2>6. QED BY <2>4, <2>5
<1>7. ASSUME NEW r \in inFlight, Sent(r)
      PROVE  Views' /\ inFlight' \subseteq Requests
  <2>1. r.for \in Conv
    BY <1>1, <1>7, RequestTypes DEF Sent, Sending, Doing
  <2>2. Added(msgs, r.for) \in Messages
    BY <1>1, <2>1, ChatTypes, AddedFields
  <2>3. QED BY <1>1, <1>7, <2>2, ShowsEffect DEF Sent
<1>8. ASSUME NEW c \in Conv, Repeated(c)
      PROVE  Views' /\ inFlight' \subseteq Requests
  <2>1. AccountOf[c] \in Owner /\ UNCHANGED inFlight
    BY <1>1, <1>8, ChatTypes DEF Repeated
  <2>2. CASE AccountOf[c] = active
    BY <1>1, <1>8, <2>1, <2>2, ShowsEffect DEF Repeated
  <2>3. CASE AccountOf[c] # active
    BY <1>1, <1>8, <2>1, <2>3 DEF Repeated, Views
  <2>4. QED BY <2>2, <2>3
<1>9. QED BY QuietEffects, <1>2, <1>3, <1>4, <1>5, <1>6, <1>7, <1>8 DEF ChatEvent

Marks ==
    /\ connected \subseteq Owner
    /\ pasted \in Conv \cup {None} /\ blocked \in Conv \cup {None}
    /\ dialog \in ConvRequest \cup {None}
    /\ missed \subseteq Conv /\ late \in BOOLEAN

\* Every event keeps the blacklist mark with the conversation it is about.
LEMMA StepMarks ==
    ASSUME ChatInv, ~late, ChatEvent
    PROVE  Marks'
<1>1. /\ ChatTypeOK /\ Marks /\ inFlight \subseteq Requests
      /\ cid \in Conv \cup {None} /\ active \in Owner \cup {None}
  BY ViewTypes DEF ChatInv, ChatTypeOK, Marks
<1>2. ASSUME NEW a \in Owner, SelectAccount(a) \/ Connected(a) \/ Disconnected(a)
      PROVE  Marks'
  <2>1. pasted' \in {pasted, None} /\ blocked' \in {blocked, None}
    BY <1>1, <1>2, AccountEffect DEF OpensAccount
  <2>2. connected' \subseteq Owner /\ UNCHANGED <<dialog, missed, late>>
    BY <1>1, <1>2 DEF SelectAccount, Connected, Disconnected, Marks
  <2>3. QED BY <1>1, <2>1, <2>2 DEF Marks
<1>3. ASSUME NEW a \in Owner, ListLoaded(a) \/ Disconnect(a) \/ Dropped(a)
      PROVE  Marks'
  BY <1>1, <1>3 DEF ListLoaded, Disconnect, Dropped, Marks
<1>4. ASSUME NEW c \in Conv, SelectConversation(c)
      PROVE  Marks'
  <2>1. pasted' \in {pasted, None} /\ blocked' \in {blocked, None}
    BY <1>1, <1>4, PicksEffect DEF Picks
  <2>2. QED BY <1>1, <1>4, <2>1 DEF SelectConversation, Marks
<1>5. ASSUME NEW c \in Conv, MessagesLoaded(c) \/ Push(c) \/ Repeated(c) \/ StatusAnswered(c)
      PROVE  Marks'
  BY <1>1, <1>5 DEF MessagesLoaded, Push, Repeated, StatusAnswered, Marks
<1>6. ASSUME NEW r \in inFlight, Sent(r) \/ Blacklisted(r)
      PROVE  Marks'
  <2>1. r.for \in Conv
    BY <1>1, <1>6, RequestTypes DEF Sent, Sending, Blacklisted, Blacklisting, Doing
  <2>2. QED BY <1>1, <1>6, <2>1 DEF Sent, Blacklisted, Marks
<1>7. CASE ReloadList \/ Paste \/ Send \/ Confirm
  BY <1>1, <1>7 DEF ReloadList, Paste, Send, Confirm, Marks
<1>8. CASE Ask
  <2>1. cid \in Conv
    BY <1>1, <1>8 DEF Ask
  <2>2. dialog' \in ConvRequest
    BY <1>8, <2>1, RequestTypes DEF Ask
  <2>3. QED BY <1>1, <1>8, <2>2 DEF Ask, Marks
<1>9. QED BY <1>2, <1>3, <1>4, <1>5, <1>6, <1>7, <1>8 DEF ChatEvent

\* Every event keeps the types.
LEMMA StepChatTypes ==
    ASSUME ChatInv, ~late, ChatEvent
    PROVE  ChatTypeOK'
<1>1. Views' /\ inFlight' \subseteq Requests /\ Marks' /\ Counted'
  BY StepViews, StepMarks, StepCounted
<1>2. /\ got \in [Conv -> 0 .. MaxEvents] /\ events \in 0 .. MaxEvents /\ MaxEvents \in Nat
      /\ \A c \in Conv : got[c] <= events
  BY ChatTypes DEF ChatInv, ChatTypeOK, Counted
<1>3. \/ UNCHANGED <<got, events>>
      \/ UNCHANGED got /\ Event
      \/ Event /\ \E c \in Conv : got' = [got EXCEPT ![c] = @ + 1]
  BY DEF ChatEvent, SelectAccount, Connected, Disconnect, Disconnected, Dropped, ListLoaded,
     ReloadList,
         SelectConversation, MessagesLoaded, Push, Repeated, StatusAnswered, Paste, Send, Ask, Confirm, Sent,
         Blacklisted
<1>4. events' \in 0 .. MaxEvents
  BY <1>2, <1>3 DEF Event
<1>5. got' \in [Conv -> 0 .. MaxEvents]
  <2>1. CASE UNCHANGED got
    BY <1>2, <2>1
  <2>2. ASSUME Event, NEW c \in Conv, got' = [got EXCEPT ![c] = @ + 1]
        PROVE  got' \in [Conv -> 0 .. MaxEvents]
    <3>1. got[c] + 1 \in 0 .. MaxEvents
      BY <1>2, <2>2 DEF Event
    <3>2. QED BY <1>2, <2>2, <3>1
  <2>3. QED BY <1>3, <2>1, <2>2
<1>6. QED BY <1>1, <1>4, <1>5 DEF ChatTypeOK, Views, Requests, Marks, Pairs

\* The invariant holds when the page is mounted.
LEMMA InitChat == ChatInit => ChatInv
<1> SUFFICES ASSUME ChatInit PROVE ChatInv
  OBVIOUS
<1>1. MaxEvents \in Nat /\ NoMsgs \in Messages
  BY ChatAssumption DEF Messages
<1>2. ChatTypeOK
  <2>1. /\ msgCache \in [Owner \X Conv -> Messages] /\ msgs \in Messages
        /\ convCache \in [Owner -> Owner \cup {None}] /\ last \in [Owner -> Conv \cup {None}]
    BY <1>1 DEF ChatInit
  <2>2. got \in [Conv -> 0 .. MaxEvents] /\ events \in 0 .. MaxEvents
    BY <1>1 DEF ChatInit
  <2>3. QED BY <2>1, <2>2 DEF ChatInit, ChatTypeOK
<1>3. Counted
  <2>1. \A a \in Owner, c \in Conv : msgCache[<<a, c>>] = NoMsgs
    BY DEF ChatInit
  <2>2. QED BY <1>1, <2>1 DEF ChatInit, Counted, NoMsgs
<1>4. Waiting /\ Placed /\ BlockedIsOfShown
  BY DEF ChatInit, Waiting, Placed, BlockedIsOfShown
<1>5. CachesBelong
  BY DEF ChatInit, CachesBelong, NoMsgs
<1>6. Synced
  BY DEF ChatInit, Synced
<1>7. Counts
  <2>1. \A c \in Conv : AccountOf[c] \in Owner
    BY DEF Owner
  <2>2. \A c \in Conv : Held(c) = NoMsgs /\ got[c] = 0
    BY <2>1 DEF ChatInit, Held
  <2>3. QED BY <2>2 DEF Counts, Complete
<1>8. QED BY <1>2, <1>3, <1>4, <1>5, <1>6, <1>7 DEF ChatInv

\* Every step keeps the invariant.
LEMMA NextChat == ChatInv /\ [ChatNext]_chatVars => ChatInv'
<1> SUFFICES ASSUME ChatInv, [ChatNext]_chatVars PROVE ChatInv'
  OBVIOUS
<1>1. CASE ChatNext
  <2>1. ~late /\ ChatEvent
    BY <1>1 DEF ChatNext
  <2>2. QED BY <2>1, StepChatTypes, StepCounted, StepWaiting, StepPlaced, StepBelongs, StepBlocked,
               StepSynced, StepCounts DEF ChatInv
<1>2. CASE UNCHANGED chatVars
  BY <1>2 DEF chatVars, ChatInv, ChatTypeOK, Counted, Waiting, Placed, CachesBelong,
     BlockedIsOfShown,
              Synced, Counts, Complete, Held
<1>3. QED BY <1>1, <1>2

\* The inductive invariant of the chat page: beside the types, the messages on the screen
\* are those of the cache, what is cached and not missed is complete, and every account
\* keeps the place of its last conversation.
THEOREM ChatInvariant == ChatSpec => []ChatInv
<1>1. ChatInit => ChatInv
  BY InitChat
<1>2. ChatInv /\ [ChatNext]_chatVars => ChatInv'
  BY NextChat
<1>3. QED BY <1>1, <1>2, PTL DEF ChatSpec

\* The state of the chat page keeps its types; no count of messages passes the events.
THEOREM ChatTypeCorrect == ChatSpec => []ChatTypeOK
<1>1. ChatInv => ChatTypeOK
  BY DEF ChatInv
<1>2. QED BY <1>1, ChatInvariant, PTL

\* Nothing is filed under a wrong account or conversation (the effects of ChatNew.tsx that
\* copy lists and messages to their caches), unless an answer came too late.
THEOREM FiledWhereItBelongs == ChatSpec => []CachesBelong
<1>1. ChatInv => CachesBelong
  BY DEF ChatInv
<1>2. QED BY <1>1, ChatInvariant, PTL

\* The conversation shown holds every message pushed for it (handleWsNewMessage), however
\* many accounts and conversations were shown meanwhile, with the exceptions of Lost.
THEOREM EveryPushIsShown == ChatSpec => []PushesAreShown
<1>1. ChatInv => PushesAreShown
  <2> SUFFICES ASSUME ChatInv, ~late, msgs.of = cid, cid \notin missed, cid # None
               PROVE  msgs.n = got[cid]
    BY DEF PushesAreShown
  <2>1. /\ cid \in Conv /\ msgs # NoMsgs /\ active \in Owner
        /\ \A a \in Owner : last[a] # None => AccountOf[last[a]] = a
        /\ cid = last[active] /\ msgCache[<<active, cid>>] = msgs
    BY ChatTypes DEF ChatInv, Placed, Synced
  <2>2. Held(cid) = msgs
    BY <2>1 DEF Held
  <2>3. QED BY <2>1, <2>2 DEF ChatInv, Counts, Complete
<1>2. QED BY <1>1, ChatInvariant, PTL

\* The blacklist mark is of the conversation shown: the effect that asks for it is cleaned
\* up whenever the conversation changes.
THEOREM MarkIsOfShown == ChatSpec => []BlockedIsOfShown
<1>1. ChatInv => BlockedIsOfShown
  BY DEF ChatInv
<1>2. QED BY <1>1, ChatInvariant, PTL

\* A picture is asked to be sent only to the conversation it was pasted in
\* (clearPendingImage runs whenever another conversation or account is shown).
THEOREM PictureStays == ChatSpec => ImageStays
<1>1. ASSUME ChatInv, [ChatNext]_chatVars
      PROVE  [\A c \in Conv : LET r == Request("image", c) IN
                r \in inFlight' \ inFlight => pasted = c]_chatVars
  <2> SUFFICES ASSUME ChatNext, NEW c \in Conv, Request("image", c) \in inFlight' \ inFlight
               PROVE  pasted = c
    BY <1>1
  <2>1. ~late /\ ChatEvent /\ Request("image", c).do = "image"
    BY RequestFields DEF ChatNext
  <2>2. CASE Send
    <3>1. PICK what \in {"image", "send"} : /\ Request("image", c) = Request(what, cid)
                                            /\ pasted # None => what = "image"
                                            /\ pasted = None => what = "send"
      BY <2>2 DEF Send
    <3>2. c = cid /\ pasted # None
      BY <3>1, RequestFields
    <3>3. QED BY <1>1, <3>2 DEF ChatInv, Waiting
  <2>3. CASE Confirm
    BY <1>1, <2>1, <2>3 DEF Confirm, ChatInv, Waiting
  <2>4. CASE ~Send /\ ~Confirm
    <3>1. \A what \in {"connect", "close", "disconnect", "list", "messages", "status"} : \A for :
             Request(what, for) # Request("image", c)
      BY RequestFields
    <3>2. ASSUME NEW a, NEW open, NEW done, Switched(a, open, done)
          PROVE  Request("image", c) \notin inFlight' \ inFlight
      BY <3>1, <3>2 DEF Switched, CleanedUp
    <3>3. ASSUME NEW a, NEW open, NEW done, Activate(a, open, done)
          PROVE  Request("image", c) \notin inFlight' \ inFlight
      BY <3>2, <3>3 DEF Activate
    <3>4. \A d : ~SelectConversation(d)
      BY <3>1 DEF SelectConversation, Moved, CleanedUp
    <3>5. \A a \in Owner : ~Disconnect(a)
      BY <3>1 DEF Disconnect
    <3>6. \A a \in Owner : ~Connected(a) /\ ~Disconnected(a)
      BY <3>3 DEF Connected, Disconnected
    <3>7. \A a \in Owner : ~SelectAccount(a)
      BY <3>1, <3>3 DEF SelectAccount
    <3>8. ~ReloadList
      BY <3>1 DEF ReloadList
    <3>9. QED BY <2>1, <2>4, <3>4, <3>5, <3>6, <3>7, <3>8
              DEF ChatEvent, Dropped, ListLoaded, MessagesLoaded, Push, Repeated, StatusAnswered, Paste, Ask,
                  Sent, Blacklisted
  <2>5. QED BY <2>2, <2>3, <2>4
<1>2. QED BY <1>1, ChatInvariant, PTL DEF ChatSpec, ImageStays

-----------------------------------------------------------------------------
(* The pages together                                                      *)

\* One page acts at a time, so what holds of a page alone holds of it among the others:
\* a step of Pages is a step of the page that was chosen, and stutters in all the rest.
THEOREM PagesAreParts ==
    PagesSpec => /\ ChatSpec /\ RulesSpec /\ ListSpec
                 /\ ScanInit /\ [][ScanNext]_scanVars
<1>1. PagesInit => ChatInit /\ RulesInit /\ ListInit /\ ScanInit
  BY DEF PagesInit
<1>2. [PagesNext]_pagesVars
        => [ChatNext]_chatVars /\ [RulesNext]_ruleVars /\ [ListNext]_listVars /\ [ScanNext]_scanVars
  BY DEF PagesNext, pagesVars
<1>3. QED BY <1>1, <1>2, PTL DEF PagesSpec, ChatSpec, RulesSpec, ListSpec

\* The state of all the pages keeps its types.
THEOREM PagesTypeCorrect == PagesSpec => []PagesTypeOK
<1> DEFINE Chosen == page \in {"chat", "rules", "items", "scan"}
<1>1. PagesInit => Chosen
  BY DEF PagesInit
<1>2. Chosen /\ [PagesNext]_pagesVars => Chosen'
  BY DEF PagesNext, pagesVars
<1>3. PagesSpec => []Chosen
  BY <1>1, <1>2, PTL DEF PagesSpec
<1>4. ScanInit /\ [][ScanNext]_scanVars => []ScanTypeOK
  BY ScanTyped, ScanInvariant, PTL
<1>5. Chosen /\ ChatTypeOK /\ RulesTypeOK /\ ListTypeOK /\ ScanTypeOK => PagesTypeOK
  BY DEF PagesTypeOK
<1>6. QED BY <1>3, <1>4, <1>5, PagesAreParts, ChatTypeCorrect, RulesTypeCorrect, ListTypeCorrect, PTL

\* Every safety and action property that is checked of the pages holds of them together.
THEOREM PagesAreSafe ==
    PagesSpec => /\ [](CachesBelong /\ PushesAreShown /\ BlockedIsOfShown /\ RulesStay /\ QuotaKept)
                 /\ ImageStays /\ PlatformDeleteOwn
<1>1. ScanInv => QuotaKept
  BY DEF ScanInv, QuotaInv
<1>2. QED
  BY <1>1, PagesAreParts, FiledWhereItBelongs, EveryPushIsShown, MarkIsOfShown, PictureStays,
     SavedRulesStay, PlatformDeletesOwn, ScanInvariant, PTL

=============================================================================
