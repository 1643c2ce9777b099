------------------------------ MODULE KeywordRules ------------------------------
(* The keyword rules of one account, edited from several tabs (Keywords.tsx,       *)
(* api/keywords.ts) over the routes of keywords.py.  A rule is added by reading the *)
(* list and saving it whole; images are added and stored apart; a rule is changed   *)
(* and deleted by its keyword, and the newest of those that fit is taken.            *)
EXTENDS Naturals, FiniteSets

CONSTANTS
    Tab,        \* tabs of the browser
    Keyword,
    Item,       \* items a rule can be for
    General,    \* ... or none of them
    MaxRules    \* bound: changes the users begin

ASSUME RuleAssumption == General \notin Item /\ MaxRules \in Nat

VARIABLES
    rules,       \* the stored rules: rows with an id
    nextId,      \* the id of the next row
    listed,      \* the rows each tab shows
    change,      \* what each tab is about to change
    requested,   \* bound: changes begun
    known,       \* ghost: rules that were saved, and that nobody changed or deleted since
    overwritten  \* ghost: a list was saved that lacked another tab's changes

ruleVars == <<rules, nextId, listed, change, requested, known, overwritten>>

Rule == [keyword : Keyword, item : Item \cup {General}, image : BOOLEAN]
Row(r, id) == [id |-> id, rule |-> r]
Text(rows) == {r \in rows : ~r.rule.image}
Nothing == [do |-> "nothing"]

RulesTypeOK ==
    /\ rules \subseteq [id : Nat, rule : Rule] /\ \A r \in rules : r.id < nextId
    /\ \A r, s \in rules : r.id = s.id => r = s
    /\ \A t \in Tab : \A r \in listed[t] : r.rule \in Rule /\ r.id < nextId
    /\ \A t \in Tab : change[t].do \in {"nothing", "read", "save", "update", "delete", "import"}
    /\ known \subseteq Rule
    /\ requested \in 0 .. MaxRules
    /\ overwritten \in BOOLEAN

--------------------------------------------------------------------------------

\* loadKeywords: at the start, after a change, every 30 seconds.
Refresh(t) ==
    /\ listed' = [listed EXCEPT ![t] = rules]
    /\ UNCHANGED <<rules, nextId, change, requested, known, overwritten>>

\* A form of the tab is sent, or a dialog confirmed; one at a time.
Begin(t, what) ==
    /\ change[t] = Nothing /\ requested < MaxRules
    /\ requested' = requested + 1
    /\ change' = [change EXCEPT ![t] = what]
    /\ UNCHANGED <<rules, nextId, listed, known, overwritten>>

\* A rule, of text or with a picture, is added; a file of one rule is imported; a listed
\* rule is deleted; a listed rule of text is edited.
Asks(t) ==
    \/ \E r \in Rule : Begin(t, [do |-> "read", rule |-> r])
    \/ \E r \in Rule : ~r.image /\ Begin(t, [do |-> "import", rule |-> r])
    \/ \E row \in listed[t] : Begin(t, [do |-> "delete", row |-> row])
    \/ \E row \in Text(listed[t]), r \in Rule :
        ~r.image /\ Begin(t, [do |-> "update", row |-> row, rule |-> r])

Ends(t) == change' = [change EXCEPT ![t] = Nothing] /\ UNCHANGED <<listed, requested>>

\* A request is refused or lost.
Fails(t) ==
    /\ change[t] # Nothing
    /\ Ends(t)
    /\ UNCHANGED <<rules, nextId, known, overwritten>>

SameKey(r, s) == r.keyword = s.keyword /\ r.item = s.item

\* Adding a rule of text reads the list first; one with the same key is a conflict.
ReadList(t) ==
    /\ change[t].do = "read" /\ ~change[t].rule.image
    /\ \A row \in rules : ~SameKey(row.rule, change[t].rule)
    /\ change' = [change EXCEPT ![t] = [do |-> "save", rule |-> @.rule, base |-> Text(rules)]]
    /\ UNCHANGED <<rules, nextId, listed, requested, known, overwritten>>

\* The rows of a list that is saved, the newest of those read first, then the new rule.
NewRows(base, new) ==
    {Row(row.rule, nextId + Cardinality({s \in base : s.id > row.id})) : row \in base}
      \cup {Row(new, nextId + Cardinality(base))}

\* Mutant: the list replaces every rule of the account.
SavedAll(base, new) == NewRows(base, new)

\* save_keywords: the rules of text are replaced by those that were read and the new one.
Saved(base, new) == (rules \ Text(rules)) \cup NewRows(base, new)

SaveList(t) ==
    LET base == change[t].base
        new == change[t].rule IN
    /\ change[t].do = "save"
    /\ rules' = Saved(base, new)
    /\ nextId' = nextId + Cardinality(base) + 1
    /\ known' = known \cup {new}
    /\ overwritten' = (overwritten \/ base # Text(rules))
    /\ Ends(t)

Insert(r) == rules' = rules \cup {Row(r, nextId)} /\ nextId' = nextId + 1

\* add_image_keyword, whatever rules there are.
AddImage(t) ==
    /\ change[t].do = "read" /\ change[t].rule.image
    /\ Insert(change[t].rule)
    /\ known' = known \cup {change[t].rule}
    /\ Ends(t)
    /\ UNCHANGED overwritten

\* The rows a request can mean: of the keyword, and of the item if one is named.
Fits(r) ==
    {s \in rules : s.rule.keyword = r.keyword /\ (r.item = General \/ s.rule.item = r.item)}

Newest(rows) == CHOOSE r \in rows : \A s \in rows : s.id <= r.id
Oldest(rows) == CHOOSE r \in rows : \A s \in rows : s.id >= r.id

Forget(row) == known \ {row.rule}
Rewrite(row, r) == rules' = (rules \ {row}) \cup {Row(r, row.id)} /\ UNCHANGED nextId

\* delete_keyword: the newest row that has the id or fits.
Delete(t) ==
    LET row == change[t].row
        hits == {s \in rules : s.id = row.id} \cup Fits(row.rule) IN
    /\ change[t].do = "delete"
    /\ hits # {}
    /\ rules' = rules \ {Newest(hits)}
    /\ known' = Forget(Newest(hits))
    /\ Ends(t)
    /\ UNCHANGED <<nextId, overwritten>>

\* update_keyword, within the account: no rule of the new key is looked for, and a picture
\* stays one.
Update(t) ==
    LET hits == Fits(change[t].row.rule)
        row == Newest(hits)
        new == [change[t].rule EXCEPT !.image = row.rule.image] IN
    /\ change[t].do = "update"
    /\ hits # {}
    /\ Rewrite(row, new)
    /\ known' = Forget(row) \cup {new}
    /\ Ends(t)
    /\ UNCHANGED overwritten

\* import_keywords: the oldest row of the keyword becomes the file's rule, of text.
Import(t) ==
    LET new == change[t].rule
        same == {row \in rules : row.rule.keyword = new.keyword} IN
    /\ change[t].do = "import"
    /\ \/ same = {} /\ Insert(new) /\ known' = known \cup {new}
       \/ /\ same # {}
          /\ Rewrite(Oldest(same), new)
          /\ known' = Forget(Oldest(same)) \cup {new}
    /\ Ends(t)
    /\ UNCHANGED overwritten

--------------------------------------------------------------------------------

RulesInit ==
    /\ rules = {} /\ nextId = 1
    /\ listed = [t \in Tab |-> {}]
    /\ change = [t \in Tab |-> Nothing]
    /\ requested = 0
    /\ known = {} /\ overwritten = FALSE

\* Rules lost to an overlapping save are known: the instance ends there.
RulesNext ==
    /\ ~overwritten
    /\ \E t \in Tab :
        \/ Refresh(t) \/ Asks(t) \/ Fails(t)
        \/ ReadList(t) \/ SaveList(t) \/ AddImage(t)
        \/ Delete(t) \/ Update(t) \/ Import(t)

RulesSpec == RulesInit /\ [][RulesNext]_ruleVars

--------------------------------------------------------------------------------
(* What has to hold.                                                               *)

\* A rule that was saved stays until a change, an import or a deletion takes its row,
\* whatever the other tabs do; unless a list was saved that another tab's rules of text
\* were missing from.  Pictures are in no list and survive that as well.
RulesStay ==
    \A r \in known : (\E row \in rules : row.rule = r) \/ (overwritten /\ ~r.image)
================================================================================
