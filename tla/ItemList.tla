-------------------------------- MODULE ItemList --------------------------------
(* The item page (pages/items/Items.tsx): a list of one account's items or of all, *)
(* a selection in it, and the confirmations of what is done with the selection: the *)
(* local records are deleted, or the platform is asked, as the account chosen in    *)
(* the filter, to take the items offline or to delete them.  The answers of the     *)
(* backend are external.                                                            *)
EXTENDS Naturals, FiniteSets

CONSTANTS
    Listing,   \* items
    SellerOf,  \* [Listing -> the account that sells it]
    All,       \* the filter names no account
    MaxLoads   \* bound: lists asked for

ASSUME ListAssumption ==
    /\ All \notin {SellerOf[i] : i \in Listing}
    /\ MaxLoads \in Nat \ {0}   \* one list is asked for at the start

VARIABLES
    account,   \* selectedAccount
    items,     \* the items listed
    selected,  \* selectedIds
    confirm,   \* the confirmation that is open, None for none: what to do, with which items
    calls,     \* what was confirmed and is not answered yet
    loads,     \* lists asked for and not answered yet, by account
    asked      \* how many lists were asked for

listVars == <<account, items, selected, confirm, calls, loads, asked>>

Filter == {SellerOf[i] : i \in Listing} \cup {All}
Of(a) == {i \in Listing : a \in {All, SellerOf[i]}}
NotAsked == [do |-> "nothing", of |-> {}]
Call == [do : {"one", "delete", "offline", "platform"}, by : Filter, of : SUBSET Listing]

ListTypeOK ==
    /\ account \in Filter
    /\ items \subseteq Listing
    /\ selected \subseteq items
    /\ confirm.do \in {"nothing", "one", "delete", "offline", "platform"}
    /\ calls \subseteq Call
    /\ loads \subseteq Filter
    /\ asked \in 0 .. MaxLoads

--------------------------------------------------------------------------------
(* The list.                                                                       *)

AskList(filters) ==
    /\ asked < MaxLoads
    /\ loads' = loads \cup filters
    /\ asked' = asked + 1

\* The filter changes, under no confirmation, and its effect asks for the list.
ChooseAccount(a) ==
    /\ a # account /\ confirm = NotAsked
    /\ account' = a
    /\ AskList({a})
    /\ UNCHANGED <<items, selected, confirm, calls>>

\* Another page or filter, the button, or the refresh that nobody sees.
Reload ==
    /\ AskList({account})
    /\ UNCHANGED <<account, items, selected, confirm, calls>>

\* Mutant: what is selected stays selected when it is not listed any more.
SelectionKept(shown) == selected

SelectionShown(shown) == selected \cap shown

\* loadItems: nobody asks whether the account is still the one chosen.
Loaded(a) ==
    /\ a \in loads
    /\ loads' = loads \ {a}
    /\ \/ \E shown \in SUBSET Of(a) :
            /\ items' = shown
            /\ selected' = SelectionShown(shown)
       \/ UNCHANGED <<items, selected>>
    /\ UNCHANGED <<account, confirm, calls, asked>>

\* toggleSelect
Toggle(i) ==
    /\ confirm = NotAsked
    /\ i \in items
    /\ selected' = IF i \in selected THEN selected \ {i} ELSE selected \cup {i}
    /\ UNCHANGED <<account, items, confirm, calls, loads, asked>>

\* toggleSelectAll
ToggleAll ==
    /\ confirm = NotAsked
    /\ selected' = IF Cardinality(selected) = Cardinality(items) THEN {} ELSE items
    /\ UNCHANGED <<account, items, confirm, calls, loads, asked>>

--------------------------------------------------------------------------------
(* What is done with the selection.                                               *)

Opens(what, chosen) ==
    /\ confirm = NotAsked
    /\ confirm' = [do |-> what, of |-> chosen]
    /\ UNCHANGED <<account, items, selected, calls, loads, asked>>

InFlight(whats) == \E c \in calls : c.do \in whats

\* Mutant: the items on the platform are chosen as those to take offline are.
PlatformUnchecked == selected # {} /\ account # All

\* openBatchXianyuDelete: every selected item is listed, and is the account's.
PlatformChecked ==
    /\ ~InFlight({"platform"})
    /\ selected # {} /\ account # All
    /\ selected \subseteq items
    /\ \A i \in selected : SellerOf[i] = account

\* One item's button; the button of the selection; openBatchOffline, which asks for an
\* account but not for whose items they are.
OpenConfirm ==
    \/ \E i \in items : Opens("one", {i})
    \/ selected # {} /\ Opens("delete", selected)
    \/ selected # {} /\ account # All /\ Opens("offline", selected)
    \/ PlatformChecked /\ Opens("platform", selected)

\* The cross closes a confirmation, also while its call is in flight, but for the platform's.
Cancel ==
    /\ confirm # NotAsked
    /\ ~(confirm.do = "platform" /\ InFlight({"platform"}))
    /\ confirm' = NotAsked
    /\ UNCHANGED <<account, items, selected, calls, loads, asked>>

\* The flags deleting, offlining and deletingFromXianyu.
Busy(what) == InFlight(IF what \in {"one", "delete"} THEN {"one", "delete"} ELSE {what})

\* handleDelete, handleBatchDelete, handleBatchOffline, handleBatchXianyuDelete: what is
\* selected by now is sent; with nothing selected the confirmation closes, or (delete)
\* stays.
Confirmed ==
    LET chosen == IF confirm.do = "one" THEN confirm.of ELSE selected IN
    /\ confirm # NotAsked /\ ~Busy(confirm.do)
    /\ IF chosen = {}
       THEN /\ confirm' = IF confirm.do = "delete" THEN confirm ELSE NotAsked
            /\ UNCHANGED calls
       ELSE /\ calls' = calls \cup {[do |-> confirm.do, by |-> account, of |-> chosen]}
            /\ UNCHANGED confirm
    /\ UNCHANGED <<account, items, selected, loads, asked>>

\* The call's own confirmation closes.
Closed(c) == confirm' = IF confirm.do = c.do THEN NotAsked ELSE confirm

\* It was done: the selection is cleared, and the list is asked again for the account the
\* call was made under (not after a deletion on the platform).
Done(c) ==
    /\ c \in calls
    /\ calls' = calls \ {c}
    /\ Closed(c)
    /\ selected' = IF c.do = "one" THEN selected ELSE {}
    /\ IF c.do = "platform" THEN UNCHANGED <<loads, asked>> ELSE AskList({c.by})
    /\ UNCHANGED <<account, items>>

\* It was not: the selection stays, and the confirmation of one item too.
NotDone(c) ==
    /\ c \in calls
    /\ calls' = calls \ {c}
    /\ IF c.do = "one" THEN UNCHANGED confirm ELSE Closed(c)
    /\ UNCHANGED <<account, items, selected, loads, asked>>

--------------------------------------------------------------------------------

ListInit ==
    /\ account = All
    /\ items = {} /\ selected = {}
    /\ confirm = NotAsked
    /\ calls = {}
    /\ loads = {All} /\ asked = 1

ListNext ==
    \/ \E a \in Filter : ChooseAccount(a) \/ Loaded(a)
    \/ Reload
    \/ \E i \in Listing : Toggle(i)
    \/ ToggleAll \/ OpenConfirm \/ Cancel \/ Confirmed
    \/ \E c \in calls : Done(c) \/ NotDone(c)

ListSpec == ListInit /\ [][ListNext]_listVars

--------------------------------------------------------------------------------
(* What has to hold.                                                               *)

\* The platform is asked to delete, for good, only items that were named when the
\* confirmation was opened and that the account whose cookie is used sells, whatever lists
\* were answered late or refreshed in between.
PlatformDeleteOwn ==
    [][\A c \in calls' \ calls :
        c.do = "platform" =>
            c.of \subseteq confirm.of /\ \A i \in c.of : SellerOf[i] = c.by]_listVars
================================================================================
