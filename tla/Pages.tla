--------------------------------- MODULE Pages ---------------------------------
(* Pages of the web console that share no state: the chat page, the keyword rules in *)
(* several tabs, the item list, and the logins over a shared link with their server. *)
(* There is no fairness here.  As in Workbench, one page, chosen at the start, acts.  *)
EXTENDS ChatPage, KeywordRules, ItemList, SharedScan

VARIABLE page   \* the page that acts

pagesVars == <<page, chatVars, ruleVars, listVars, scanVars>>

PagesTypeOK ==
    /\ page \in {"chat", "rules", "items", "scan"}
    /\ ChatTypeOK /\ RulesTypeOK /\ ListTypeOK /\ ScanTypeOK

PagesInit ==
    /\ page \in {"chat", "rules", "items", "scan"}
    /\ ChatInit /\ RulesInit /\ ListInit /\ ScanInit
    /\ page # "chat" => connected = {}

PagesNext ==
    /\ UNCHANGED page
    /\ \/ page = "chat" /\ ChatNext /\ UNCHANGED <<ruleVars, listVars, scanVars>>
       \/ page = "rules" /\ RulesNext /\ UNCHANGED <<chatVars, listVars, scanVars>>
       \/ page = "items" /\ ListNext /\ UNCHANGED <<chatVars, ruleVars, scanVars>>
       \/ page = "scan" /\ ScanNext /\ UNCHANGED <<chatVars, ruleVars, listVars>>

PagesSpec == PagesInit /\ [][PagesNext]_pagesVars
================================================================================
