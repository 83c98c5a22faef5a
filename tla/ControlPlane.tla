----------------------------- MODULE ControlPlane -----------------------------
(***************************************************************************)
(* The control plane's process (src/cloud/cloud_control.py): the panel and *)
(* the test meets it runs share the settings, the posts in progress and    *)
(* the restarts.                                                           *)
(***************************************************************************)
EXTENDS TestMeets

vars == <<panelVars, testVars>>

Init == PanelInit /\ TestInit

PanelStep == PanelNext /\ UNCHANGED testVars

Next == PanelStep \/ TestNext

Spec == Init /\ [][Next]_vars

\* Every variable has its type.
TypeOK ==
    /\ owner.name \in Names /\ owner.pw \in Passwords
    /\ \A n \in Names : users[n].pw \in Passwords \cup {0} /\ users[n].roles \subseteq Tabs
    /\ \A k \in Keys : orgs[k].there \in BOOLEAN /\ orgs[k].active \in BOOLEAN /\ orgs[k].legacy \in Nat
    /\ settings.title \in Titles \cup {NoRow} /\ settings.counting \in {Off, On, NoRow}
    /\ settings.rollout \in {NoRow, Running, Stopped, Done}
    /\ settings.wanted \in Meets \cup {0, NoRow} /\ settings.options \in Options \cup {NoRow}
    /\ \A p \in Posts : post[p].kind \in Savers \cup TestPosts \cup {"none", "user_add"}
    /\ task \in [Meets -> [pc : Connected \cup {"none", "waits", "registers"}, opts : Options,
                           at : Heats \cup {0}, results : SUBSET Heats]]
    /\ flight \subseteq Meets /\ card \in [Meets -> {"none", "live", "kept"}]
    /\ page \in [Meets -> [console : SUBSET Heats, official : SUBSET Heats]]
    /\ stopped \in BOOLEAN /\ runner \in [made : BOOLEAN, opts : Options]
================================================================================
