----------------------------- MODULE MC_Settings -----------------------------
(* Three calls to the audit settings of an item, or to the pools of a        *)
(* workspace; two groups, two retentions, two pools.                         *)
EXTENDS Settings, Integers, TLC

CONSTANTS c1, c2, c3, g1, g2, p1, p2

MCAudits == [state : {"Enabled", "Disabled"}, retention : {30}, groups : {{g1}}]

MCAuditRequests ==
    {[op |-> "audit_get"], [op |-> "audit_disable"]}
    \cup [op : {"audit_enable"}, days : {-1, 7}]
    \cup [op : {"set_retention"}, days : {0, 90}]
    \cup [op : {"set_action_groups"}, groups : {{g2}}, ensureEnabled : BOOLEAN]
    \cup [op : {"add_action_group"}, group : {g1, g2}]
    \cup [op : {"remove_action_group"}, group : {g1}]

Pool(name, share, default) == [name |-> name, share |-> share, default |-> default]

MCPoolConfigs ==
    {[state |-> "Disabled", pools |-> {}],
     [state |-> "Enabled", pools |-> {Pool(p1, 60, TRUE)}],
     [state |-> "Disabled", pools |-> {Pool(p1, 60, TRUE), Pool(p2, 40, FALSE)}]}

MCPoolRequests ==
    {[op |-> "pools_get"], [op |-> "pools_enable"], [op |-> "pools_disable"]}
    \cup [op : {"create_pool"}, pool : {Pool(p1, 50, FALSE), Pool(p2, 40, FALSE)}]
    \cup [op : {"update_pool"}, name : {p1}, share : {50, Keep}, default : {Keep}]
    \cup [op : {"update_pool"}, name : {p2}, share : {Keep}, default : {TRUE}]
    \cup [op : {"update_pool"}, name : {p2}, share : {60}, default : {Keep}]
    \cup [op : {"delete_pool"}, name : {p1, p2}]

Symmetric == Permutations(Callers)
=============================================================================
