---------------------------- MODULE MCResources -----------------------------
(* Instances of Resources: the bridge cache, one list and one of its items. *)
EXTENDS Resources

CONSTANTS bridge, list, item

MCCaches == {bridge, list, item}
MCResources == {"all", "list", "item"}
MCRes == [c \in MCCaches |-> CASE c = bridge -> "all"
                               [] c = list -> "list"
                               [] c = item -> "item"]
MCUnder == [q \in MCResources |-> CASE q = "all" -> MCResources
                                    [] q = "list" -> {"list", "item"}
                                    [] q = "item" -> {"item"}]
MCList == [c \in MCCaches |-> IF c = item THEN list ELSE NoCache]
MCBase == [c \in MCCaches |-> IF c = list THEN bridge ELSE NoCache]
SharedBase == [MCBase EXCEPT ![item] = list]
MCFactory == {}
MCPermanent == {"all", "list"}
MCDurations == {2, MaxTime}

\* Left out: the history variables of APICache that no property looks at here,
\* the durations of objects that do not exist yet, and whether the list has
\* already noticed a refresh of the bridge (it does before it decides).
Visible == <<clock, built, [c \in built |-> refreshDuration[c]], [c \in Caches |-> Synced(c)],
             mem, exists, ret.cache, ret.kind, jobVars>>
=============================================================================
