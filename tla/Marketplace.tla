------------------------------ MODULE Marketplace ------------------------------
(***************************************************************************)
(* Plugins that users install and uninstall.  Every request is one         *)
(* transaction of several statements, each of which sees what is committed *)
(* when it runs; install_count is changed by an atomic UPDATE.  One        *)
(* administrator reviews plugins.  A member's account may be erased at any *)
(* time.  A plugin that goes with its author's account takes its counter   *)
(* along and is left out.                                                  *)
(***************************************************************************)
EXTENDS Naturals, FiniteSets

CONSTANTS
    Members,         \* users of the marketplace
    Plugins,
    PluginRequests,  \* requests under way at a time
    InstallLimit,    \* MAX_INSTALLED_PLUGINS_PER_USER
    MaxDoubled       \* bound: uninstallations of a row that is gone

ASSUME MarketplaceAssumption ==
    /\ IsFiniteSet(Members) /\ Members # {} /\ IsFiniteSet(Plugins) /\ Plugins # {}
    /\ IsFiniteSet(PluginRequests)
    /\ InstallLimit \in Nat \ {0} /\ MaxDoubled \in Nat

VARIABLES
    accounts,     \* members whose users row exists
    pluginStatus,
    installed,    \* rows of installed_plugins: user and plugin
    installCount,
    pluginRequest,
    outdated,     \* requests whose loaded row of installed_plugins has been deleted
    doubled,      \* history: uninstallations of a row that was gone
    cascaded      \* history: rows of installed_plugins that went with their user

marketplaceTables == <<accounts, pluginStatus, installed, installCount>>
marketplaceHistory == <<doubled, cascaded>>
marketplaceVars == <<marketplaceTables, pluginRequest, outdated, marketplaceHistory>>

NoPluginRequest ==
    [at |-> "idle", user |-> CHOOSE u \in Members : TRUE, plugin |-> CHOOSE p \in Plugins : TRUE]

PluginStatuses == {"pending_review", "approved", "rejected", "suspended"}

MarketplaceTypeOK ==
    /\ pluginStatus \in [Plugins -> PluginStatuses]
    /\ installed \subseteq Members \X Plugins
    /\ installCount \in [Plugins -> Nat]
    /\ pluginRequest \in
         [PluginRequests -> [at : {"idle", "approved", "roomy", "uninstalling"},
                             user : Members, plugin : Plugins]]
    /\ accounts \subseteq Members /\ outdated \subseteq PluginRequests
    /\ doubled \in [Plugins -> Nat] /\ cascaded \in [Plugins -> Nat]

MarketplaceInit ==
    /\ pluginStatus = [p \in Plugins |-> "pending_review"]
    /\ installed = {} /\ installCount = [p \in Plugins |-> 0]
    /\ pluginRequest = [q \in PluginRequests |-> NoPluginRequest]
    /\ accounts = Members /\ outdated = {}
    /\ doubled = [p \in Plugins |-> 0] /\ cascaded = [p \in Plugins |-> 0]

-----------------------------------------------------------------------------
\* review_plugin: valid_transitions.
Reviewed(status) ==
    CASE status = "pending_review" -> {"approved", "rejected"}
      [] status = "approved" -> {"suspended"}
      [] status = "rejected" -> {"pending_review"}
      [] status = "suspended" -> {"approved"}

Review(p) ==
    /\ \E s \in Reviewed(pluginStatus[p]) : pluginStatus' = [pluginStatus EXCEPT ![p] = s]
    /\ UNCHANGED <<accounts, installed, installCount, pluginRequest, outdated, marketplaceHistory>>

Row(q) == <<pluginRequest[q].user, pluginRequest[q].plugin>>
Idle(q) == pluginRequest[q].at = "idle"
Proceeds(q, stage) == pluginRequest' = [pluginRequest EXCEPT ![q].at = stage]
Answers(q) == pluginRequest' = [pluginRequest EXCEPT ![q] = NoPluginRequest]
Begins(q, stage, u, p) ==
    pluginRequest' = [pluginRequest EXCEPT ![q] =
                        [NoPluginRequest EXCEPT !.at = stage, !.user = u, !.plugin = p]]

OnlyRequest == UNCHANGED <<marketplaceTables, outdated, marketplaceHistory>>

-----------------------------------------------------------------------------
(* install_plugin.                                                         *)

ReadPlugin(q, u, p) ==
    /\ Idle(q) /\ u \in accounts /\ pluginStatus[p] = "approved"
    /\ Begins(q, "approved", u, p) /\ OnlyRequest

InstalledBy(u) == {p \in Plugins : <<u, p>> \in installed}

\* Mutant: the limit itself is still let through.
HasRoom_OneMore(u) == Cardinality(InstalledBy(u)) <= InstallLimit

HasRoom(u) == Cardinality(InstalledBy(u)) < InstallLimit

CheckRoom(q) ==
    /\ pluginRequest[q].at = "approved"
    /\ IF Row(q) \notin installed /\ HasRoom(pluginRequest[q].user)
       THEN Proceeds(q, "roomy")
       ELSE Answers(q)
    /\ OnlyRequest

\* The row and the counter; (user_id, plugin_id) is unique and the user must exist.
Install(q) ==
    /\ pluginRequest[q].at = "roomy"
    /\ IF Row(q) \in installed \/ pluginRequest[q].user \notin accounts
       THEN UNCHANGED <<installed, installCount>>
       ELSE /\ installed' = installed \cup {Row(q)}
            /\ installCount' = [installCount EXCEPT ![pluginRequest[q].plugin] = @ + 1]
    /\ Answers(q)
    /\ UNCHANGED <<accounts, pluginStatus, outdated, marketplaceHistory>>

-----------------------------------------------------------------------------
(* uninstall_plugin.                                                       *)

ReadInstallation(q, u, p) ==
    /\ Idle(q) /\ <<u, p>> \in installed
    /\ Begins(q, "uninstalling", u, p) /\ OnlyRequest

\* Mutant: the counter is not decremented.
Decremented_Not(p) == installCount

\* Mutant: the count may fall below zero.
Decremented_Unfloored(p) == [installCount EXCEPT ![p] = @ - 1]

\* Floor at 0.
Decremented(p) == [installCount EXCEPT ![p] = IF @ > 0 THEN @ - 1 ELSE @]

\* The requests that have loaded one of these rows.
Holding(R) == {r \in PluginRequests : pluginRequest[r].at = "uninstalling" /\ Row(r) \in R}

\* The loaded row is deleted by its primary key.  If it is gone, the DELETE matches
\* nothing, which is no error, and a row installed since then stays.
Uninstall(q) ==
    /\ pluginRequest[q].at = "uninstalling"
    /\ installCount' = Decremented(pluginRequest[q].plugin)
    /\ \/ /\ q \notin outdated
          /\ installed' = installed \ {Row(q)}
          /\ outdated' = (outdated \cup Holding({Row(q)})) \ {q}
          /\ UNCHANGED doubled
       \/ /\ q \in outdated
          /\ doubled[pluginRequest[q].plugin] < MaxDoubled
          /\ doubled' = [doubled EXCEPT ![pluginRequest[q].plugin] = @ + 1]
          /\ outdated' = outdated \ {q}
          /\ UNCHANGED installed
    /\ Answers(q)
    /\ UNCHANGED <<accounts, pluginStatus, cascaded>>

-----------------------------------------------------------------------------
\* DELETE FROM users: the installations go with their user, by the foreign key, and
\* no counter is touched.
DeleteAccount(u) ==
    /\ u \in accounts /\ accounts' = accounts \ {u}
    /\ installed' = installed \ ({u} \X Plugins)
    /\ outdated' = outdated \cup Holding({u} \X Plugins)
    /\ cascaded' = [p \in Plugins |-> IF <<u, p>> \in installed THEN cascaded[p] + 1 ELSE cascaded[p]]
    /\ UNCHANGED <<pluginStatus, installCount, pluginRequest, doubled>>

MarketplaceNext ==
    \/ \E p \in Plugins : Review(p)
    \/ \E q \in PluginRequests :
         \/ \E u \in Members, p \in Plugins :
              ReadPlugin(q, u, p) \/ ReadInstallation(q, u, p)
         \/ CheckRoom(q) \/ Install(q) \/ Uninstall(q)
    \/ \E u \in Members : DeleteAccount(u)

MarketplaceSpec == MarketplaceInit /\ [][MarketplaceNext]_marketplaceVars

-----------------------------------------------------------------------------
(* Properties.                                                             *)

\* The plugins a user has are counted and inserted in two statements: overlapping
\* installations exceed the limit by less than their number, and the excess never
\* builds up over time (install_plugin).
InstallsBounded ==
    \A u \in Members :
        Cardinality(InstalledBy(u)) <= InstallLimit + Cardinality(PluginRequests) - 1

InstallersOf(p) == {u \in Members : <<u, p>> \in installed}

\* install_count claims more installations than there are only by those that went
\* with their user's account, and falls short only by the uninstallations that two
\* requests made of one row (uninstall_plugin, _cascade_delete_user).
InstallCountExplained ==
    \A p \in Plugins :
        /\ installCount[p] <= Cardinality(InstallersOf(p)) + cascaded[p]
        /\ Cardinality(InstallersOf(p)) <= installCount[p] + doubled[p]
=============================================================================
