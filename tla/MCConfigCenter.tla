-------------------------- MODULE MCConfigCenter --------------------------
(***************************************************************************)
(* What the dashboard keeps, for TLC: the configuration, the accounts with *)
(* the audit trail, and the configurations that nodes post to each other.  *)
(* The three share no variable, so a behaviour of all is one of each; TLC  *)
(* looks at them one at a time, which makes the states a sum and not a     *)
(* product.                                                                *)
(***************************************************************************)
EXTENDS ConfigCenter, Accounts, ConfigSync, TLC

VARIABLE part

(* What is not looked at starts in one way only. *)
DashboardInit ==
  /\ part \in {"config", "accounts", "sync"}
  /\ Init /\ AccountsInit /\ SyncInit
  /\ part # "config" => writable /\ \A d \in Domains : main[d] \in Settings
  /\ part # "sync" => \A n \in Nodes :
                         config[n] = Installed(n, CHOOSE b \in Bodies : TRUE, FALSE)

Configuring == part = "config" /\ Next /\ UNCHANGED <<accountVars, syncVars>>
Accounting  == part = "accounts" /\ AccountsNext /\ UNCHANGED <<vars, syncVars>>
Syncing     == part = "sync" /\ SyncNext /\ UNCHANGED <<vars, accountVars>>

DashboardNext == UNCHANGED part /\ (Configuring \/ Accounting \/ Syncing)

DashboardSpec == DashboardInit /\ [][DashboardNext]_<<part, vars, accountVars, syncVars>>

(* Every variable of the dashboards keeps its type. *)
DashboardTypeOK == TypeOK /\ AccountsTypeOK /\ SyncTypeOK

Symmetry == Permutations(Admins) \cup Permutations(Domains)
            \cup Permutations(Handlers) \cup Permutations(Savers)
=============================================================================
