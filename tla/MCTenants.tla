------------------------------ MODULE MCTenants -------------------------------
(* What an environment has under its name, in one run: its data and access    *)
(* (Environments), its addresses and its identity in the agent container.     *)
(* The first state chooses which of them moves; the others stay where they    *)
(* begin.                                                                     *)
EXTENDS Environments, TLC

CONSTANTS
    Tenants, Customs, NoHost, Reserved, Ports, Slots, AddrFailures, AddrOps, Changes,
    Hazards, MaxUids, MaxClones, IdFailures, IdOps

VARIABLES
    focus,
    mode, ports, hosts, tenant, call, lease, bare, addrFailures, addrOps, changes,
    uids, pending, next, dir, home, env, births, up, visit, tenure, idFailures, idOps

A == INSTANCE Addresses
               WITH Envs <- Tenants, Callers <- Workers, box <- tenant, op <- call, owner <- lease
I == INSTANCE AgentIdentities
                WITH Callers <- Workers, MaxBorn <- MaxClones, born <- births,
                     op <- visit, owner <- tenure

addrVars == <<mode, ports, hosts, tenant, call, lease, bare, addrFailures, addrOps, changes>>
idVars == <<uids, pending, next, dir, home, env, births, up, visit, tenure, idFailures, idOps>>

ASSUME TenantsConstants == A!AddrConstants /\ I!IdConstants

TenantsInit ==
    /\ focus \in {"environments", "addresses", "identities"}
    /\ EnvInit /\ A!AddrInit /\ I!IdInit
    /\ focus # "addresses" => mode = "port"
    /\ focus # "identities" => up

(* All but one of the components stand still.                                *)
TenantsNext ==
    /\ UNCHANGED focus
    /\ \/ focus = "environments" /\ EnvNext
       \/ focus # "environments" /\ UNCHANGED envVars
    /\ \/ focus = "addresses" /\ A!AddrNext
       \/ focus # "addresses" /\ UNCHANGED addrVars
    /\ \/ focus = "identities" /\ I!IdNext
       \/ focus # "identities" /\ UNCHANGED idVars

TenantsSpec == TenantsInit /\ [][TenantsNext]_<<focus, envVars, addrVars, idVars>>

(* Names are alike, and so are worker threads.                               *)
Alike == Permutations(Envs) \cup Permutations(Workers)

-----------------------------------------------------------------------------
(* Addresses.tla: no two environments have one port or one hostname.         *)
AddressesDistinct == focus = "addresses" => A!AddressesDistinct

(* Addresses.tla: a team has no more environments than slots.                *)
CapHolds == focus = "addresses" => A!CapHolds

(* AgentIdentities.tla: an environment inherits nothing of an earlier one.   *)
NeverInherits == focus = "identities" => I!NeverInherits

(* AgentIdentities.tla: what is left in the container is still to be removed. *)
NothingLeftBehind == focus = "identities" => I!NothingLeftBehind

(* Each component's variables have their types.                              *)
TenantsTypeOK ==
    /\ focus = "environments" => EnvTypeOK
    /\ focus = "addresses" => A!AddrTypeOK
    /\ focus = "identities" => I!IdTypeOK
=============================================================================
