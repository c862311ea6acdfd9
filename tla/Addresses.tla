------------------------------ MODULE Addresses ------------------------------
(* Where an environment answers: the ports, hostnames and slots of a team.   *)
(*                                                                           *)
(* A registry file holds what is promised (port_registry, hostname_registry) *)
(* and the containers hold what is in use. Each operation looks at the       *)
(* containers first and decides under the registry's lock later, with what   *)
(* it saw; a stopped container's port shows in the registry only, and an     *)
(* environment's container is away while it is updated. Who routes can be    *)
(* configured otherwise while the server is down.                            *)
(*                                                                           *)
(* Definitions marked "Fault:" are plausible bugs no action uses.            *)
EXTENDS Naturals, FiniteSets

CONSTANTS
    Envs, NoEnv, Callers,
    Customs,         \* hostnames that users ask for, besides the slots' own
    NoHost, Reserved, \* CAPACITY_RESERVATION
    Ports,           \* bound: size of the port range (ports are 1..Ports, 0: none)
    Slots,           \* environment_slots
    AddrFailures,    \* bound: failures of Docker and of files
    AddrOps,         \* bound: operations begun
    Changes          \* bound: changes of the configuration

AddrConstants ==
    /\ IsFiniteSet(Envs) /\ NoEnv \notin Envs /\ NoHost # Reserved
    /\ Customs \cap {NoHost, Reserved} = {} /\ (Customs \cup {NoHost, Reserved}) \cap 1..Slots = {}
    /\ {Ports, Slots} \subseteq Nat \ {0} /\ {AddrFailures, AddrOps, Changes} \subseteq Nat

VARIABLES
    mode,            \* routing by port, by the environment's name, or by hostname slots
    ports, hosts,    \* the registry files
    box,             \* containers
    op, owner,       \* what each caller does; who holds the environment's lock
    bare,            \* history: names whose container may have an address no registry promises
    addrFailures, addrOps, changes

addrVars == <<mode, ports, hosts, box, op, owner, bare, addrFailures, addrOps, changes>>

Labels == (1..Slots) \cup Customs
Boxes == [here : BOOLEAN, up : BOOLEAN, port : 0..Ports, host : Labels \cup {NoHost}, slot : BOOLEAN]
NoBox == [here |-> FALSE, up |-> FALSE, port |-> 0, host |-> NoHost, slot |-> FALSE]
Idle == [kind |-> "none", env |-> NoEnv, to |-> NoEnv, step |-> "none", want |-> NoHost,
         seen |-> {}, used |-> {}, host |-> NoHost, slot |-> FALSE, port |-> 0, fresh |-> FALSE,
         clear |-> FALSE]
Steps == {"none", "see", "reserve", "assign", "prepare", "look", "port", "run", "configure",
          "rollback", "release", "claim", "forget", "take_down", "move", "settle", "clear"}

AddrTypeOK ==
    /\ mode \in {"port", "name", "slots"}
    /\ ports \in [Envs -> 0..Ports] /\ hosts \in [Envs -> Labels \cup {NoHost, Reserved}]
    /\ box \in [Envs -> Boxes]
    /\ op \in [Callers -> [kind : {"none", "create", "delete", "recreate", "update"},
                           env : Envs \cup {NoEnv}, to : Envs \cup {NoEnv}, step : Steps,
                           want : Labels \cup {NoHost}, seen : SUBSET Envs,
                           used : SUBSET (Labels \cup 1..Ports), host : Labels \cup {NoHost},
                           slot : BOOLEAN, port : 0..Ports, fresh : BOOLEAN, clear : BOOLEAN]]
    /\ owner \in [Envs -> SUBSET Callers] /\ bare \subseteq Envs
    /\ addrFailures \in 0..AddrFailures /\ addrOps \in 0..AddrOps /\ changes \in 0..Changes

AddrInit ==
    /\ mode \in {"port", "name", "slots"}
    /\ ports = [n \in Envs |-> 0] /\ hosts = [n \in Envs |-> NoHost] /\ box = [n \in Envs |-> NoBox]
    /\ op = [c \in Callers |-> Idle] /\ owner = [n \in Envs |-> {}] /\ bare = {}
    /\ addrFailures = 0 /\ addrOps = 0 /\ changes = 0

-----------------------------------------------------------------------------
At(c, step) == op[c].step = step
Me(c) == op[c].env
Routed == mode # "port"

Works == UNCHANGED <<mode, addrFailures, addrOps, changes>>
Fails ==
    /\ addrFailures < AddrFailures /\ addrFailures' = addrFailures + 1
    /\ UNCHANGED <<mode, addrOps, changes>>
Begins == addrOps < AddrOps /\ addrOps' = addrOps + 1 /\ UNCHANGED <<mode, addrFailures, changes>>

Done(c) ==
    /\ op' = [op EXCEPT ![c] = Idle]
    /\ owner' = [n \in Envs |-> owner[n] \ {c}]
Go(c, step) == op' = [op EXCEPT ![c].step = step] /\ UNCHANGED owner

Begin(c, kind, n, to, step, want) ==
    /\ At(c, "none") /\ \A m \in {n, to} : owner[m] = {}
    /\ owner' = [m \in Envs |-> IF m \in {n, to} THEN {c} ELSE owner[m]]
    /\ op' = [op EXCEPT ![c] = [Idle EXCEPT !.kind = kind, !.env = n, !.to = to, !.step = step,
                                            !.want = want]]

(* _active_environment_names and _environment_hostname_usage.                *)
Active(n) == {m \in Envs \ {n} : box[m].here}
UsedHosts(n) == {box[m].host : m \in Active(n)} \ {NoHost}

(* _get_used_ports: a stopped container shows no port.                       *)
UsedPorts(n) == {box[m].port : m \in {k \in Active(n) : box[k].up}} \ {0}

-----------------------------------------------------------------------------
(* The registries, each read and written under its lock.                     *)

Registered == {m \in Envs : hosts[m] # NoHost}

(* Fault: only what runs counts; a reservation does not.                     *)
SeenOnly(c) == op[c].seen

Occupied(c) == (Registered \cup op[c].seen) \ {Me(c)}

HostsTaken(c) == {hosts[m] : m \in Envs \ {Me(c)}} \cup op[c].used

(* Fault: a port is free when no container publishes it.                     *)
PortsInUse(c) == op[c].used

PortsTaken(c) == {ports[m] : m \in Envs} \cup op[c].used

(* reserve_environment_slot: an entry that is there already is enough.       *)
Reserve(c) ==
    /\ At(c, "reserve")
    /\ \/ /\ hosts[Me(c)] # NoHost \/ Cardinality(Occupied(c)) < Slots
          /\ hosts' = IF hosts[Me(c)] # NoHost THEN hosts ELSE [hosts EXCEPT ![Me(c)] = Reserved]
          /\ Go(c, IF op[c].want # NoHost \/ mode = "slots" THEN "assign" ELSE "prepare")
       \/ /\ hosts[Me(c)] = NoHost /\ Cardinality(Occupied(c)) >= Slots
          /\ UNCHANGED hosts /\ Done(c)
    /\ UNCHANGED <<ports, box, bare>> /\ Works

(* allocate_hostname: the hostnames it may give, the first of them for slots. *)
Grants(c, want, slots) ==
    IF slots > 0 /\ Cardinality(Occupied(c)) >= slots THEN {}
    ELSE IF want # NoHost THEN {want} \ HostsTaken(c)
    ELSE IF hosts[Me(c)] \notin {NoHost, Reserved} \cup HostsTaken(c) THEN {hosts[Me(c)]}
    ELSE {i \in 1..slots \ HostsTaken(c) : \A j \in 1..(i - 1) : j \in HostsTaken(c)}

Assigned(c, h, step, slot) ==
    /\ hosts' = [hosts EXCEPT ![Me(c)] = h]
    /\ op' = [op EXCEPT ![c].step = step, ![c].host = h, ![c].slot = slot]
    /\ UNCHANGED owner

(* create_environment gives the slot back when there is no hostname for it.  *)
Assign(c) ==
    /\ At(c, "assign")
    /\ LET free == Grants(c, op[c].want, Slots) IN
       \/ \E h \in free :
            Assigned(c, h, "prepare", IF op[c].want = NoHost THEN TRUE ELSE op[c].slot)
       \/ free = {} /\ hosts' = [hosts EXCEPT ![Me(c)] = NoHost] /\ Done(c)
    /\ UNCHANGED <<ports, box, bare>> /\ Works

Look(c) ==
    /\ At(c, "look")
    /\ op' = [op EXCEPT ![c].used = UsedPorts(Me(c)), ![c].step = "port"] /\ UNCHANGED owner
    /\ UNCHANGED <<ports, hosts, box, bare>> /\ Works

(* allocate_port: the environment's own port, else the first free one; an    *)
(* exhausted range ends the operation (an update has removed the container). *)
AllocatePort(c) ==
    /\ At(c, "port")
    /\ LET n == Me(c)
           mine == ports[n] # 0 /\ ports[n] \notin op[c].used
           free == {p \in 1..Ports : p \notin PortsTaken(c)} IN
       \/ /\ \E p \in IF mine THEN {ports[n]} ELSE {q \in free : \A r \in free : q <= r} :
               /\ ports' = [ports EXCEPT ![n] = p]
               /\ op' = [op EXCEPT ![c].step = "run", ![c].port = p, ![c].fresh = TRUE]
          /\ UNCHANGED <<owner, bare>>
       \/ /\ ~mine /\ free = {} /\ UNCHANGED ports
          /\ IF op[c].kind = "update"
             THEN Done(c) /\ bare' = bare \cup {n}
             ELSE Go(c, "release") /\ UNCHANGED bare
    /\ UNCHANGED <<hosts, box>> /\ Works

-----------------------------------------------------------------------------
(* create_environment.                                                       *)

BeginCreate(c, n, want) ==
    /\ ~box[n].here /\ (want # NoHost => Routed)
    /\ Begin(c, "create", n, n, "see", want)
    /\ UNCHANGED <<ports, hosts, box, bare>> /\ Begins

(* The containers are read before the registry's lock is taken. A recreation *)
(* comes by twice: before the deletion, for the hostname to keep, and after. *)
See(c) ==
    /\ At(c, "see")
    /\ LET n == Me(c)  kept == op[c].kind # "create" /\ box[n].here IN
         IF ~kept /\ ~Routed /\ op[c].want # NoHost
         THEN Done(c)
         ELSE /\ op' = [op EXCEPT ![c].seen = Active(n), ![c].used = UsedHosts(n),
                                  ![c].step = IF kept THEN "claim" ELSE "reserve"]
              /\ UNCHANGED owner
    /\ UNCHANGED <<ports, hosts, box, bare>> /\ Works

(* _assert_env_hostname_available, then everything up to the port.           *)
Prepare(c) ==
    /\ At(c, "prepare")
    /\ \/ /\ ~Routed \/ op[c].host \notin UsedHosts(Me(c))
          /\ Go(c, IF Routed THEN "run" ELSE "look") /\ Works
       \/ /\ Routed /\ op[c].host \in UsedHosts(Me(c)) /\ Go(c, "release") /\ Works
       \/ Go(c, "release") /\ Fails
    /\ UNCHANGED <<ports, hosts, box, bare>>

(* Docker refuses a name that is there and a port another container publishes. *)
Runs(c) ==
    ~box[Me(c)].here /\ (op[c].port = 0 \/ op[c].port \notin UsedPorts(Me(c)))
Ran(c) ==
    [box EXCEPT ![Me(c)] = [here |-> TRUE, up |-> TRUE, port |-> op[c].port, host |-> op[c].host,
                            slot |-> op[c].slot]]

RunNew(c) ==
    /\ At(c, "run") /\ op[c].kind # "update"
    /\ \/ Runs(c) /\ box' = Ran(c) /\ Go(c, "configure") /\ Works
       \/ Runs(c) /\ UNCHANGED box /\ Go(c, "rollback") /\ Fails
       \/ ~Runs(c) /\ UNCHANGED box /\ Go(c, "rollback") /\ Works
    /\ UNCHANGED <<ports, hosts, bare>>

Configure(c) ==
    /\ At(c, "configure")
    /\ \/ Done(c) /\ Works
       \/ Go(c, "rollback") /\ Fails
    /\ UNCHANGED <<ports, hosts, box, bare>>

(* _rollback_partial_environment: the port, then what was made.              *)
RollBack(c) ==
    /\ At(c, "rollback")
    /\ ports' = IF Routed THEN ports ELSE [ports EXCEPT ![Me(c)] = 0]
    /\ \/ box' = [box EXCEPT ![Me(c)] = NoBox] /\ UNCHANGED bare /\ Works
       \/ box[Me(c)].here /\ UNCHANGED box /\ bare' = bare \cup {Me(c)} /\ Fails
    /\ Go(c, "release")
    /\ UNCHANGED hosts

(* The slot goes back unless the container is there after all.               *)
ReleaseSlot(c) ==
    /\ At(c, "release")
    /\ hosts' = IF box[Me(c)].here THEN hosts ELSE [hosts EXCEPT ![Me(c)] = NoHost]
    /\ Done(c)
    /\ UNCHANGED <<ports, box, bare>> /\ Works

-----------------------------------------------------------------------------
(* delete_environment and recreate_environment: the addresses go first, and  *)
(* a container that cannot be removed ends the operation without them.       *)

BeginDelete(c, n) ==
    /\ Begin(c, "delete", n, n, "forget", NoHost)
    /\ UNCHANGED <<ports, hosts, box, bare>> /\ Begins

BeginRecreate(c, n) ==
    /\ box[n].here
    /\ Begin(c, "recreate", n, n, "see", NoHost)
    /\ UNCHANGED <<ports, hosts, box, bare>> /\ Begins

Forget(c) ==
    /\ At(c, "forget")
    /\ ports' = IF Routed THEN ports ELSE [ports EXCEPT ![Me(c)] = 0]
    /\ hosts' = [hosts EXCEPT ![Me(c)] = NoHost]
    /\ bare' = IF box[Me(c)].here THEN bare \cup {Me(c)} ELSE bare
    /\ Go(c, "take_down")
    /\ UNCHANGED box /\ Works

TakeDown(c) ==
    /\ At(c, "take_down") /\ op[c].kind # "update"
    /\ \/ /\ box' = [box EXCEPT ![Me(c)] = NoBox] /\ bare' = bare \ {Me(c)} /\ Works
          /\ IF op[c].kind = "recreate" THEN Go(c, "see") ELSE Done(c)
       \/ /\ box[Me(c)].here /\ UNCHANGED bare /\ Done(c) /\ Fails
          /\ \E up \in {FALSE, box[Me(c)].up} : box' = [box EXCEPT ![Me(c)].up = up]
    /\ UNCHANGED <<ports, hosts>>

-----------------------------------------------------------------------------
(* update_environment, with or without a rename and a requested hostname.    *)

BeginUpdate(c, n, to, want) ==
    /\ box[n].here /\ (to # n => ~box[to].here) /\ (want # NoHost => Routed)
    /\ Begin(c, "update", n, to, "see", want)
    /\ UNCHANGED <<ports, hosts, box, bare>> /\ Begins

(* What the operation takes along: the port of the container's bindings and  *)
(* the hostname on its label, which the request or the mode may change.      *)
Claimed(c, h, slot, clear) ==
    /\ op' = [op EXCEPT ![c].host = h, ![c].slot = slot, ![c].clear = clear,
                        ![c].port = IF Routed \/ op[c].kind = "recreate" THEN 0 ELSE box[Me(c)].port,
                        ![c].want = IF op[c].kind = "recreate" THEN h ELSE @,
                        ![c].step = IF op[c].kind = "recreate" THEN "forget" ELSE "take_down"]
    /\ UNCHANGED owner

(* A request is registered without taking a slot; without one the hostname   *)
(* follows the mode (_reconcile_environment_hostname_for_update).            *)
Claim(c) ==
    /\ At(c, "claim")
    /\ LET n == Me(c)  b == box[n]
           asks == op[c].want # NoHost
           needs == ~asks /\ mode = "slots" /\ b.host = NoHost
           free == Grants(c, op[c].want, IF asks THEN 0 ELSE Slots) IN
       \/ /\ asks \/ needs
          /\ \E h \in free : /\ hosts' = [hosts EXCEPT ![n] = h]
                            /\ Claimed(c, h, needs, FALSE)
       \/ (asks \/ needs) /\ free = {} /\ UNCHANGED hosts /\ Done(c)
       \/ /\ ~asks /\ ~needs /\ UNCHANGED hosts
          /\ IF mode # "slots" /\ b.slot
             THEN Claimed(c, NoHost, FALSE, TRUE)
             ELSE Claimed(c, b.host, b.slot,
                          b.host = NoHost /\ hosts[n] \notin {NoHost, Reserved})
    /\ UNCHANGED <<ports, box, bare>> /\ Works

(* Failures to stop or to remove the old container are swallowed.            *)
RemoveOld(c) ==
    /\ At(c, "take_down") /\ op[c].kind = "update"
    /\ \/ box' = [box EXCEPT ![Me(c)] = NoBox] /\ UNCHANGED bare /\ Works
       \/ /\ bare' = bare \cup {Me(c)} /\ Fails
          /\ \E up \in {FALSE, box[Me(c)].up} : box' = [box EXCEPT ![Me(c)].up = up]
    /\ Go(c, IF op[c].to = Me(c) THEN "settle" ELSE "move")
    /\ UNCHANGED <<ports, hosts>>

(* rename_env of either registry: registry[new] = registry.pop(old)          *)
Moved(f, n, m, none) == IF f[n] = none THEN f ELSE [f EXCEPT ![m] = f[n], ![n] = none]

Move(c) ==
    /\ At(c, "move")
    /\ LET n == Me(c)  m == op[c].to IN
       \/ /\ ports' = Moved(ports, n, m, 0) /\ hosts' = Moved(hosts, n, m, NoHost)
          /\ bare' = (IF n \in bare THEN bare \cup {m} ELSE bare)
          /\ op' = [op EXCEPT ![c].env = m, ![c].step = "settle"] /\ UNCHANGED owner /\ Works
       \/ /\ ports' \in {ports, Moved(ports, n, m, 0)} /\ UNCHANGED <<hosts, bare>>
          /\ Done(c) /\ Fails
    /\ UNCHANGED box

(* The hostname is checked once more, a routed environment's port released.  *)
Settle(c) ==
    /\ At(c, "settle")
    /\ LET n == Me(c) IN
       \/ /\ Routed /\ op[c].host \in UsedHosts(n) /\ UNCHANGED ports /\ Done(c)
       \/ /\ Routed /\ op[c].host \notin UsedHosts(n)
          /\ ports' = [ports EXCEPT ![n] = 0] /\ Go(c, "run")
       \/ /\ ~Routed /\ UNCHANGED ports /\ Go(c, IF op[c].port = 0 THEN "look" ELSE "run")
    /\ UNCHANGED <<hosts, box, bare>> /\ Works

(* A new port goes back when the container cannot run.                       *)
RunAgain(c) ==
    /\ At(c, "run") /\ op[c].kind = "update"
    /\ \/ /\ Runs(c) /\ box' = Ran(c) /\ UNCHANGED ports /\ Works
          /\ IF op[c].clear THEN Go(c, "clear") ELSE Done(c)
       \/ /\ UNCHANGED box /\ Done(c)
          /\ ports' = IF op[c].fresh THEN [ports EXCEPT ![Me(c)] = 0] ELSE ports
          /\ IF Runs(c) THEN Fails ELSE Works
    /\ UNCHANGED <<hosts, bare>>

(* clear_hostname_assignment: the hostname goes, the slot stays.             *)
ClearHostname(c) ==
    /\ At(c, "clear")
    /\ \/ hosts' = [hosts EXCEPT ![Me(c)] = Reserved] /\ Works
       \/ UNCHANGED hosts /\ Fails
    /\ Done(c)
    /\ UNCHANGED <<ports, box, bare>>

-----------------------------------------------------------------------------
(* Stopping and starting; a changed configuration takes a restart.           *)

Stop(n) ==
    /\ owner[n] = {} /\ box[n].up /\ box' = [box EXCEPT ![n].up = FALSE]
    /\ UNCHANGED <<ports, hosts, op, owner, bare>> /\ Works

Start(n) ==
    /\ owner[n] = {} /\ box[n].here /\ ~box[n].up
    /\ box[n].port \notin UsedPorts(n) /\ box' = [box EXCEPT ![n].up = TRUE]
    /\ UNCHANGED <<ports, hosts, op, owner, bare>> /\ Works

Reconfigure ==
    /\ changes < Changes /\ changes' = changes + 1
    /\ \A c \in Callers : At(c, "none")
    /\ \E m \in {"port", "name", "slots"} \ {mode} : mode' = m
    /\ UNCHANGED <<ports, hosts, box, op, owner, bare, addrFailures, addrOps>>

AddrNext ==
    \/ \E c \in Callers :
         \/ \E n \in Envs :
              \/ BeginDelete(c, n) \/ BeginRecreate(c, n)
              \/ \E want \in Labels \cup {NoHost} :
                   BeginCreate(c, n, want) \/ \E to \in Envs : BeginUpdate(c, n, to, want)
         \/ See(c) \/ Reserve(c) \/ Assign(c) \/ Prepare(c) \/ Look(c) \/ AllocatePort(c)
         \/ RunNew(c) \/ Configure(c) \/ RollBack(c) \/ ReleaseSlot(c)
         \/ Forget(c) \/ TakeDown(c)
         \/ Claim(c) \/ RemoveOld(c) \/ Move(c) \/ Settle(c) \/ RunAgain(c) \/ ClearHostname(c)
    \/ \E n \in Envs : Stop(n) \/ Start(n)
    \/ Reconfigure

AddrSpec == AddrInit /\ [][AddrNext]_addrVars

-----------------------------------------------------------------------------
(* Two environments never have the same port or the same hostname, running   *)
(* or not: whoever is started next must not find its address taken.          *)
AddressesDistinct ==
    \A n, m \in Envs \ bare :
      n # m /\ box[n].here /\ box[m].here =>
        /\ box[n].port # 0 => box[n].port # box[m].port
        /\ box[n].host # NoHost => box[n].host # box[m].host

(* A team has no more environments than slots, those being created or        *)
(* updated included.                                                         *)
CapHolds == Cardinality({n \in Envs \ bare : box[n].here \/ hosts[n] # NoHost}) <= Slots
=============================================================================
