------------------------------ MODULE Network ------------------------------
(***************************************************************************)
(* The WireGuard overlay between the machines (internal/wgnet and          *)
(* cmd/parallaxd-network): keys and private state in files, enrolment of   *)
(* peers at the hub, reconciliation with a topology that automation        *)
(* prepared, and the installation of the interface.  The commands are run  *)
(* one at a time on each machine and may fail or be cut off between their  *)
(* steps; files are replaced whole (atomicWrite).                          *)
(***************************************************************************)
EXTENDS Naturals, FiniteSets

CONSTANTS
    Peer,        \* machines other than the hub
    Automated,   \* machines set up by key-init and reconcile, not by hand
    Address,     \* overlay addresses
    Home,        \* Home[n]: the address automation gives to a machine
    MaxKeys,     \* bound: keys generated
    MaxFaults    \* bound: failures of commands, and machines rebuilt

Hub == "hub"
Node == Peer \cup {Hub}
NetworkAssumption ==
    /\ Hub \notin Peer /\ Automated \subseteq Node
    /\ Home \in [Node -> Address] /\ MaxKeys \in Nat /\ MaxFaults \in Nat

Key == 1 .. MaxKeys
Missing == [missing |-> TRUE]

VARIABLES
    keys,        \* keys generated so far
    keyFile,     \* key.json of each machine
    state,       \* state.json of each machine
    told,        \* the public keys that a machine has given out
    requests,    \* the enrolment requests made
    file,        \* the interface's configuration as written under /etc/wireguard
    interface,   \* the configuration with which the interface is up
    enabled,     \* the machines that bring it up when they boot
    install,     \* what an install command is at
    broken       \* failures so far

vars == <<keys, keyFile, state, told, requests, file, interface, enabled, install, broken>>

Request == [name : Peer, address : Address, key : Key]
Config == [address : Address, key : Key, peers : SUBSET [name : Node, address : Address, key : Key]]
Idle == [at |-> "idle"]

TypeOK ==
    /\ keys \in 0 .. MaxKeys /\ broken \in 0 .. MaxFaults
    /\ \A n \in Node :
          /\ keyFile[n] \in Key \cup {0} /\ told[n] \subseteq Key
          /\ \A c \in {state[n], file[n], interface[n]} : c = Missing \/ c \in Config
          /\ install[n].at \in {"idle", "written", "enabled"}
    /\ requests \subseteq Request /\ enabled \subseteq Node

Init ==
    /\ keys = 0 /\ keyFile = [n \in Node |-> 0] /\ state = [n \in Node |-> Missing]
    /\ told = [n \in Node |-> {}] /\ requests = {}
    /\ file = [n \in Node |-> Missing] /\ interface = [n \in Node |-> Missing]
    /\ enabled = {} /\ install = [n \in Node |-> Idle] /\ broken = 0

Fault == broken < MaxFaults /\ broken' = broken + 1
Generated == keys < MaxKeys /\ keys' = keys + 1
Conflicts(p, q) == p.name = q.name \/ p.address = q.address \/ p.key = q.key

\* One command at a time on each machine.
Free(n) == install[n] = Idle
Manual(n) == n \notin Automated /\ Free(n)

\* LoadKeyPair: the key of the state, or else of the key file.
KeyOf(n) == IF state[n] # Missing THEN state[n].key ELSE keyFile[n]
-----------------------------------------------------------------------------
\* hub-init and peer-init: the private state is saved, and then what is to be
\* handed on; they refuse to run where there is a state.
InitHub(address) ==
    /\ Manual(Hub) /\ state[Hub] = Missing /\ Generated
    /\ state' = [state EXCEPT ![Hub] = [address |-> address, key |-> keys + 1, peers |-> {}]]
    /\ told' = [told EXCEPT ![Hub] = {keys + 1}]
    /\ UNCHANGED <<keyFile, requests, file, interface, enabled, install, broken>>

InitPeer(n, address) ==
    /\ Manual(n) /\ state[n] = Missing /\ Generated
    /\ state[Hub] # Missing
    /\ LET hub == [name |-> Hub, address |-> state[Hub].address, key |-> state[Hub].key]
       IN  state' = [state EXCEPT ![n] =
               [address |-> address, key |-> keys + 1, peers |-> {hub}]]
    /\ \/ /\ requests' = requests \cup {[name |-> n, address |-> address, key |-> keys + 1]}
          /\ told' = [told EXCEPT ![n] = {keys + 1}]
          /\ UNCHANGED broken
       \/ Fault /\ UNCHANGED <<requests, told>>
    /\ UNCHANGED <<keyFile, file, interface, enabled, install>>

\* State.Authorize: the peers with the request in it, unchanged where it
\* conflicts with one of them.
Admitted(known, r) ==
    IF \E p \in known : Conflicts(p, r) THEN known ELSE known \cup {r}

Authorize(r) ==
    /\ Manual(Hub) /\ state[Hub] # Missing
    /\ r.address # state[Hub].address
    /\ state' = [state EXCEPT ![Hub].peers = Admitted(@, r)]
    /\ UNCHANGED <<keys, keyFile, told, requests, file, interface, enabled, install, broken>>

\* key-init prints the key there is, or makes one.
KeyInit(n) ==
    /\ n \in Automated /\ Free(n)
    /\ IF KeyOf(n) # 0
       THEN told' = [told EXCEPT ![n] = @ \cup {KeyOf(n)}] /\ UNCHANGED <<keys, keyFile>>
       ELSE /\ Generated
            /\ keyFile' = [keyFile EXCEPT ![n] = keys + 1]
            /\ told' = [told EXCEPT ![n] = @ \cup {keys + 1}]
    /\ UNCHANGED <<state, requests, file, interface, enabled, install, broken>>

\* Mutant: a machine without a state keeps the key that Reconcile generates.
GeneratedKey(n) == IF state[n] # Missing THEN state[n].key ELSE keys + 1

\* Reconcile generates a key for a machine without a state; the command puts
\* the one of the key file in its place.
ReconciledKey(n) == KeyOf(n)

\* reconcile: the topology names machines whose keys automation has been told.
Reconcile(n) ==
    /\ n \in Automated /\ Free(n) /\ KeyOf(n) # 0
    /\ IF state[n] # Missing THEN UNCHANGED keys ELSE Generated
    /\ \E others \in SUBSET (Node \ {n}) : \E keyOf \in [others -> Key] :
          /\ n = Hub \/ others # {}
          /\ \A m \in others : keyOf[m] \in told[m]
          /\ state' = [state EXCEPT ![n] =
                [address |-> Home[n], key |-> ReconciledKey(n),
                 peers |-> {[name |-> m, address |-> Home[m], key |-> keyOf[m]] : m \in others}]]
    /\ UNCHANGED <<keyFile, told, requests, file, interface, enabled, install, broken>>
-----------------------------------------------------------------------------
\* install: the configuration is written if it differs from the one there.
WriteConfig(n) ==
    /\ Free(n) /\ state[n] # Missing
    /\ file' = [file EXCEPT ![n] = state[n]]
    /\ install' = [install EXCEPT ![n] =
           [at |-> "written", changed |-> file[n] # state[n], config |-> state[n]]]
    /\ UNCHANGED <<keys, keyFile, state, told, requests, interface, enabled, broken>>

\* Forwarding is set on the hub, and the unit enabled.
Enable(n) ==
    /\ install[n].at = "written"
    /\ install' = [install EXCEPT ![n].at = "enabled"]
    /\ enabled' = enabled \cup {n}
    /\ UNCHANGED <<keys, keyFile, state, told, requests, file, interface, broken>>

\* The unit is restarted if the configuration changed, and started if it was
\* not active.
Up(n) ==
    IF install[n].changed \/ interface[n] = Missing THEN file[n] ELSE interface[n]

BringUp(n) ==
    /\ install[n].at = "enabled"
    /\ interface' = [interface EXCEPT ![n] = Up(n)]
    /\ install' = [install EXCEPT ![n] = Idle]
    /\ UNCHANGED <<keys, keyFile, state, told, requests, file, enabled, broken>>

\* A step fails or the command is cut off: sysctl, enable, restart.
InstallFails(n) ==
    /\ install[n] # Idle /\ Fault
    /\ install' = [install EXCEPT ![n] = Idle]
    /\ \/ UNCHANGED interface
       \/ install[n].at = "enabled" /\ interface' = [interface EXCEPT ![n] = Missing]
    /\ UNCHANGED <<keys, keyFile, state, told, requests, file, enabled>>

Boot(n) ==
    /\ Free(n)
    /\ interface' = [interface EXCEPT ![n] = IF n \in enabled THEN file[n] ELSE Missing]
    /\ UNCHANGED <<keys, keyFile, state, told, requests, file, enabled, install, broken>>

\* A machine is lost, and set up again from nothing.
Rebuild(n) ==
    /\ Fault
    /\ keyFile' = [keyFile EXCEPT ![n] = 0] /\ state' = [state EXCEPT ![n] = Missing]
    /\ told' = [told EXCEPT ![n] = {}]
    /\ file' = [file EXCEPT ![n] = Missing] /\ interface' = [interface EXCEPT ![n] = Missing]
    /\ enabled' = enabled \ {n} /\ install' = [install EXCEPT ![n] = Idle]
    /\ UNCHANGED <<keys, requests>>

Next ==
    \/ \E a \in Address : InitHub(a) \/ \E n \in Peer : InitPeer(n, a)
    \/ \E r \in requests : Authorize(r)
    \/ \E n \in Node :
          \/ KeyInit(n) \/ Reconcile(n)
          \/ WriteConfig(n) \/ Enable(n) \/ BringUp(n) \/ InstallFails(n)
          \/ Boot(n) \/ Rebuild(n)

Spec == Init /\ [][Next]_vars
-----------------------------------------------------------------------------
\* A public key that was given out stays the key of the machine, whatever is
\* run again or cut off: the others could not reach it with another
\* ("refusing to replace private keys", "preserves local key material").
KeysStay == \A n \in Node : told[n] \subseteq {KeyOf(n)}

\* "Validate, install, enable, and restart the WireGuard interface" (usage):
\* an install that reports success has the interface run the configuration.
InstallApplies ==
    [][\A n \in Node : install[n].at = "enabled" /\ install'[n] = Idle /\ broken' = broken =>
          interface'[n] = install[n].config]_vars
=============================================================================
