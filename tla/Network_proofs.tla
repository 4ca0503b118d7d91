--------------------------- MODULE Network_proofs ---------------------------
(***************************************************************************)
(* A theorem about Network, for any peers, addresses and failures: a key   *)
(* that others were given stays the key of its machine.                    *)
(***************************************************************************)
EXTENDS Network, TLAPS

ConfigOf(address, key, peers) == [address |-> address, key |-> key, peers |-> peers]

\* What is known of the key of a machine: a private state has one, only
\* automation keeps one in the key file, and no other was ever given out.
KeyKnown(n) ==
    /\ \/ state[n] = Missing
       \/ /\ state[n] = ConfigOf(state[n].address, state[n].key, state[n].peers)
          /\ state[n].key \in Nat \ {0}
    /\ keyFile[n] \in Nat /\ (n \notin Automated => keyFile[n] = 0)
    /\ told[n] \subseteq {KeyOf(n)} /\ 0 \notin told[n]

NetInv ==
    /\ keys \in Nat
    /\ state = [n \in Node |-> state[n]] /\ keyFile = [n \in Node |-> keyFile[n]]
    /\ told = [n \in Node |-> told[n]]
    /\ \A n \in Node : KeyKnown(n)

LEMMA ConfigIsThere ==
    ASSUME NEW address, NEW key, NEW peers
    PROVE  /\ ConfigOf(address, key, peers) # Missing
           /\ ConfigOf(address, key, peers).key = key
           /\ ConfigOf(address, key, peers).address = address
           /\ ConfigOf(address, key, peers).peers = peers
BY DEF ConfigOf, Missing

\* A command that changes what machine n keeps, and nothing of the others.
LEMMA OneMachine ==
    ASSUME NetInv, NEW n \in Node, NEW s, NEW k, NEW t, keys' \in Nat,
           state' = [state EXCEPT ![n] = s], keyFile' = [keyFile EXCEPT ![n] = k],
           told' = [told EXCEPT ![n] = t],
           s = Missing \/ (s = ConfigOf(s.address, s.key, s.peers) /\ s.key \in Nat \ {0}),
           k \in Nat, n \notin Automated => k = 0,
           t \subseteq {IF s # Missing THEN s.key ELSE k}, 0 \notin t
    PROVE  NetInv'
<1>1. state'[n] = s /\ keyFile'[n] = k /\ told'[n] = t
    BY DEF NetInv
<1>2. \A m \in Node : m # n => /\ state'[m] = state[m] /\ keyFile'[m] = keyFile[m]
                               /\ told'[m] = told[m]
    BY DEF NetInv
<1>3. /\ state' = [m \in Node |-> state'[m]] /\ keyFile' = [m \in Node |-> keyFile'[m]]
      /\ told' = [m \in Node |-> told'[m]]
    BY DEF NetInv
<1>4. KeyKnown(n)'
    BY <1>1 DEF KeyKnown, KeyOf
<1>5. \A m \in Node : m # n => KeyKnown(m)'
    BY <1>2 DEF NetInv, KeyKnown, KeyOf
<1>6. QED
    BY <1>3, <1>4, <1>5 DEF NetInv

LEMMA NothingGiven == NetInv => \A n \in Node : KeyOf(n) = 0 => state[n] = Missing /\ told[n] = {}
BY DEF NetInv, KeyKnown, KeyOf

LEMMA Unchanged ==
    ASSUME NetInv, NEW n \in Node
    PROVE  /\ state = [state EXCEPT ![n] = state[n]] /\ keyFile = [keyFile EXCEPT ![n] = keyFile[n]]
           /\ told = [told EXCEPT ![n] = told[n]]
<1>1. state = [m \in Node |-> state[m]]
    BY DEF NetInv
<1>2. keyFile = [m \in Node |-> keyFile[m]]
    BY DEF NetInv
<1>3. told = [m \in Node |-> told[m]]
    BY DEF NetInv
<1>4. state = [state EXCEPT ![n] = state[n]]
    BY <1>1
<1>5. keyFile = [keyFile EXCEPT ![n] = keyFile[n]]
    BY <1>2
<1>6. told = [told EXCEPT ![n] = told[n]]
    BY <1>3
<1>7. QED
    BY <1>4, <1>5, <1>6

LEMMA NetInit == Init => NetInv
<1> SUFFICES ASSUME Init PROVE NetInv
    OBVIOUS
<1>1. keys = 0 /\ keyFile = [n \in Node |-> 0] /\ state = [n \in Node |-> Missing]
      /\ told = [n \in Node |-> {}]
    BY DEF Init
<1>2. \A n \in Node : keyFile[n] = 0 /\ state[n] = Missing /\ told[n] = {}
    BY <1>1
<1>3. \A n \in Node : KeyKnown(n)
    BY <1>2 DEF KeyKnown, KeyOf
<1>4. QED
    BY <1>1, <1>3 DEF NetInv

\* hub-init and peer-init: where there is no state there is no key at all.
LEMMA HandMade ==
    ASSUME NetInv, NEW n \in Node, Manual(n), state[n] = Missing, Generated,
           NEW address, NEW peers, NEW t, t = {keys + 1} \/ t = told[n],
           state' = [state EXCEPT ![n] = ConfigOf(address, keys + 1, peers)],
           told' = [told EXCEPT ![n] = t], UNCHANGED keyFile
    PROVE  NetInv'
<1>1. keyFile[n] = 0 /\ told[n] = {}
    BY DEF NetInv, KeyKnown, KeyOf, Manual
<1>2. keys \in Nat /\ keys' = keys + 1
    BY DEF NetInv, Generated
<1>3. keyFile' = [keyFile EXCEPT ![n] = 0]
    BY <1>1, Unchanged
<1> DEFINE s == ConfigOf(address, keys + 1, peers)
<1>4. s # Missing /\ s.key = keys + 1 /\ s.address = address /\ s.peers = peers
    BY ConfigIsThere
<1>5. s = ConfigOf(s.address, s.key, s.peers)
    BY <1>4
<1>6. state' = [state EXCEPT ![n] = s]
    OBVIOUS
<1> HIDE DEF s
<1>7. t \subseteq {IF s # Missing THEN s.key ELSE 0} /\ 0 \notin t
    BY <1>1, <1>2, <1>4
<1>8. s.key \in Nat \ {0} /\ keys' \in Nat
    BY <1>2, <1>4
<1>9. QED
    BY <1>3, <1>5, <1>6, <1>7, <1>8, OneMachine

LEMMA HubMade == ASSUME NetInv, NEW a \in Address, InitHub(a) PROVE NetInv'
<1>1. Hub \in Node
    BY DEF Node
<1>2. /\ Manual(Hub) /\ state[Hub] = Missing /\ Generated /\ UNCHANGED keyFile
      /\ state' = [state EXCEPT ![Hub] = [address |-> a, key |-> keys + 1, peers |-> {}]]
      /\ told' = [told EXCEPT ![Hub] = {keys + 1}]
    BY DEF InitHub
<1>3. state' = [state EXCEPT ![Hub] = ConfigOf(a, keys + 1, {})]
    BY <1>2 DEF ConfigOf
<1>4. QED
    BY <1>1, <1>2, <1>3, HandMade

LEMMA PeerMade == ASSUME NetInv, NEW n \in Peer, NEW a \in Address, InitPeer(n, a) PROVE NetInv'
<1>1. n \in Node
    BY DEF Node
<1>2. PICK peers : state' = [state EXCEPT ![n] = [address |-> a, key |-> keys + 1, peers |-> peers]]
    BY DEF InitPeer
<1>3. Manual(n) /\ state[n] = Missing /\ Generated /\ UNCHANGED keyFile
    BY DEF InitPeer
<1>4. told' = [told EXCEPT ![n] = {keys + 1}] \/ told' = told
    BY DEF InitPeer
<1>5. told' = [told EXCEPT ![n] = {keys + 1}] \/ told' = [told EXCEPT ![n] = told[n]]
    BY <1>1, <1>4, Unchanged
<1>6. state' = [state EXCEPT ![n] = ConfigOf(a, keys + 1, peers)]
    BY <1>2 DEF ConfigOf
<1>7. QED
    BY <1>1, <1>3, <1>5, <1>6, HandMade

LEMMA RequestAuthorized == ASSUME NetInv, NEW r \in requests, Authorize(r) PROVE NetInv'
<1> DEFINE was == state[Hub]
           peers == Admitted(was.peers, r)
<1>1. Hub \in Node
    BY DEF Node
<1>2. /\ was # Missing /\ UNCHANGED <<keys, keyFile, told>>
      /\ state' = [state EXCEPT ![Hub].peers = peers]
    BY DEF Authorize
<1>3. was = ConfigOf(was.address, was.key, was.peers) /\ was.key \in Nat \ {0}
    BY <1>1, <1>2 DEF NetInv, KeyKnown
<1>4. state' = [state EXCEPT ![Hub] = [was EXCEPT !.peers = peers]]
    BY <1>2
<1>5. [was EXCEPT !.peers = peers] = ConfigOf(was.address, was.key, peers)
    <2> HIDE DEF was, peers
    <2>1. PICK a, k, p : a = was.address /\ k = was.key /\ p = was.peers
        OBVIOUS
    <2>2. was = [address |-> a, key |-> k, peers |-> p]
        BY <1>3, <2>1 DEF ConfigOf
    <2>3. [was EXCEPT !.peers = peers] = [address |-> a, key |-> k, peers |-> peers]
        BY <2>2
    <2>4. QED
        BY <2>1, <2>3 DEF ConfigOf
<1> DEFINE s == ConfigOf(was.address, was.key, peers)
<1>6. s # Missing /\ s.key = was.key /\ s = ConfigOf(s.address, s.key, s.peers)
    BY ConfigIsThere
<1>7. state' = [state EXCEPT ![Hub] = s]
    BY <1>4, <1>5
<1>8. keys' \in Nat /\ keyFile[Hub] \in Nat /\ (Hub \notin Automated => keyFile[Hub] = 0)
    BY <1>1, <1>2 DEF NetInv, KeyKnown
<1>9. told[Hub] \subseteq {was.key} /\ 0 \notin told[Hub]
    BY <1>1, <1>2 DEF NetInv, KeyKnown, KeyOf
<1>10. keyFile' = [keyFile EXCEPT ![Hub] = keyFile[Hub]] /\ told' = [told EXCEPT ![Hub] = told[Hub]]
    BY <1>1, <1>2, Unchanged
<1> HIDE DEF s, was
<1>11. QED
    BY <1>1, <1>3, <1>6, <1>7, <1>8, <1>9, <1>10, OneMachine

LEMMA KeyShown == ASSUME NetInv, NEW n \in Node, KeyInit(n) PROVE NetInv'
<1>1. /\ n \in Automated /\ state' = [state EXCEPT ![n] = state[n]]
      /\ keyFile[n] \in Nat /\ keys \in Nat
      /\ \/ state[n] = Missing
         \/ /\ state[n] = ConfigOf(state[n].address, state[n].key, state[n].peers)
            /\ state[n].key \in Nat \ {0}
      /\ told[n] \subseteq {KeyOf(n)} /\ 0 \notin told[n]
    BY Unchanged DEF KeyInit, NetInv, KeyKnown
<1>2. CASE KeyOf(n) # 0
    <2>1. /\ keyFile' = [keyFile EXCEPT ![n] = keyFile[n]] /\ keys' = keys
          /\ told' = [told EXCEPT ![n] = told[n] \cup {KeyOf(n)}]
        BY <1>2, Unchanged DEF KeyInit
    <2>2. /\ told[n] \cup {KeyOf(n)} \subseteq {IF state[n] # Missing THEN state[n].key ELSE keyFile[n]}
          /\ 0 \notin told[n] \cup {KeyOf(n)}
        BY <1>1, <1>2 DEF KeyOf
    <2>3. QED
        BY <1>1, <2>1, <2>2, OneMachine
<1>3. CASE KeyOf(n) = 0
    <2>1. /\ keyFile' = [keyFile EXCEPT ![n] = keys + 1] /\ keys' = keys + 1
          /\ told' = [told EXCEPT ![n] = told[n] \cup {keys + 1}]
        BY <1>3 DEF KeyInit, Generated
    <2>2. state[n] = Missing /\ told[n] = {}
        BY <1>3, NothingGiven
    <2>3. /\ told[n] \cup {keys + 1} \subseteq {IF state[n] # Missing THEN state[n].key ELSE keys + 1}
          /\ 0 \notin told[n] \cup {keys + 1} /\ keys + 1 \in Nat
        BY <1>1, <2>2
    <2>4. QED
        BY <1>1, <2>1, <2>3, OneMachine
<1>4. QED
    BY <1>2, <1>3

LEMMA Reconciled == ASSUME NetInv, NEW n \in Node, Reconcile(n) PROVE NetInv'
<1>1. PICK peers : state' = [state EXCEPT ![n] =
                         [address |-> Home[n], key |-> ReconciledKey(n), peers |-> peers]]
    BY DEF Reconcile
<1>2. n \in Automated /\ KeyOf(n) # 0 /\ UNCHANGED <<keyFile, told>> /\ keys' \in Nat
    BY DEF Reconcile, Generated, NetInv
<1> DEFINE s == ConfigOf(Home[n], KeyOf(n), peers)
<1>3. state' = [state EXCEPT ![n] = s]
    BY <1>1 DEF ConfigOf, ReconciledKey
<1>4. s # Missing /\ s.key = KeyOf(n) /\ s = ConfigOf(s.address, s.key, s.peers)
    BY ConfigIsThere
<1>5. keyFile[n] \in Nat /\ KeyOf(n) \in Nat \ {0} /\ told[n] \subseteq {KeyOf(n)} /\ 0 \notin told[n]
    BY <1>2 DEF NetInv, KeyKnown, KeyOf
<1>6. keyFile' = [keyFile EXCEPT ![n] = keyFile[n]] /\ told' = [told EXCEPT ![n] = told[n]]
    BY <1>2, Unchanged
<1> HIDE DEF s
<1>7. s.key \in Nat \ {0} /\ told[n] \subseteq {IF s # Missing THEN s.key ELSE keyFile[n]}
    BY <1>4, <1>5
<1>8. QED
    BY <1>2, <1>3, <1>4, <1>5, <1>6, <1>7, OneMachine

LEMMA Rebuilt == ASSUME NetInv, NEW n \in Node, Rebuild(n) PROVE NetInv'
<1>1. /\ state' = [state EXCEPT ![n] = Missing] /\ keyFile' = [keyFile EXCEPT ![n] = 0]
      /\ told' = [told EXCEPT ![n] = {}] /\ keys' = keys /\ keys \in Nat
    BY DEF Rebuild, NetInv
<1>2. QED
    BY <1>1, OneMachine

LEMMA NetStep == NetInv /\ [Next]_vars => NetInv'
<1> SUFFICES ASSUME NetInv, [Next]_vars PROVE NetInv'
    OBVIOUS
<1>1. ASSUME UNCHANGED <<keys, keyFile, state, told>> PROVE NetInv'
    BY <1>1 DEF NetInv, KeyKnown, KeyOf
<1>2. ASSUME NEW n \in Node,
             WriteConfig(n) \/ Enable(n) \/ BringUp(n) \/ InstallFails(n) \/ Boot(n)
      PROVE  NetInv'
    BY <1>1, <1>2 DEF WriteConfig, Enable, BringUp, InstallFails, Boot
<1>3. CASE UNCHANGED vars
    BY <1>1, <1>3 DEF vars
<1>4. QED
    BY <1>2, <1>3, HubMade, PeerMade, RequestAuthorized, KeyShown, Reconciled, Rebuilt DEF Next

LEMMA KeysThen == NetInv => KeysStay
BY DEF NetInv, KeyKnown, KeysStay

\* A key that a machine has shown to another stands until that machine is built
\* again: no command, nor one repeated after it failed, replaces it in the
\* configuration or the key file (initHub, initPeer, keyInit, reconcile).
THEOREM KeysStand == Spec => []KeysStay
BY NetInit, NetStep, KeysThen, PTL DEF Spec
=============================================================================
