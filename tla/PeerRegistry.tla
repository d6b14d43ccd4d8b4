---------------------------- MODULE PeerRegistry ----------------------------
(***************************************************************************)
(* The registry of connected peers (src/peer.rs): the peers by id, and the *)
(* embedder's aliases both ways.  Every method takes the one mutex, so it  *)
(* is one action.  A handle is its peer's id.                              *)
(***************************************************************************)
EXTENDS Naturals, Sequences, Functions

CONSTANTS
    MaxPeer,   \* bound: ids 0 .. MaxPeer - 1 are minted
    Keys,      \* the embedder's keys
    None

ASSUME PeerAssumption == MaxPeer \in Nat \ {0} /\ None \notin Nat

VARIABLES
    next_id,     \* the counter shared with the servers of this registry
    peers,       \* ids with a handle in the canonical map
    aliases,     \* key -> peer it addresses, or None
    alias_index  \* peer -> its keys in registration order

registryVars == <<next_id, peers, aliases, alias_index>>

PeerIds == 0 .. MaxPeer - 1

RegistryTypeOK ==
    /\ next_id \in 0 .. MaxPeer
    /\ peers \subseteq PeerIds
    /\ aliases \in [Keys -> PeerIds \cup {None}]
    /\ alias_index \in [PeerIds -> Seq(Keys)]

RegistryInit ==
    /\ next_id = 0
    /\ peers = {}
    /\ aliases = [k \in Keys |-> None]
    /\ alias_index = [p \in PeerIds |-> <<>>]

next_peer_id == next_id' = next_id + 1

insert(p) == peers' = peers \cup {p}

get_by(k) == IF aliases[k] \in peers THEN aliases[k] ELSE None

aliases_for(p) == alias_index[p]

key_for(p) == IF aliases_for(p) = <<>> THEN None ELSE Head(aliases_for(p))

(* What Vec::retain leaves of s: every entry but those equal to k, in      *)
(* their order.  h says where each of them was.                            *)
retain(s, k) ==
    {t \in UNION {[1 .. n -> Keys] : n \in 0 .. Len(s)} :
        \E h \in [1 .. Len(t) -> 1 .. Len(s)] :
            /\ \A i, j \in 1 .. Len(t) : i < j => h[i] < h[j]
            /\ \A i \in 1 .. Len(t) : t[i] = s[h[i]]
            /\ \A j \in 1 .. Len(s) : s[j] # k <=> \E i \in 1 .. Len(t) : h[i] = j}

(***************************************************************************)
(* A key already pointing elsewhere is detached there first; a peer that   *)
(* is gone gets no alias.                                                  *)
(***************************************************************************)
detach(k) ==
    {[p \in PeerIds |-> IF p = aliases[k] THEN keys ELSE alias_index[p]] :
        keys \in IF aliases[k] = None THEN {<<>>} ELSE retain(alias_index[aliases[k]], k)}

AliasUnchecked(p, k) ==
    /\ aliases' = [aliases EXCEPT ![k] = p]
    /\ IF aliases[k] = p THEN UNCHANGED alias_index
       ELSE \E index \in detach(k) : alias_index' = [index EXCEPT ![p] = Append(@, k)]
    /\ UNCHANGED <<next_id, peers>>

alias(p, k) ==
    \/ p \in peers /\ AliasUnchecked(p, k)
    \/ p \notin peers /\ UNCHANGED registryVars

remove(p) ==
    /\ peers' = peers \ {p}
    /\ aliases' = [k \in Keys |-> IF aliases[k] = p /\ k \in Range(alias_index[p])
                                  THEN None ELSE aliases[k]]
    /\ alias_index' = [alias_index EXCEPT ![p] = <<>>]

(***************************************************************************)
(* The two tables are inverse of each other, a peer lists a key once, and  *)
(* only peers in the registry are addressed (alias, remove): no key is     *)
(* left pointing at a peer that is gone, and no closing peer can take      *)
(* another's key with it.                                                  *)
(***************************************************************************)
AliasesInverse ==
    /\ \A k \in Keys, p \in PeerIds :
          aliases[k] = p <=> k \in Range(alias_index[p])
    /\ \A p \in PeerIds : IsInjective(alias_index[p])
    /\ \A k \in Keys : aliases[k] # None => get_by(k) = aliases[k]
=============================================================================
