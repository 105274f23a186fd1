------------------------------ MODULE MCRefresh ------------------------------
(* Small instances of Refresh: what the server publishes.                  *)
EXTENDS Refresh

CONSTANTS a, b

Active(k) == [key |-> k, status |-> "active", until |-> 0]
Transitioning(k, t) == [key |-> k, status |-> "transitioning", until |-> t]

(* A key rotation: a alone, both active, then a transitioning, its         *)
(* valid_until written with a fraction of a second.  The first publication *)
(* is below the operator's minimum; a mirror that lags pairs the last      *)
(* descriptor with an index that a signed.                                 *)
Rotation ==
  << [version |-> 1, generated |-> 0, keys |-> {Active(a)}, signer |-> a],
     [version |-> 2, generated |-> 2, keys |-> {Active(a)}, signer |-> a],
     [version |-> 3, generated |-> 4, keys |-> {Active(a), Active(b)}, signer |-> a],
     [version |-> 4, generated |-> 4, keys |-> {Transitioning(a, 1), Active(b)}, signer |-> b] >>

(* An index whose generated_at has a fraction of a second.                 *)
Fractional == << [version |-> 1, generated |-> 3, keys |-> {Active(a)}, signer |-> a] >>

(* A repository that was added from the publication p, with every one made *)
(* by now, and an operator who only ever refreshes it.                     *)
Added(p) ==
  /\ row = [version |-> p.version, generated |-> Unix(p.generated), refreshed |-> 0,
            keys |-> Marshal(p.keys)]
  /\ cache = [version |-> p.version, generated |-> p.generated, signer |-> p.signer]
  /\ config = "signed" /\ live = Len(Pubs) /\ clock = 0
  /\ pc = [c \in Client |-> "idle"] /\ cmd = [c \in Client |-> "none"]
  /\ mode = [c \in Client |-> "signed"] /\ now = [c \in Client |-> 0]
  /\ prev = [c \in Client |-> None] /\ desc = [c \in Client |-> None]
  /\ idx = [c \in Client |-> None]
  /\ crashes = 0 /\ faults = 0

RefreshSpec ==
  Added(Pubs[2]) /\ [][\E c \in Client : cmdRefresh(c) \/ Command(c)]_vars
=============================================================================
