--------------------------- MODULE TokenLifecycle ----------------------------
(***************************************************************************)
(* What the token-side endpoints promise whatever the interleaving: an     *)
(* authorization code is closed before the first token of its grant is     *)
(* born and never opens again, and a token that is dead stays dead.  A     *)
(* token whose string is random is born once, of one grant, and dies; a    *)
(* renewable one, whose string can be made again, may come and go until it *)
(* is dead, each time of a grant whose code is closed.                     *)
(* TokenEndpoint implements this specification.                            *)
(***************************************************************************)
CONSTANTS
  Grants,           \* authorization grants
  Tokens,           \* access and refresh tokens that may be issued
  Renewable,        \* those of them that may be issued again
  NoGrant           \* the parent of a token that is not alive

VARIABLES
  code,             \* of each grant: "none", "open" or "closed"
  life,             \* of each token: "pending", "live" or "dead"
  parent            \* of each live token: its grant

Init ==
  /\ code = [g \in Grants |-> "none"]
  /\ life = [t \in Tokens |-> "pending"]
  /\ parent = [t \in Tokens |-> NoGrant]

\* A code is issued once; it closes when it is redeemed or expires.
CodeMoves(g) ==
  \/ code'[g] = code[g]
  \/ code[g] = "none" /\ code'[g] = "open"
  \/ code[g] = "open" /\ code'[g] = "closed"

TokenStays(t) == life'[t] = life[t] /\ parent'[t] = parent[t]

\* The code must have been closed before this step.
TokenIsBorn(t) ==
  /\ life[t] \in {"pending"} \cup (IF t \in Renewable THEN {"live"} ELSE {})
  /\ life'[t] = "live"
  /\ \E g \in Grants : code[g] = "closed" /\ parent'[t] = g

\* A token is gone, and may be issued once more.
TokenGoes(t) ==
  /\ t \in Renewable
  /\ life[t] = "live" /\ life'[t] = "pending" /\ parent'[t] = NoGrant

\* Revoked, rotated, past its lifetime, or given up because its request ended.
TokenDies(t) == life'[t] = "dead" /\ parent'[t] = NoGrant

\* Each code and each token moves by itself: one step of the clock, or of a
\* cascade, moves several.
Next ==
  /\ code' \in [Grants -> {"none", "open", "closed"}]
  /\ life' \in [Tokens -> {"pending", "live", "dead"}]
  /\ parent' \in [Tokens -> Grants \cup {NoGrant}]
  /\ \A g \in Grants : CodeMoves(g)
  /\ \A t \in Tokens :
       TokenStays(t) \/ TokenIsBorn(t) \/ TokenGoes(t) \/ TokenDies(t)

Spec == Init /\ [][Next]_<<code, life, parent>>
=============================================================================
