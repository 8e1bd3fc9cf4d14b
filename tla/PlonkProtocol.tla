---------------------------- MODULE PlonkProtocol ----------------------------
(***************************************************************************)
(* What one call of Prove promises, with no goroutine, channel or          *)
(* polynomial in it: the prover's side of the Fiat-Shamir protocol.        *)
(*                                                                         *)
(* The messages are the fields of the Proof (and one commitment per BSB22  *)
(* hint), the challenges are the four names given to the transcript.  A    *)
(* message may only be produced from challenges that are already fixed; a  *)
(* challenge may only be drawn when every message it binds has been        *)
(* produced, and nothing that was produced changes afterwards.  The call   *)
(* ends with a proof only when all of it is there and none of it is the    *)
(* left-over of a failed computation; at any moment it may end with an     *)
(* error instead.  Messages with the same needs may appear in any order,   *)
(* which is the freedom the pipeline of goroutines uses.                   *)
(***************************************************************************)
CONSTANT Commitments      \* the BSB22 commitments of the circuit

Wires      == {"L", "R", "O"}
Shards     == {"H1", "H2", "H3"}
Messages   == Wires \cup {"Z"} \cup Shards \cup {"ZShifted", "Batched"}
Challenges == {"gamma", "beta", "alpha", "zeta"}

VARIABLES
  sent,       \* sent[m]: "none", "good", or "bad" for what a failed call left
  hinted,     \* the BSB22 commitments computed so far
  derived,    \* the challenges drawn so far
  outcome     \* "pending", then "proof" or "error"

vars == <<sent, hinted, derived, outcome>>

\* deriveRandomness(fs, c, ...): the messages challenge c hashes.
BoundMessages(c) == CASE c = "gamma" -> Wires
                      [] c = "beta"  -> {}
                      [] c = "alpha" -> {"Z"}
                      [] c = "zeta"  -> Shards

BindsCommitments(c) == c = "alpha"

\* fiatshamir.Transcript computes the challenges in the order it was given.
Earlier(c) == CASE c = "gamma" -> {}
                [] c = "beta"  -> {"gamma"}
                [] c = "alpha" -> {"gamma", "beta"}
                [] c = "zeta"  -> {"gamma", "beta", "alpha"}

\* The challenges message m is computed from.
NeededChallenges(m) == CASE m \in Wires  -> {}
                         [] m = "Z"      -> {"gamma", "beta"}
                         [] m \in Shards -> {"gamma", "beta", "alpha"}
                         [] OTHER        -> Challenges

\* The batched opening hashes the claimed value of the opening of Z.
NeededMessages(m) == IF m = "Batched" THEN {"ZShifted"} ELSE {}

Init == /\ sent = [m \in Messages |-> "none"]
        /\ hinted = {}
        /\ derived = {}
        /\ outcome = "pending"

Hint(c) == /\ outcome = "pending"
           /\ \A w \in Wires : sent[w] = "none"
           /\ hinted' = hinted \cup {c}
           /\ UNCHANGED <<sent, derived, outcome>>

Send(m) == /\ outcome = "pending"
           /\ sent[m] = "none"
           /\ m \in Wires => hinted = Commitments
           /\ NeededChallenges(m) \subseteq derived
           /\ \A k \in NeededMessages(m) : sent[k] = "good"
           /\ \E v \in {"good", "bad"} : sent' = [sent EXCEPT ![m] = v]
           /\ UNCHANGED <<hinted, derived, outcome>>

Derive(c) == /\ outcome = "pending"
             /\ c \notin derived
             /\ Earlier(c) \subseteq derived
             /\ \A m \in BoundMessages(c) : sent[m] # "none"
             /\ BindsCommitments(c) => hinted = Commitments
             /\ derived' = derived \cup {c}
             /\ UNCHANGED <<sent, hinted, outcome>>

Succeed == /\ outcome = "pending"
           /\ hinted = Commitments
           /\ derived = Challenges
           /\ \A m \in Messages : sent[m] = "good"
           /\ outcome' = "proof"
           /\ UNCHANGED <<sent, hinted, derived>>

Fail == /\ outcome = "pending"
        /\ outcome' = "error"
        /\ UNCHANGED <<sent, hinted, derived>>

Next == \/ \E c \in Commitments : Hint(c)
        \/ \E m \in Messages : Send(m)
        \/ \E c \in Challenges : Derive(c)
        \/ Succeed
        \/ Fail

\* The call returns: one of the steps that end it is taken in the end.
Spec == Init /\ [][Next]_vars /\ WF_vars(Succeed \/ Fail)
==============================================================================
