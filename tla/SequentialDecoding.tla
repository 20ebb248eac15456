------------------------- MODULE SequentialDecoding -------------------------
(***************************************************************************)
(* What the request pipeline promises: speculative decoding, one round     *)
(* after the other.  A prefill commits the first token; a proposal         *)
(* continues exactly the output committed so far; a verification commits a *)
(* prefix of that proposal and one token more; a finished request is left  *)
(* alone.  It is the loop a single process would run for each request.     *)
(***************************************************************************)
EXTENDS Integers

CONSTANTS Requests, MaxNew, Depth

VARIABLES
    output,     \* tokens committed
    finished,
    verified,   \* the last Target round, -1 before the prefill
    drafted,    \* the last Draft round, 0 before the first
    proposal    \* its tokens and the output they continue

vars == <<output, finished, verified, drafted, proposal>>

NoProposal == [base |-> 0, size |-> 0]

Init ==
    /\ output = [r \in Requests |-> 0]
    /\ finished = [r \in Requests |-> FALSE]
    /\ verified = [r \in Requests |-> -1]
    /\ drafted = [r \in Requests |-> 0]
    /\ proposal = [r \in Requests |-> NoProposal]

\* n tokens are committed; the request ends at its limit or by a stop token.
Commit(r, n) ==
    /\ output' = [output EXCEPT ![r] = @ + n]
    /\ output[r] + n <= MaxNew
    /\ \E stop \in BOOLEAN :
          finished' = [finished EXCEPT ![r] = stop \/ output[r] + n = MaxNew]

Prefill(r) ==
    /\ verified[r] = -1
    /\ Commit(r, 1)
    /\ verified' = [verified EXCEPT ![r] = 0]
    /\ UNCHANGED <<drafted, proposal>>

Propose(r) ==
    /\ ~ finished[r]
    /\ verified[r] >= 0
    /\ drafted[r] = verified[r]
    /\ \E n \in 1 .. Depth :
          /\ output[r] + n <= MaxNew
          /\ proposal' = [proposal EXCEPT ![r] = [base |-> output[r], size |-> n]]
    /\ drafted' = [drafted EXCEPT ![r] = @ + 1]
    /\ UNCHANGED <<output, finished, verified>>

Verify(r) ==
    /\ ~ finished[r]
    /\ drafted[r] = verified[r] + 1
    /\ proposal[r].base = output[r]
    /\ \E n \in 1 .. proposal[r].size + 1 : Commit(r, n)
    /\ verified' = [verified EXCEPT ![r] = drafted[r]]
    /\ UNCHANGED <<drafted, proposal>>

Next == \E r \in Requests : Prefill(r) \/ Propose(r) \/ Verify(r)

Spec == Init /\ [][Next]_vars
=============================================================================
