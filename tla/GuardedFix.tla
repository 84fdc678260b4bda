------------------------------ MODULE GuardedFix ------------------------------
(***************************************************************************)
(* What the fix pull requests of ci-rootcause promise the people who       *)
(* review them: what an open pull request shows is an offer some run was   *)
(* allowed to make, and it stays as it is until somebody closes it.        *)
(***************************************************************************)
CONSTANTS
  Branches,      \* the fix branches
  Offers,        \* the trees a pull request of each branch may show
  Nothing        \* shown where no pull request is open

VARIABLE shown   \* what the open pull request of each branch shows

Init == shown = [b \in Branches |-> Nothing]

Open(b) ==
  /\ shown[b] = Nothing
  /\ \E tree \in Offers[b] : shown' = [shown EXCEPT ![b] = tree]

Close(b) ==
  /\ shown[b] # Nothing
  /\ shown' = [shown EXCEPT ![b] = Nothing]

Next == \E b \in Branches : Open(b) \/ Close(b)

Spec == Init /\ [][Next]_shown
=============================================================================
