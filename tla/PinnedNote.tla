----------------------------- MODULE PinnedNote -----------------------------
(***************************************************************************)
(* What the app's output promises the readers of a pull request or commit: *)
(* under each key (the summary, or one line of the diff) one note, holding *)
(* what some delivery had to say; and a delivery that reports its comment  *)
(* as posted has had its say there.                                        *)
(***************************************************************************)
CONSTANTS Workers, Keys, KeyOf, Nobody

VARIABLES note,             \* note[k]: the delivery the note under k is from
          posted            \* deliveries that report comment_posted

vars == <<note, posted>>

Init == note = [k \in Keys |-> Nobody] /\ posted = {}

(* A delivery has its say; it may not learn that it has. *)
Say(w) == note' = [note EXCEPT ![KeyOf[w]] = w]

Write(w) == Say(w) /\ UNCHANGED posted

WriteAndReport(w) == Say(w) /\ posted' = posted \union {w}

Next == \E w \in Workers : Write(w) \/ WriteAndReport(w)

Spec == Init /\ [][Next]_vars
=============================================================================
