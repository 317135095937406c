---------------------------- MODULE InputLedger ----------------------------
(***************************************************************************)
(* What the inbox and the driver promise whoever follows their events: a   *)
(* message is inserted, and then it is either discarded while it is        *)
(* pending, or claimed inside an open turn.  A claimed message enters the  *)
(* model-visible history together with the rest of its batch, or it ends   *)
(* there, at the latest with its turn.  It becomes pending again only in a *)
(* turn that refuses its batch: such a turn admits nothing and claims      *)
(* nothing more, so no message is both admitted and put back, and none is  *)
(* put back and claimed again by one turn.                                 *)
(***************************************************************************)
CONSTANT Message

VARIABLES fate, turnOpen, refused

Fates == {"unsent", "pending", "discarded", "claimed", "admitted", "dropped"}

With(f) == {m \in Message : fate[m] = f}

\* Every message of S takes fate f.
Becomes(S, f) == fate' = [m \in Message |-> IF m \in S THEN f ELSE fate[m]]

Init == fate = [m \in Message |-> "unsent"] /\ turnOpen = FALSE /\ refused = FALSE

Insert == /\ \E m \in With("unsent") : Becomes({m}, "pending")
          /\ UNCHANGED <<turnOpen, refused>>

\* One splice may insert a message in the place of another.
Replace == /\ \E m \in With("unsent"), n \in With("pending") :
                fate' = [fate EXCEPT ![m] = "pending", ![n] = "discarded"]
           /\ UNCHANGED <<turnOpen, refused>>

Discard == /\ \E S \in SUBSET With("pending") : Becomes(S, "discarded")
           /\ UNCHANGED <<turnOpen, refused>>

OpenTurn == /\ ~turnOpen /\ turnOpen' = TRUE
            /\ UNCHANGED <<fate, refused>>

Claim == /\ turnOpen /\ ~refused
         /\ \E S \in SUBSET With("pending") : Becomes(S, "claimed")
         /\ UNCHANGED <<turnOpen, refused>>

Admit == /\ turnOpen /\ ~refused
         /\ Becomes(With("claimed"), "admitted")
         /\ UNCHANGED <<turnOpen, refused>>

Drop == /\ turnOpen
        /\ \E S \in SUBSET With("claimed") : Becomes(S, "dropped")
        /\ UNCHANGED <<turnOpen, refused>>

\* From here on the turn only ends, and may give back what it claimed.
Refuse == /\ turnOpen /\ refused' = TRUE
          /\ \E S \in SUBSET With("claimed") : Becomes(S, "pending")
          /\ UNCHANGED turnOpen

CloseTurn == /\ turnOpen /\ turnOpen' = FALSE /\ refused' = FALSE
             /\ Becomes(With("claimed"), "dropped")

Next == \/ Insert \/ Replace \/ Discard
        \/ OpenTurn \/ Claim \/ Admit \/ Drop \/ Refuse \/ CloseTurn

Spec == Init /\ [][Next]_<<fate, turnOpen, refused>>

=============================================================================
