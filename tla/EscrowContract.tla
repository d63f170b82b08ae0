--------------------------- MODULE EscrowContract ---------------------------
(***************************************************************************)
(* What the settlement of one escrow promises, without callers, messages or *)
(* reconcilers.  A settlement is asked for only under a claim for the same  *)
(* operation; the funds move once, and only because it was asked for; the   *)
(* escrow is closed only when the funds are gone, and stays closed.         *)
(***************************************************************************)
CONSTANTS Operations   \* the settlements: each names where the funds go

VARIABLES
    phase,   \* open, closed, or the operation that has claimed the escrow
    asked,   \* operations asked for and not yet carried out
    funds    \* locked, or the operation that moved them

Init ==
    /\ phase = "open"
    /\ asked = {}
    /\ funds = "locked"

Claim(op) ==
    /\ phase = "open"
    /\ phase' = op
    /\ UNCHANGED <<asked, funds>>

Ask(op) ==
    /\ phase = op
    /\ asked' = asked \cup {op}
    /\ UNCHANGED <<phase, funds>>

(* What was asked for may be carried out long after the claim was given up. *)
Execute(op) ==
    /\ op \in asked
    /\ asked' = asked \ {op}
    /\ funds' = IF funds = "locked" THEN op ELSE funds
    /\ UNCHANGED phase

GiveUp(op) ==
    /\ phase = op
    /\ phase' = "open"
    /\ UNCHANGED <<asked, funds>>

Close(op) ==
    /\ phase = op
    /\ funds # "locked"
    /\ phase' = "closed"
    /\ UNCHANGED <<asked, funds>>

Next ==
    \E op \in Operations :
        Claim(op) \/ Ask(op) \/ Execute(op) \/ GiveUp(op) \/ Close(op)

Spec == Init /\ [][Next]_<<phase, asked, funds>>
=============================================================================
