---------------------------- MODULE ForkPromise ----------------------------
(***************************************************************************)
(* What a dial fork promises to the call that runs it: it dials, answers   *)
(* come in, legs are closed; it settles once, with one answered leg while  *)
(* the call is still current, or without any; and when it settles every    *)
(* other leg has been closed before.                                       *)
(***************************************************************************)
CONSTANTS Branches

VARIABLES
    open,       \* legs that ring or talk
    answered,   \* legs that have answered
    current,    \* the caller still wants the call
    settled     \* "no", "won" or "lost"

promiseVars == <<open, answered, current, settled>>

PromiseInit == open = {} /\ answered = {} /\ current = TRUE /\ settled = "no"

Dial == settled = "no" /\ open \subseteq open' /\ UNCHANGED <<answered, current, settled>>

LegAnswers == \E c \in open : answered' = answered \cup {c} /\ UNCHANGED <<open, current, settled>>

\* The far end hangs up, or the leg is closed; a late answer is forgotten with it.
LegEnds ==
    /\ \E c \in open : open' = open \ {c} /\ answered' \in {answered, answered \ {c}}
    /\ UNCHANGED <<current, settled>>

CallEnds == current' = FALSE /\ UNCHANGED <<open, answered, settled>>

Win ==
    /\ settled = "no" /\ settled' = "won"
    /\ current
    /\ \E c \in answered : open \subseteq {c}
    /\ UNCHANGED <<open, answered, current>>

Lose ==
    /\ settled = "no" /\ settled' = "lost"
    /\ open = {}
    /\ UNCHANGED <<open, answered, current>>

PromiseNext == Dial \/ LegAnswers \/ LegEnds \/ CallEnds \/ Win \/ Lose

PromiseSpec == PromiseInit /\ [][PromiseNext]_promiseVars

=============================================================================
