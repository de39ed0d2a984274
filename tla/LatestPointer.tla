---------------------------- MODULE LatestPointer ----------------------------
(***************************************************************************)
(* What each row of latest_fundamentals and latest_valuation promises:      *)
(* `wanted' is the newest request made in the row's context, `shown' the    *)
(* request whose result is displayed, 0 for none.  A newer request may take *)
(* over at any time; the display only ever moves to the request that is the *)
(* newest at that moment, so it never goes back.                            *)
(***************************************************************************)
EXTENDS Naturals

CONSTANTS Rows, MaxRequests

VARIABLES wanted, shown

Init == wanted = [c \in Rows |-> 0] /\ shown = [c \in Rows |-> 0]

Want(c) ==
    /\ \E r \in (wanted[c] + 1)..MaxRequests : wanted' = [wanted EXCEPT ![c] = r]
    /\ shown' = shown
Show(c) ==
    /\ wanted[c] > shown[c]
    /\ shown' = [shown EXCEPT ![c] = wanted[c]]
    /\ wanted' = wanted

Spec == Init /\ [][\E c \in Rows : Want(c) \/ Show(c)]_<<wanted, shown>>
=============================================================================
