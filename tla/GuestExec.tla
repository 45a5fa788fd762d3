----------------------------- MODULE GuestExec -----------------------------
(***************************************************************************)
(* What the translator promises its guest: instructions are executed one   *)
(* after the other, each going where it may go, until the guest stops.     *)
(* Before an instruction tohost may be looked at; an exit request seen     *)
(* there, or an ecall, stops the guest.                                    *)
(***************************************************************************)
EXTENDS Guest

VARIABLES code, pc, stopped, host

vars == <<code, pc, stopped, host>>

Init ==
    /\ code \in Programs
    /\ pc = 1
    /\ stopped = FALSE
    /\ host = "idle"

\* One instruction after a look at tohost.
Polled ==
    /\ pc' \in GoesTo(code, pc, Served(host))
    /\ host' \in HostAfter(code, pc, Served(host))
    /\ stopped' = BrkAfter(code, pc, host, stopped)

\* One instruction without it; an ecall is not executed this way.
Unpolled ==
    /\ ~IsMonitor(code[pc])
    /\ pc' \in GoesTo(code, pc, host)
    /\ host' \in HostAfter(code, pc, host)
    /\ UNCHANGED stopped

Execute ==
    /\ ~stopped
    /\ Polled \/ Unpolled
    /\ UNCHANGED code

Safe == Init /\ [][Execute]_vars

\* The machine does not stand still before it is stopped.
Spec == Safe /\ WF_vars(Execute)
=============================================================================
