---------------------------- MODULE MCKeepalive ----------------------------
(***************************************************************************)
(* The instance of Keepalive: a window of two and three configurations.    *)
(***************************************************************************)
EXTENDS Keepalive, TLC

Config(init, inactivity, interval, timeout, response) ==
    [SessionInitTimeout |-> init, InactivityTimeout |-> inactivity, EnquireLinkInterval |-> interval,
     EnquireLinkTimeout |-> timeout, ResponseTimeout |-> response]

\* Probes alone, with a timeout longer than their interval; an inactivity timeout shorter
\* than the time a bind may take; both, with the fallback to ResponseTimeout.
MCConfigs == {Config(0, 0, 2, 3, 3), Config(4, 3, 0, 0, 2), Config(2, 5, 2, 0, 2)}

MCSymmetry == Permutations(Slots)
=============================================================================
