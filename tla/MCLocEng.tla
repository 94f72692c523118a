------------------------------ MODULE MCLocEng ------------------------------
EXTENDS LocEng, TLC

Fix(status, satellite, inaccurate) ==
    [status |-> status, satellite |-> satellite, inaccurate |-> inaccurate]

(* Reported always, only when intermediate positions are, or never. *)
AllFixes == {Fix("success", TRUE, FALSE), Fix("intermediate", TRUE, FALSE),
             Fix("success", FALSE, TRUE), Fix("failure", FALSE, FALSE)}

Limit(calls, fixes, crashes, requests, room) ==
    [calls |-> calls, fixes |-> fixes, crashes |-> crashes, requests |-> requests,
     room |-> room]

(* Calls with positions, with crashes, and with sessions of the network. *)
AllLimits == {Limit(4, 0, 0, 0, 4), Limit(3, 1, 0, 0, 3), Limit(3, 0, 1, 0, 3), Limit(2, 0, 2, 0, 3),
              Limit(2, 1, 0, 1, 3), Limit(1, 1, 1, 1, 3)}

(* Calls alone, for what does not need a crash. *)
CallsOnly == {Limit(4, 0, 0, 0, 4)}
=============================================================================
