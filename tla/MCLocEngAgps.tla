---------------------------- MODULE MCLocEngAgps ----------------------------
(* Small instances of LocEngAgps: two senders compete for wifi; two modem  *)
(* handles share agnss over a restart, or have a choice of NIFs, of which  *)
(* wifi may be one; agnss is missing; emergencies of one or two handles    *)
(* have a data call.                                                       *)
EXTENDS LocEngAgps

CONSTANTS c1, c2

MCClients == {c1, c2}

With(made, there, wanted, crashes, most) ==
    [nifs |-> made, clients |-> there, wants |-> wanted, restarts |-> crashes, load |-> most]

MCSettings ==
    {With({"agnss", "wifi"}, {c1, c2}, {"wifi"}, 0, 3),
     With({"agnss", "internet", "wifi"}, {c1, c2}, {"agnss", "internet", "wifi"}, 0, 1),
     With({"agnss"}, {c1, c2}, {"agnss"}, 1, 2),
     With({"agnss", "internet"}, {c1}, {"agnss", "internet"}, 1, 2),
     With({"internet"}, {c1}, {"internet", "ds"}, 0, 3),
     With({"agnss", "ds"}, {c1}, {"ds"}, 0, 2),
     With({"agnss", "ds"}, {c1, c2}, {"ds"}, 0, 1)}
=============================================================================
