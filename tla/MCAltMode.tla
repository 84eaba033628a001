----------------------------- MODULE MCAltMode ------------------------------
(* Partners for the model checker: displays, a hub and a plain device. *)
EXTENDS AltMode

Device(s, sink) == [svids |-> s, sink |-> sink]

MCPartners == {Device(<<"DP">>, TRUE), Device(<<"other", "DP">>, TRUE),
               Device(<<"DP">>, FALSE), Device(<<>>, FALSE)}

=============================================================================
