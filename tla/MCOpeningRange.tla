--------------------------- MODULE MCOpeningRange ---------------------------
(* OpeningRange for TLC: a day of 20-minute bars, of which four missing in a    *)
(* row are a gap; a range of two bars, two entries a session.               *)
EXTENDS OpeningRange

\* A window of two bars and every filter on.
Strict == [orbMinutes |-> 40, maxTrades |-> 2, ordType |-> "LIMIT",
           closeConfirmed |-> FALSE, longOnly |-> FALSE, rangeSl |-> TRUE,
           tp |-> 20, sl |-> 10, buffer |-> 0, minRange |-> 5, maxRange |-> 40,
           volumeFilter |-> TRUE, volumeMin |-> 5, adxFilter |-> TRUE, adxMin |-> 20,
           adaptive |-> TRUE, lowBelow |-> 7, highAbove |-> 13,
           lowRange |-> 7, highRange |-> 13, lowBuffer |-> 7, highBuffer |-> 13]

\* A bar the filters stop, one that breaks out upwards, one downwards, and one
\* with a missing field.
Quiet == [open |-> 4, high |-> 5, low |-> 4, close |-> 5, atr |-> 1, atrMa |-> 1,
          volume |-> 4, volumeMa |-> 4, adx |-> 10]
Up == [Quiet EXCEPT !.high = 7, !.close = 6, !.atrMa = 0, !.adx = 25]
Down == [Quiet EXCEPT !.low = 2, !.close = 3, !.adx = 25]
Broken == [Quiet EXCEPT !.close = 0]
FewShapes == {Quiet, Up, Down, Broken}
OneDay == {0}
=============================================================================
