---------------------------- MODULE MCComparator ----------------------------
(* Texts that lie on the edges of the three parsers: padded and cased      *)
(* literals, the digits that are booleans too, a sign, a fraction, a digit *)
(* group, a non-finite number and nothing at all.                          *)
EXTENDS Comparator, TLC

MCTexts == {"on", " ON ", "off", "1", "+1", "2", "1.5", "1_0", "nan", "maybe", " "}

MCFolded == [t \in MCTexts |-> CASE t = " ON " -> "on"
                                 [] t = " " -> ""
                                 [] OTHER -> t]

MCHalves == "1" :> 2 @@ "+1" :> 2 @@ "2" :> 4 @@ "1.5" :> 3 @@ "1_0" :> 20

MCDigitForms == {"1", "+1", "2"}
=============================================================================
