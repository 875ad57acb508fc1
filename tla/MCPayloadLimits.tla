-------------------------- MODULE MCPayloadLimits --------------------------
(***************************************************************************)
(* PayloadLimits over every text shorter than MaxText characters, those    *)
(* of MaxText characters that are all brackets, quotes and backslashes,    *)
(* and longer ones of one kind of character, for the limit on the size.    *)
(***************************************************************************)
EXTENDS PayloadLimits

CONSTANT MaxText  \* bound: the longest text but for those over the size limit

MCTexts ==
  UNION {[1 .. n -> Chars] : n \in 0 .. MaxText - 1}
    \cup [1 .. MaxText -> Chars \ {"other"}]
    \cup UNION {[1 .. MaxText + 1 -> {ch}] : ch \in Chars}
=============================================================================
