------------------------ MODULE PayloadLimitsProofs ------------------------
(***************************************************************************)
(* Proofs of the invariants of PayloadLimits, for all texts and limits.    *)
(***************************************************************************)
EXTENDS PayloadLimits, TLAPS

USE LimitsAssumption

\* What one character does to the scan, and to the parser.
LEMMA StepType ==
  ASSUME NEW s \in Scans, NEW ch \in Chars
  PROVE  Step(s, ch) \in Scans
BY DEF Step, NextMode, Scans, Modes, Chars, Opening, Closing

\* Init establishes the inductive invariant.
LEMMA InitIInv == Init => IInv
<1> SUFFICES ASSUME Init PROVE IInv
  OBVIOUS
<1>1. Start \in Scans /\ Start.current = 0 /\ Start.mode = "plain"
  BY DEF Start, Scans, Modes
<1>2. Len(trail) = 1 /\ trail[1] = Start /\ trail \in Seq(Scans)
  BY <1>1 DEF Init
<1>3. parser \in Parsers /\ parser.at = 0 /\ parser.stack = <<>>
  BY DEF Init, Parsers, Modes
<1>4. text \in Seq(Chars) /\ Len(text) \in Nat
  BY DEF Init
<1>5. TypeOK
  <2>1. scan \in Scans /\ trail \in Seq(Scans) /\ parser \in Parsers
    BY <1>1, <1>2, <1>3 DEF Init
  <2>2. Len(trail) \in 1 .. Len(text) + 1 /\ parser.at <= Len(text)
    BY <1>2, <1>3, <1>4
  <2>3. /\ text \in Texts /\ verdict = "none"
        /\ max_depth = 0 /\ deepest = 0 /\ broken = FALSE
    BY DEF Init
  <2> QED BY <2>1, <2>2, <2>3 DEF TypeOK
<1>6. TrailFollowsText /\ MaximumIsReached /\ DeepestIsReached /\ JudgedInFull
  BY <1>1, <1>2, <1>3, <1>4
  DEF Init, TrailFollowsText, MaximumIsReached, DeepestIsReached, JudgedInFull
<1>7. ParserInStep
  BY <1>2, <1>3 DEF Init, ParserInStep, Start
<1> QED BY <1>5, <1>6, <1>7 DEF IInv

\* A step of the scanner preserves it: the trail gets longer by one.
LEMMA ScanIInv == IInv /\ Scan => IInv'
<1> SUFFICES ASSUME IInv, Scan PROVE IInv'
  OBVIOUS
<1> USE DEF IInv
<1>1. text \in Seq(Chars) /\ text[Len(trail)] \in Chars
  BY DEF Scan, TypeOK
<1>2. scan' \in Scans /\ scan'.current \in Nat
  BY <1>1, StepType DEF Scan, TypeOK, Scans
<1>3. /\ trail' \in Seq(Scans)
      /\ Len(trail') = Len(trail) + 1
      /\ trail'[Len(trail) + 1] = scan'
      /\ \A i \in 1 .. Len(trail) : trail'[i] = trail[i]
  BY <1>2 DEF Scan, TypeOK
<1>4. \A i \in 1 .. Len(trail) : trail[i] \in Scans /\ trail[i].current \in Nat
  <2>1. \A i \in 1 .. Len(trail) : trail[i] \in Scans
    BY DEF TypeOK
  <2> QED BY <2>1 DEF Scans
<1>5. TypeOK'
  <2>1. Len(text) \in Nat /\ Len(trail) <= Len(text) /\ Len(trail) \in Nat
    BY <1>1 DEF Scan, TypeOK
  <2>2. max_depth' \in Nat
    BY <1>2 DEF Scan, TypeOK
  <2>3. Len(trail') \in 1 .. Len(text) + 1
    BY <2>1, <1>3
  <2> QED BY <1>2, <1>3, <2>2, <2>3 DEF Scan, TypeOK, reading
<1>6. TrailFollowsText'
  BY <1>1, <1>3 DEF Scan, TypeOK, TrailFollowsText
<1>7. MaximumIsReached'
  <2>1. CASE scan'.current > max_depth
    BY <2>1, <1>2, <1>3, <1>4 DEF Scan, TypeOK, MaximumIsReached
  <2>2. CASE ~(scan'.current > max_depth)
    <3>1. max_depth' = max_depth /\ max_depth \in Nat /\ Len(trail) \in Nat
      BY <2>2 DEF Scan, TypeOK
    <3>2. \A i \in 1 .. Len(trail') : trail'[i].current <= max_depth'
      BY <2>2, <3>1, <1>2, <1>3, <1>4 DEF MaximumIsReached
    <3>3. PICK i \in 1 .. Len(trail) : trail[i].current = max_depth
      BY DEF MaximumIsReached
    <3>4. i \in 1 .. Len(trail') /\ trail'[i].current = max_depth'
      BY <3>1, <3>3, <1>3
    <3> QED BY <3>2, <3>4 DEF MaximumIsReached
  <2> QED BY <2>1, <2>2
<1>8. ParserInStep'
  BY <1>3 DEF Scan, TypeOK, Parsers, ParserInStep, reading
<1>9. DeepestIsReached'
  BY <1>3 DEF Scan, TypeOK, Parsers, ParserInStep, reading, DeepestIsReached
<1>10. JudgedInFull'
  BY DEF Scan, JudgedInFull
<1> QED BY <1>5, <1>6, <1>7, <1>8, <1>9, <1>10

\* A step of the parser preserves it: it moves as the scanner did.
LEMMA ReadIInv == IInv /\ Read => IInv'
<1> SUFFICES ASSUME IInv, Read PROVE IInv'
  OBVIOUS
<1> USE DEF IInv
<1> DEFINE at == parser.at
           ch == text[at + 1]
           stack == NextStack(parser.stack, ch)
<1>1. /\ text \in Seq(Chars) /\ at \in Nat /\ at + 1 \in 1 .. Len(text)
      /\ Len(trail) = Len(text) + 1
  BY DEF Read, Reads, TypeOK, Parsers, JudgedInFull
<1>2. ch \in Chars
  BY <1>1
<1>3. parser \in Parsers /\ parser.stack \in Seq(Opening) /\ Len(parser.stack) \in Nat
  BY DEF TypeOK, Parsers
<1>4. parser' = [at |-> at + 1, mode |-> NextMode(parser.mode, ch), stack |-> stack]
  BY DEF Read
<1>5. /\ stack \in Seq(Opening) /\ Len(stack) \in Nat
      /\ NextMode(parser.mode, ch) \in Modes
      /\ Step(trail[at + 1], ch) =
           [mode |-> NextMode(parser.mode, ch), current |-> Len(stack)]
  <2>1. trail[at + 1] = [mode |-> parser.mode, current |-> Len(parser.stack)]
    BY DEF ParserInStep
  <2>2. NextMode(parser.mode, ch) \in Modes
    BY <1>3 DEF NextMode, Modes, Parsers
  <2>3. CASE parser.mode = "plain" /\ ch \in Opening
    BY <2>1, <2>2, <2>3, <1>3 DEF Step, NextStack, Opening, Closing
  <2>4. CASE parser.mode = "plain" /\ ch \in Closing
    <3> DEFINE rest == SubSeq(parser.stack, 1, Len(parser.stack) - 1)
    <3>1. parser.stack # <<>> /\ Len(parser.stack) > 0
      BY <2>4, <1>3 DEF Read
    <3>2. rest \in Seq(Opening) /\ Len(rest) = Len(parser.stack) - 1
      BY <3>1, <1>3
    <3>3. stack = rest
      BY <2>4 DEF NextStack, Opening, Closing
    <3> HIDE DEF rest, stack
    <3> QED BY <2>1, <2>2, <2>4, <3>1, <3>2, <3>3, <1>3 DEF Step, Opening, Closing
  <2>5. CASE parser.mode # "plain" \/ ch \notin Opening \cup Closing
    BY <2>1, <2>2, <2>5, <1>3 DEF Step, NextStack
  <2> QED BY <2>3, <2>4, <2>5
<1> HIDE DEF stack
<1>6. /\ parser' \in Parsers /\ parser'.at = at + 1 /\ parser'.stack = stack
      /\ parser'.mode = NextMode(parser.mode, ch) /\ Len(parser'.stack) \in Nat
  BY <1>1, <1>4, <1>5 DEF Parsers
<1>7. trail' = trail /\ text' = text /\ scan' = scan /\ max_depth' = max_depth
      /\ verdict' = verdict /\ broken' = broken
  BY DEF Read, scanner
<1>8. trail[at + 2] = Step(trail[at + 1], ch)
  BY <1>1 DEF TrailFollowsText
<1>9. trail[at + 2].current = Len(parser'.stack)
  BY <1>5, <1>6, <1>8
<1>10. deepest' = IF Len(parser'.stack) > deepest THEN Len(parser'.stack) ELSE deepest
  BY DEF Read
<1>11. deepest \in Nat /\ deepest' \in Nat
  BY <1>6, <1>10 DEF TypeOK
<1>12. TypeOK'
  BY <1>1, <1>6, <1>7, <1>11 DEF TypeOK
<1>13. ParserInStep'
  BY <1>1, <1>5, <1>6, <1>7, <1>8 DEF ParserInStep
<1>14. DeepestIsReached'
  <2>1. \A i \in 1 .. at + 1 : trail[i].current \in Nat
    <3>1. \A i \in 1 .. at + 1 : trail[i] \in Scans
      BY <1>1 DEF TypeOK
    <3> QED BY <3>1 DEF Scans
  <2>2. /\ at' = at + 1 /\ at \in Nat
        /\ \A i \in 1 .. at + 2 : i \in 1 .. at + 1 \/ i = at + 2
    BY <1>1, <1>6
  <2>3. \A i \in 1 .. at + 2 : trail[i].current <= deepest'
    BY <2>1, <2>2, <1>6, <1>9, <1>10, <1>11 DEF DeepestIsReached
  <2>4. \E i \in 1 .. at + 2 : trail[i].current = deepest'
    <3>1. CASE Len(parser'.stack) > deepest
      <4>1. at + 2 \in 1 .. at + 2 /\ trail[at + 2].current = deepest'
        BY <3>1, <2>2, <1>9, <1>10
      <4> QED BY <4>1
    <3>2. CASE ~(Len(parser'.stack) > deepest)
      <4>1. PICK i \in 1 .. at + 1 : trail[i].current = deepest
        BY DEF DeepestIsReached
      <4>2. i \in 1 .. at + 2 /\ trail[i].current = deepest'
        BY <3>2, <4>1, <2>2, <1>10
      <4> QED BY <4>2
    <3> QED BY <3>1, <3>2
  <2>5. at' + 1 = at + 2
    BY <2>2
  <2> QED BY <2>3, <2>4, <2>5, <1>7 DEF DeepestIsReached
<1>15. (TrailFollowsText /\ MaximumIsReached /\ JudgedInFull)'
  BY <1>7 DEF TrailFollowsText, MaximumIsReached, JudgedInFull
<1> QED BY <1>12, <1>13, <1>14, <1>15

\* The other steps leave the trail and the parser alone.
LEMMA OtherIInv ==
  IInv /\ (Measure \/ Judge \/ Fault \/ UNCHANGED vars) => IInv'
<1> SUFFICES ASSUME IInv, Measure \/ Judge \/ Fault \/ UNCHANGED vars PROVE IInv'
  OBVIOUS
<1> USE DEF IInv, TypeOK
<1>1. /\ UNCHANGED <<text, scan, max_depth, trail, parser, deepest>>
      /\ broken' \in BOOLEAN
      /\ verdict' \in {"none", "scanning", "too_large", "too_deep", "accepted"}
  BY DEF Measure, Judge, Fault, vars, scanner, reading
<1>2. JudgedInFull'
  <2>1. CASE Measure
    BY <2>1 DEF Measure, JudgedInFull, scanner, reading
  <2>2. CASE Judge
    BY <2>2 DEF Judge, JudgedInFull, scanner, reading
  <2>3. CASE Fault \/ UNCHANGED vars
    BY <2>3 DEF Fault, JudgedInFull, vars, scanner
  <2> QED BY <2>1, <2>2, <2>3
<1>3. (TrailFollowsText /\ MaximumIsReached /\ ParserInStep /\ DeepestIsReached)'
  BY <1>1 DEF TrailFollowsText, MaximumIsReached, ParserInStep, DeepestIsReached
<1> QED BY <1>1, <1>2, <1>3

\* The inductive invariant holds of every behaviour.
LEMMA Inductive == Spec => []IInv
<1>1. IInv /\ [Next]_vars => IInv'
  BY ScanIInv, ReadIInv, OtherIInv DEF Next
<1> QED BY InitIInv, <1>1, PTL DEF Spec

\* The scanner (json_depth) and the parser stay within the text.
THEOREM LimitsTypeCorrect == Spec => []TypeOK
BY Inductive, PTL DEF IInv

\* Whatever the text and the limit, a text that passes never makes the parser
\* hold more than max_json_depth brackets open (validate_payload_limits).
THEOREM LimitsBoundTheParser == Spec => []LimitBoundsParser
<1>1. IInv => LimitBoundsParser
  <2> SUFFICES ASSUME IInv, verdict = "accepted" PROVE deepest <= MaxDepth
    BY DEF LimitBoundsParser
  <2>1. PICK i \in 1 .. parser.at + 1 : trail[i].current = deepest
    BY DEF IInv, DeepestIsReached
  <2>2. i \in 1 .. Len(trail)
    BY DEF IInv, TypeOK, Parsers, ParserInStep
  <2> QED BY <2>1, <2>2 DEF IInv, TypeOK, MaximumIsReached, JudgedInFull
<1> QED BY Inductive, <1>1, PTL

\* A text the parser gets through that was refused for its depth does nest
\* deeper than max_json_depth: the limit refuses no other.
THEOREM RefusalsAreRight == Spec => []RefusalIsRight
<1>1. IInv => RefusalIsRight
  <2> SUFFICES ASSUME IInv, verdict = "too_deep", parser.at = Len(text)
               PROVE  deepest > MaxDepth
    BY DEF RefusalIsRight
  <2>1. PICK i \in 1 .. Len(trail) : trail[i].current = max_depth
    BY DEF IInv, MaximumIsReached
  <2>2. i \in 1 .. parser.at + 1
    BY DEF IInv, TypeOK, JudgedInFull
  <2> QED BY <2>1, <2>2 DEF IInv, TypeOK, DeepestIsReached, JudgedInFull
<1> QED BY Inductive, <1>1, PTL
=============================================================================
