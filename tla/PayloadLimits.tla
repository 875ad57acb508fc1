--------------------------- MODULE PayloadLimits ---------------------------
(***************************************************************************)
(* The limits on a text frame: validate_payload_limits of src/src/ws.rs    *)
(* and the scanner json_depth of src/src/security.rs, which is what keeps  *)
(* a deeply nested text away from the recursive descent of serde_json.     *)
(*                                                                         *)
(* The text is scanned once, character by character, and judged.  Then     *)
(* the parser reads it from the start; it is run on a text that was        *)
(* refused as well, to tell what it would have made of it.  What the       *)
(* parser knows of a text is its brackets and strings, and it may find     *)
(* fault with anything else at any time.                                   *)
(***************************************************************************)
EXTENDS Integers, Sequences

CONSTANTS
  Texts,     \* the texts a peer may send
  MaxBytes,  \* security.max_message_bytes, in characters
  MaxDepth   \* security.max_json_depth

Opening == {"lbrace", "lbracket"}
Closing == {"rbrace", "rbracket"}
Chars == Opening \cup Closing \cup {"quote", "backslash", "other"}

ASSUME LimitsAssumption ==
  /\ Texts \subseteq Seq(Chars)
  /\ MaxBytes \in Nat
  /\ MaxDepth \in Nat

VARIABLES
  text,       \* the frame
  verdict,    \* how far validate_payload_limits has come with it
  scan,       \* json_depth: current, and whether it is in a string
  max_depth,  \* json_depth: the deepest it has been
  trail,      \* history: scan before each character it read, and now
  parser,     \* the parser: characters read, string state, open brackets
  broken,     \* it found fault with the text
  deepest     \* history: the most brackets it had open at a time

vars == <<text, verdict, scan, max_depth, trail, parser, broken, deepest>>
scanner == <<scan, max_depth, trail>>
reading == <<parser, broken, deepest>>

\* in_string and escaped, the second of which is only ever set with the first.
Modes == {"plain", "string", "escape"}

Scans == [mode : Modes, current : Nat]

Start == [mode |-> "plain", current |-> 0]

\* The scanner and the parser know a string when they see one.
NextMode(mode, ch) ==
  CASE mode = "escape"                     -> "string"
    [] mode = "string" /\ ch = "backslash" -> "escape"
    [] mode = "string" /\ ch = "quote"     -> "plain"
    [] mode = "plain" /\ ch = "quote"      -> "string"
    [] OTHER                               -> mode

\* Mutant: brackets are counted wherever they stand.
StepEverywhere(s, ch) ==
  [mode |-> NextMode(s.mode, ch),
   current |->
     CASE ch \in Opening -> s.current + 1
       [] ch \in Closing /\ s.current > 0 -> s.current - 1
       [] OTHER -> s.current]

\* Mutant: a bracket once opened is never closed.
StepNeverCloses(s, ch) ==
  [mode |-> NextMode(s.mode, ch),
   current |->
     IF s.mode = "plain" /\ ch \in Opening THEN s.current + 1 ELSE s.current]

\* Mutant: the depth is subtracted from without saturating_sub.
StepBelowZero(s, ch) ==
  [mode |-> NextMode(s.mode, ch),
   current |->
     CASE s.mode = "plain" /\ ch \in Opening -> s.current + 1
       [] s.mode = "plain" /\ ch \in Closing -> s.current - 1
       [] OTHER -> s.current]

\* One turn of the loop of json_depth.
Step(s, ch) ==
  [mode |-> NextMode(s.mode, ch),
   current |->
     CASE s.mode = "plain" /\ ch \in Opening -> s.current + 1
       [] s.mode = "plain" /\ ch \in Closing /\ s.current > 0 -> s.current - 1
       [] OTHER -> s.current]

Parsers == [at : Nat, mode : Modes, stack : Seq(Opening)]

Init ==
  /\ text \in Texts
  /\ verdict = "none"
  /\ scan = Start
  /\ max_depth = 0
  /\ trail = <<Start>>
  /\ parser = [at |-> 0, mode |-> "plain", stack |-> <<>>]
  /\ broken = FALSE
  /\ deepest = 0

-----------------------------------------------------------------------------
(* validate_payload_limits *)

Measure ==
  /\ verdict = "none"
  /\ verdict' = IF Len(text) > MaxBytes THEN "too_large" ELSE "scanning"
  /\ UNCHANGED <<text, scanner, reading>>

\* The next character; a bracket that opens may set a new maximum.
Scan ==
  /\ verdict = "scanning"
  /\ Len(trail) <= Len(text)
  /\ scan' = Step(scan, text[Len(trail)])
  /\ max_depth' = IF scan'.current > max_depth THEN scan'.current ELSE max_depth
  /\ trail' = Append(trail, scan')
  /\ UNCHANGED <<text, verdict, reading>>

Judge ==
  /\ verdict = "scanning"
  /\ Len(trail) > Len(text)
  /\ verdict' = IF max_depth > MaxDepth THEN "too_deep" ELSE "accepted"
  /\ UNCHANGED <<text, scanner, reading>>

-----------------------------------------------------------------------------
(* The parser: serde_json, where its recursion is concerned *)

Reads ==
  /\ verdict \in {"accepted", "too_deep"}
  /\ ~broken
  /\ parser.at < Len(text)

Matches(open, close) ==
  <<open, close>> \in {<<"lbrace", "rbrace">>, <<"lbracket", "rbracket">>}

NextStack(open, ch) ==
  CASE parser.mode = "plain" /\ ch \in Opening -> Append(open, ch)
    [] parser.mode = "plain" /\ ch \in Closing -> SubSeq(open, 1, Len(open) - 1)
    [] OTHER -> open

\* It takes the next character, unless that closes what is not open.
Read ==
  LET ch == text[parser.at + 1]
      open == parser.stack
  IN
  /\ Reads
  /\ parser.mode = "plain" /\ ch \in Closing =>
       open # <<>> /\ Matches(open[Len(open)], ch)
  /\ parser' = [at |-> parser.at + 1, mode |-> NextMode(parser.mode, ch),
                stack |-> NextStack(open, ch)]
  /\ deepest' = IF Len(parser'.stack) > deepest THEN Len(parser'.stack) ELSE deepest
  /\ UNCHANGED <<text, verdict, scanner, broken>>

\* Whatever else makes a text no JSON, at any character and at the end.
Fault ==
  /\ verdict \in {"accepted", "too_deep"}
  /\ ~broken
  /\ broken' = TRUE
  /\ UNCHANGED <<text, verdict, scanner, parser, deepest>>

Next == Measure \/ Scan \/ Judge \/ Read \/ Fault

Spec == Init /\ [][Next]_vars

-----------------------------------------------------------------------------
(* Safety *)

\* The type invariant: the scanner and the parser, each within the text.
TypeOK ==
  /\ text \in Texts
  /\ verdict \in {"none", "scanning", "too_large", "too_deep", "accepted"}
  /\ scan \in Scans
  /\ max_depth \in Nat
  /\ trail \in Seq(Scans) /\ Len(trail) \in 1 .. Len(text) + 1
  /\ parser \in Parsers /\ parser.at <= Len(text)
  /\ broken \in BOOLEAN
  /\ deepest \in Nat

\* What json_depth is for: on a text that passed, the parser never has more
\* than max_json_depth brackets open, though the scanner knows neither which
\* bracket closes which nor what else is wrong with a text, and goes on
\* counting where the parser has long given up.
LimitBoundsParser ==
  verdict = "accepted" => deepest <= MaxDepth

\* And no more than that: a text the parser gets through that was refused for
\* its depth does nest too deep, whatever its strings hold.
RefusalIsRight ==
  (verdict = "too_deep" /\ ~broken /\ parser.at = Len(text)) => deepest > MaxDepth

\* Why that is so: the scanner and the parser agree character by character for
\* as long as the parser finds no fault, and both keep the maximum.
TrailFollowsText ==
  /\ trail[1] = Start
  /\ trail[Len(trail)] = scan
  /\ \A i \in 1 .. Len(trail) - 1 : trail[i + 1] = Step(trail[i], text[i])

MaximumIsReached ==
  /\ \A i \in 1 .. Len(trail) : trail[i].current <= max_depth
  /\ \E i \in 1 .. Len(trail) : trail[i].current = max_depth

ParserInStep ==
  /\ parser.at < Len(trail)
  /\ trail[parser.at + 1] =
       [mode |-> parser.mode, current |-> Len(parser.stack)]

DeepestIsReached ==
  /\ \A i \in 1 .. parser.at + 1 : trail[i].current <= deepest
  /\ \E i \in 1 .. parser.at + 1 : trail[i].current = deepest

JudgedInFull ==
  /\ verdict \in {"accepted", "too_deep"} => Len(trail) = Len(text) + 1
  /\ verdict = "accepted" => max_depth <= MaxDepth
  /\ verdict = "too_deep" => max_depth > MaxDepth

IInv ==
  /\ TypeOK
  /\ TrailFollowsText
  /\ MaximumIsReached
  /\ ParserInStep
  /\ DeepestIsReached
  /\ JudgedInFull
=============================================================================
