---------------------------- MODULE Parser_proofs ----------------------------
(***************************************************************************)
(* Proofs about the tokenizer and the parser on top of it, for any buffer  *)
(* size, texts, patterns and order of calls: nothing is overrun, a scan    *)
(* makes tokens of the current input only, skips nothing, locates them     *)
(* correctly and follows the grammar, and only blank texts are parsed.     *)
(***************************************************************************)
EXTENDS Parser, FiniteSetTheorems, WellFoundedInduction, TLAPS

-----------------------------------------------------------------------------
(* The inductive invariant *)

Loops == {"program", "parameters", "statements", "overrun"}

\* What the loop the parser is in says about its registers.
LoopInv ==
    /\ current = "PARSING" <=> at \in Loops
    /\ at = "scan" => current = "SCANNING"
    /\ at \notin Loops => token = 0
    /\ at \in Loops => token \in 1..Len(tokens) /\ nodes # <<>>
    /\ at = "program" => function = 0 /\ block = 0
    /\ at = "parameters" => function \in 2..Len(nodes) /\ block = 0
    /\ at = "statements" => function \in 2..Len(nodes) /\ block \in (function + 1)..Len(nodes)

\* parse_string passes nothing but white space, and comes to its loops at the
\* end of the buffer.
BlankInv ==
    /\ at \in Loops \cup {"scan"} =>
            accepted > 0 /\ \A k \in 0..(position - 1) : buffer[k] \in Space
    /\ at \in Loops => position >= BufferSize

Accepting == accepted > 0 /\ current # "DESTROYED"

(* What a scan has done, in terms of the buffer, the tokens and the place it *)
(* has come to.                                                              *)

Made(toks, b) == {i \in (b + 1)..Len(toks) : toks[i].type # "EOF"}
Breaks(buf, i) == {k \in 0..(i - 1) : Byte(buf, k) = "newline"}
Covers(t, k) == k \in t.start..(Past(t) - 1)

\* No token runs over a line end.
Whole(buf, toks, b, pos) ==
    \A k \in Breaks(buf, pos) : \A i \in Made(toks, b) : ~Covers(toks[i], k)

Located(buf, i, l, col) ==
    /\ l = 1 + Cardinality(Breaks(buf, i))
    /\ col = IF Breaks(buf, i) = {} THEN i + 1
             ELSE i - (CHOOSE k \in Breaks(buf, i) : \A m \in Breaks(buf, i) : m <= k)

InOrder(toks, b) == \A i, j \in Made(toks, b) : i < j => Past(toks[i]) <= toks[j].start

Covered(buf, toks, b, pos) ==
    \A k \in 0..(pos - 1) : buf[k] \in Space \/ \E i \in Made(toks, b) : Covers(toks[i], k)

\* The terminator at `acc` stops the scan, the tokens lie before the place it
\* has come to, and while there is room for tokens it knows that place.
Sound(buf, toks, b, acc, pos, l, col) ==
    /\ buf[acc] = "nul" /\ pos <= acc /\ b <= Len(toks)
    /\ \A i \in Made(toks, b) : Past(toks[i]) <= pos
    /\ InOrder(toks, b)
    /\ Len(toks) < Capacity => Covered(buf, toks, b, pos)
    /\ Whole(buf, toks, b, pos) /\ Len(toks) < Capacity => Located(buf, pos, l, col)
    /\ Whole(buf, toks, b, pos) =>
          \A i \in Made(toks, b) : Located(buf, toks[i].start, toks[i].line, toks[i].column)

ScanInv == Accepting => Sound(buffer, tokens, base, accepted, position, line, column)

IndInv == ParserTypeOK /\ LoopInv /\ BlankInv /\ ScanInv

-----------------------------------------------------------------------------
(* The patterns stop at the terminator *)

LEMMA LeastIndex ==
  ASSUME NEW S \in SUBSET Nat, S # {}
  PROVE  \E i \in S : \A j \in S : i <= j
<1>1. PICK i \in S : \A j \in S : ~(<<j, i>> \in OpToRel(<, Nat))
  BY NatLessThanWellFounded, WFMin
<1>2. \A j \in S : ~(j < i)
  BY <1>1 DEF OpToRel
<1>3. \A j \in S : i <= j
  BY <1>2
<1> QED
  BY <1>3

\* A byte from which on a pattern finds nothing.
Stop(z) == z \in Nat /\ z <= BufferSize + 1 /\ c(z) = "nul"

\* j is where a run of S that starts at i ends.
RunsTo(i, S, j) == c(j) \notin S /\ \A k \in i..(j - 1) : c(k) \in S

LEMMA RunEndBound ==
  ASSUME NEW z, Stop(z), NEW i \in 0..z, NEW S, "nul" \notin S
  PROVE  RunEnd(i, S) \in i..z /\ RunsTo(i, S, RunEnd(i, S))
<1>0. BufferSize \in Nat /\ z \in Nat /\ z <= BufferSize + 1 /\ c(z) = "nul" /\ i \in Nat /\ i <= z
  BY TokenizerAssumption DEF Stop
<1> DEFINE T == {j \in i..z : c(j) \notin S}
           e == RunEnd(i, S)
<1>1. PICK j \in T : \A k \in T : j <= k
  <2>1. T \in SUBSET Nat /\ z \in T
    BY <1>0
  <2> QED
    BY <2>1, LeastIndex
<1>2. j \in i..(BufferSize + 2) /\ RunsTo(i, S, j)
  <2>1. \A k \in i..(j - 1) : k \in i..z /\ ~(j <= k)
    BY <1>0
  <2> QED
    BY <1>0, <1>1, <2>1 DEF RunsTo
<1>3. e \in i..(BufferSize + 2) /\ RunsTo(i, S, e)
  BY <1>2 DEF RunEnd, RunsTo
<1> HIDE DEF e
<1>4. e <= z
  <2>1. SUFFICES ASSUME e > z PROVE FALSE
    BY <1>0, <1>3
  <2>2. z \in i..(e - 1)
    BY <1>0, <1>3, <2>1
  <2> QED
    BY <1>0, <1>3, <2>2 DEF RunsTo
<1> QED
  BY <1>0, <1>3, <1>4 DEF e

\* A match of len characters at i that ends by z.
Fits(len, i, z) == len \in Nat /\ i + len <= z

LEMMA IdentifierFits ==
  ASSUME NEW z, Stop(z), NEW i \in 0..z
  PROVE  /\ Fits(match_identifier(i), i, z)
         /\ match_identifier(i) > 0 => IsIdentifier(buffer, i, i + match_identifier(i))
<1> DEFINE e == RunEnd(i, Alpha \cup Digit)
<1>1. e \in i..z /\ RunsTo(i, Alpha \cup Digit, e)
  BY RunEndBound DEF Alpha, Digit
<1> HIDE DEF e
<1>2. z \in Nat /\ i \in Nat /\ i <= z
  BY DEF Stop
<1>3. match_identifier(i) = IF c(i) \in Alpha THEN e - i ELSE 0
  BY DEF match_identifier, e
<1>4. Fits(match_identifier(i), i, z)
  BY <1>1, <1>2, <1>3 DEF Fits
<1>5. ASSUME match_identifier(i) > 0
      PROVE  IsIdentifier(buffer, i, i + match_identifier(i))
  <2>1. c(i) \in Alpha /\ i + match_identifier(i) = e
    BY <1>1, <1>2, <1>3, <1>5
  <2> QED
    BY <1>1, <2>1 DEF IsIdentifier, All, RunsTo, c
<1> QED
  BY <1>4, <1>5

NumberBytes == Digit \cup {"+", ".", "e"}

\* The parts of a number follow each other: digits, a fraction, an exponent.
LEMMA NumberFits ==
  ASSUME NEW z, Stop(z), NEW i \in 0..z
  PROVE  /\ Fits(match_number(i), i, z)
         /\ match_number(i) > 0 => /\ IsNumber(buffer, i, i + match_number(i))
                                   /\ All(buffer, i, i + match_number(i), NumberBytes)
<1> DEFINE start == IF c(i) = "+" THEN i + 1 ELSE i
           whole == RunEnd(start, Digit)
           fraction == IF c(whole) = "." THEN RunEnd(whole + 1, Digit) ELSE whole
           exponent == IF c(fraction + 1) = "+" THEN fraction + 2 ELSE fraction + 1
           end == IF c(fraction) = "e" THEN RunEnd(exponent, Digit) ELSE fraction
           good == /\ c(start) \in Digit
                   /\ c(whole) = "." => c(whole + 1) \in Digit
                   /\ c(fraction) = "e" => c(exponent) \in Digit
<1>0. match_number(i) = IF good THEN end - i ELSE 0
  BY DEF match_number
<1>1. z \in Nat /\ i \in Nat /\ i <= z /\ c(z) = "nul"
  BY DEF Stop
<1>2. "nul" \notin Digit
  BY DEF Digit
<1>3. start \in i..z /\ (start = i \/ (start = i + 1 /\ c(i) = "+"))
  BY <1>1
<1> HIDE DEF start
<1>4. whole \in start..z /\ RunsTo(start, Digit, whole)
  <2>1. start \in 0..z
    BY <1>1, <1>3
  <2> QED
    BY <1>2, <2>1, RunEndBound
<1> HIDE DEF whole
<1>5. /\ fraction \in whole..z
      /\ c(fraction) \notin Digit
      /\ c(whole) = "." => fraction \in (whole + 1)..z /\ RunsTo(whole + 1, Digit, fraction)
      /\ c(whole) # "." => fraction = whole
  <2>1. CASE c(whole) = "."
    <3>1. whole + 1 \in 0..z
      BY <1>1, <1>3, <1>4, <2>1
    <3>2. /\ RunEnd(whole + 1, Digit) \in (whole + 1)..z
          /\ RunsTo(whole + 1, Digit, RunEnd(whole + 1, Digit))
      BY <1>2, <3>1, RunEndBound
    <3>3. fraction = RunEnd(whole + 1, Digit)
      BY <2>1
    <3> HIDE DEF fraction
    <3> QED
      BY <1>1, <1>3, <1>4, <2>1, <3>2, <3>3 DEF RunsTo
  <2>2. CASE c(whole) # "."
    BY <1>1, <1>3, <1>4, <2>2 DEF RunsTo
  <2> QED
    BY <2>1, <2>2
<1> HIDE DEF fraction
<1>6. /\ end \in fraction..z
      /\ c(end) \notin Digit
      /\ c(fraction) = "e" =>
            /\ exponent = fraction + 1 \/ (exponent = fraction + 2 /\ c(fraction + 1) = "+")
            /\ end \in exponent..z /\ RunsTo(exponent, Digit, end)
      /\ c(fraction) # "e" => end = fraction
  <2>1. CASE c(fraction) = "e"
    <3>1. fraction \in Nat /\ fraction + 1 \in 0..z
      BY <1>1, <1>3, <1>4, <1>5, <2>1
    <3>2. /\ exponent \in 0..z
          /\ exponent = fraction + 1 \/ (exponent = fraction + 2 /\ c(fraction + 1) = "+")
      BY <1>1, <3>1
    <3> HIDE DEF exponent
    <3>3. RunEnd(exponent, Digit) \in exponent..z /\ RunsTo(exponent, Digit, RunEnd(exponent, Digit))
      BY <1>2, <3>2, RunEndBound
    <3>4. end = RunEnd(exponent, Digit)
      BY <2>1
    <3> HIDE DEF end
    <3> QED
      BY <1>1, <2>1, <3>1, <3>2, <3>3, <3>4 DEF RunsTo
  <2>2. CASE c(fraction) # "e"
    BY <1>1, <1>3, <1>4, <1>5, <2>2
  <2> QED
    BY <2>1, <2>2
<1> HIDE DEF end, exponent
<1>7. /\ start \in Nat /\ whole \in Nat /\ fraction \in Nat /\ end \in Nat
      /\ i <= start /\ start <= whole /\ whole <= fraction /\ fraction <= end /\ end <= z
  BY <1>1, <1>3, <1>4, <1>5, <1>6
<1>8. Fits(match_number(i), i, z)
  BY <1>0, <1>1, <1>7 DEF Fits
<1>9. ASSUME match_number(i) > 0
      PROVE  IsNumber(buffer, i, end) /\ All(buffer, i, end, NumberBytes)
  <2> USE DEF c
  <2>1. good
    BY <1>0, <1>9
  <2>2. Digits(buffer, start, whole)
    BY <1>4, <1>7, <2>1 DEF Digits, All, RunsTo
  <2>3. Signed(buffer, i, whole)
    BY <1>3, <2>2 DEF Signed
  <2>4. c(whole) = "." => Digits(buffer, whole + 1, fraction)
    BY <1>5, <1>7, <2>1 DEF Digits, All, RunsTo
  <2>5. Mantissa(buffer, i, fraction)
    <3>1. whole \in i..fraction
      BY <1>1, <1>7
    <3> QED
      BY <1>5, <2>3, <2>4, <3>1 DEF Mantissa
  <2>6. c(fraction) = "e" => Digits(buffer, exponent, end) /\ exponent \in Nat
    BY <1>6, <1>7, <2>1 DEF Digits, All, RunsTo
  <2>7. c(fraction) = "e" => Signed(buffer, fraction + 1, end)
    <3>1. fraction + 2 = (fraction + 1) + 1
      BY <1>7
    <3> QED
      BY <1>6, <2>6, <3>1 DEF Signed
  <2>8. IsNumber(buffer, i, end)
    <3>1. fraction \in i..end
      BY <1>1, <1>7
    <3> QED
      BY <1>6, <2>5, <2>7, <3>1 DEF IsNumber
  <2>9. ASSUME NEW k \in i..(end - 1)
        PROVE  c(k) \in NumberBytes
    <3> USE DEF NumberBytes
    <3>1. CASE k < start
      BY <1>1, <1>3, <1>7, <3>1
    <3>2. CASE k \in start..(whole - 1)
      BY <2>2, <3>2 DEF Digits, All
    <3>3. CASE k = whole /\ whole < fraction
      BY <1>5, <1>7, <3>3
    <3>4. CASE k \in (whole + 1)..(fraction - 1)
      <4>1. c(whole) = "."
        BY <1>5, <1>7, <3>4
      <4> QED
        BY <2>4, <3>4, <4>1 DEF Digits, All
    <3>5. CASE k = fraction /\ fraction < end
      BY <1>6, <1>7, <3>5
    <3>6. CASE k = fraction + 1 /\ exponent = fraction + 2 /\ c(fraction) = "e"
      BY <1>6, <1>7, <3>6
    <3>7. CASE k \in exponent..(end - 1) /\ c(fraction) = "e"
      BY <2>6, <3>7 DEF Digits, All
    <3>8. \/ k < start \/ k \in start..(whole - 1) \/ (k = whole /\ whole < fraction)
          \/ k \in (whole + 1)..(fraction - 1) \/ (k = fraction /\ fraction < end)
          \/ k > fraction
      BY <1>1, <1>7
    <3>9. CASE k > fraction
      <4>1. c(fraction) = "e"
        BY <1>6, <1>7, <3>9
      <4>2. exponent = fraction + 1 \/ exponent = fraction + 2
        BY <1>6, <4>1
      <4>3. k \in exponent..(end - 1) \/ (k = fraction + 1 /\ exponent = fraction + 2)
        BY <1>1, <1>7, <3>9, <4>2
      <4> QED
        BY <3>6, <3>7, <4>1, <4>3
    <3> QED
      BY <3>1, <3>2, <3>3, <3>4, <3>5, <3>8, <3>9
  <2> QED
    BY <2>8, <2>9 DEF All
<1>10. match_number(i) > 0 => i + match_number(i) = end
  BY <1>0, <1>1, <1>7
<1> QED
  BY <1>8, <1>9, <1>10

\* Where a string that starts at i may stop, when `escaped` tells which of its
\* characters come after a backslash.
Stops(i, escaped) ==
    {j \in (i + 1)..(BufferSize + 2) : c(j) = "nul" \/ (c(j) = "quote" /\ ~escaped[j])}

StringEnd(i, escaped) ==
    CHOOSE j \in Stops(i, escaped) : \A k \in Stops(i, escaped) : j <= k

Escapes(i) ==
    CHOOSE f : f = [j \in (i + 1)..(BufferSize + 2) |->
                      j > i + 1 /\ c(j - 1) = "backslash" /\ ~f[j - 1]]

\* n backslashes come before k: as many as there are behind the quote at i.
Run(b, i, k, n) ==
    /\ n \in 1..(k - i - 1)
    /\ All(b, k - n, k, {"backslash"})
    /\ k - n - 1 = i \/ Byte(b, k - n - 1) # "backslash"

LEMMA EscapedRun ==
  ASSUME NEW b, NEW i, NEW k
  PROVE  Escaped(b, i, k) <=> \E n : Run(b, i, k, n) /\ n % 2 = 1
BY DEF Escaped, Run

\* A character after a backslash ends a run, which has one length.
LEMMA RunExists ==
  ASSUME NEW b, NEW i \in Nat, NEW k \in Nat, k > i + 1, Byte(b, k - 1) = "backslash"
  PROVE  \E n \in Nat : Run(b, i, k, n)
<1> DEFINE S == {n \in 1..(k - i - 1) : k - n - 1 = i \/ Byte(b, k - n - 1) # "backslash"}
<1>1. S \in SUBSET Nat /\ k - i - 1 \in S
  OBVIOUS
<1>2. PICK n \in S : \A m \in S : n <= m
  <2> HIDE DEF S
  <2> QED
    BY <1>1, LeastIndex
<1>3. n \in 1..(k - i - 1) /\ (k - n - 1 = i \/ Byte(b, k - n - 1) # "backslash")
  OBVIOUS
<1>4. ASSUME NEW j \in (k - n)..(k - 1)
      PROVE  Byte(b, j) = "backslash"
  <2>1. CASE j = k - 1
    BY <2>1
  <2>2. CASE j < k - 1
    <3> DEFINE m == k - j - 1
    <3>1. m \in 1..(k - i - 1) /\ m < n /\ k - m - 1 = j /\ m \in Nat
      BY <1>3, <2>2
    <3>2. m \notin S
      <4> HIDE DEF S, m
      <4> QED
        BY <1>2, <1>3, <3>1
    <3> QED
      BY <3>1, <3>2
  <2> QED
    BY <1>3, <2>1, <2>2
<1> QED
  BY <1>3, <1>4 DEF Run, All

LEMMA RunUnique ==
  ASSUME NEW b, NEW i \in Nat, NEW k \in Nat, NEW n, NEW m, Run(b, i, k, n), Run(b, i, k, m)
  PROVE  n = m
<1>1. n \in 1..(k - i - 1) /\ m \in 1..(k - i - 1)
  BY DEF Run
<1>2. ASSUME NEW x \in Nat, NEW y \in Nat, Run(b, i, k, x), Run(b, i, k, y), x < y
      PROVE  FALSE
  <2>1. k - x - 1 \in (k - y)..(k - 1) /\ k - x - 1 # i
    BY <1>2 DEF Run
  <2>2. Byte(b, k - x - 1) = "backslash"
    BY <1>2, <2>1 DEF Run, All
  <2> QED
    BY <1>2, <2>1, <2>2 DEF Run
<1>3. ~(n < m) /\ ~(m < n)
  BY <1>1, <1>2
<1> QED
  BY <1>1, <1>3

\* A run is one longer than the run that ends a character earlier.
LEMMA RunLonger ==
  ASSUME NEW b, NEW i \in Nat, NEW k \in Nat, k > i + 1, NEW n \in Nat,
         Byte(b, k - 1) = "backslash"
  PROVE  /\ Run(b, i, k - 1, n) => Run(b, i, k, n + 1)
         /\ Run(b, i, k, n + 1) /\ n > 0 => Run(b, i, k - 1, n)
<1>1. ASSUME Run(b, i, k - 1, n)
      PROVE  Run(b, i, k, n + 1)
  <2>1. n \in 1..((k - 1) - i - 1) /\ n + 1 \in 1..(k - i - 1)
    BY <1>1 DEF Run
  <2>2. k - (n + 1) = (k - 1) - n /\ k - (n + 1) - 1 = (k - 1) - n - 1
    OBVIOUS
  <2>3. \A j \in (k - (n + 1))..(k - 1) : j = k - 1 \/ j \in ((k - 1) - n)..((k - 1) - 1)
    BY <2>1
  <2>4. All(b, k - (n + 1), k, {"backslash"})
    BY <1>1, <2>3 DEF Run, All
  <2> QED
    BY <1>1, <2>1, <2>2, <2>4 DEF Run
<1>2. ASSUME Run(b, i, k, n + 1), n > 0
      PROVE  Run(b, i, k - 1, n)
  <2>1. n \in 1..((k - 1) - i - 1)
    BY <1>2 DEF Run
  <2>2. k - (n + 1) = (k - 1) - n /\ k - (n + 1) - 1 = (k - 1) - n - 1
    OBVIOUS
  <2>3. \A j \in ((k - 1) - n)..((k - 1) - 1) : j \in (k - (n + 1))..(k - 1)
    OBVIOUS
  <2>4. All(b, (k - 1) - n, k - 1, {"backslash"})
    BY <1>2, <2>3 DEF Run, All
  <2> QED
    BY <1>2, <2>1, <2>2, <2>4 DEF Run
<1> QED
  BY <1>1, <1>2

\* An odd number of backslashes: what the loop of match_string computes.
LEMMA EscapedStep ==
  ASSUME NEW b, NEW i \in Nat, NEW k \in Nat, k > i
  PROVE  Escaped(b, i, k) <=>
           k > i + 1 /\ Byte(b, k - 1) = "backslash" /\ ~Escaped(b, i, k - 1)
<1>0. \A n \in Nat : (n + 1) % 2 = 1 <=> n % 2 # 1
  OBVIOUS
<1>1. ASSUME Escaped(b, i, k)
      PROVE  k > i + 1 /\ Byte(b, k - 1) = "backslash" /\ ~Escaped(b, i, k - 1)
  <2>1. PICK n : Run(b, i, k, n) /\ n % 2 = 1
    BY <1>1, EscapedRun
  <2>2. n \in 1..(k - i - 1) /\ k - 1 \in (k - n)..(k - 1) /\ k > i + 1
    BY <2>1 DEF Run
  <2>3. Byte(b, k - 1) = "backslash"
    BY <2>1, <2>2 DEF Run, All
  <2>4. ASSUME NEW m, Run(b, i, k - 1, m), m % 2 = 1
        PROVE  FALSE
    <3>1. m \in Nat /\ n \in Nat
      BY <2>2, <2>4 DEF Run
    <3>2. Run(b, i, k, m + 1)
      BY <2>2, <2>3, <2>4, <3>1, RunLonger
    <3>3. n = m + 1
      BY <2>1, <3>2, RunUnique
    <3> QED
      BY <1>0, <2>1, <2>4, <3>1, <3>3
  <2> QED
    BY <2>2, <2>3, <2>4, EscapedRun
<1>2. ASSUME k > i + 1, Byte(b, k - 1) = "backslash", ~Escaped(b, i, k - 1)
      PROVE  Escaped(b, i, k)
  <2>1. PICK n \in Nat : Run(b, i, k, n)
    BY <1>2, RunExists
  <2>2. n - 1 \in Nat /\ n = (n - 1) + 1
    BY <2>1 DEF Run
  <2>3. CASE n = 1
    BY <2>1, <2>3, EscapedRun
  <2>4. CASE n # 1
    <3>1. Run(b, i, k - 1, n - 1)
      <4> DEFINE m == n - 1
      <4>1. m \in Nat /\ m > 0 /\ n = m + 1
        BY <2>2, <2>4
      <4> HIDE DEF m
      <4>2. Run(b, i, k - 1, m)
        BY <1>2, <2>1, <4>1, RunLonger
      <4> QED
        BY <4>2 DEF m
    <3>2. (n - 1) % 2 # 1
      BY <1>2, <3>1, EscapedRun
    <3>3. n % 2 = 1
      BY <1>0, <2>2, <3>2
    <3> QED
      BY <2>1, <3>3, EscapedRun
  <2> QED
    BY <2>3, <2>4
<1> QED
  BY <1>1, <1>2

LEMMA EscapesParity ==
  ASSUME NEW i \in Nat, BufferSize \in Nat
  PROVE  \A k \in (i + 1)..(BufferSize + 2) : Escapes(i)[k] <=> Escaped(buffer, i, k)
<1> DEFINE D == (i + 1)..(BufferSize + 2)
           Eq(f) == f = [j \in D |-> j > i + 1 /\ c(j - 1) = "backslash" /\ ~f[j - 1]]
           g == [j \in D |-> Escaped(buffer, i, j)]
<1>1. \A j \in D : Escaped(buffer, i, j) <=>
        j > i + 1 /\ c(j - 1) = "backslash" /\ ~Escaped(buffer, i, j - 1)
  BY EscapedStep DEF c
<1>2. \A j \in D : j > i + 1 => j - 1 \in D
  OBVIOUS
<1>3. Eq(g)
  <2>1. ASSUME NEW j \in D
        PROVE  g[j] = (j > i + 1 /\ c(j - 1) = "backslash" /\ ~g[j - 1])
    <3>1. Escaped(buffer, i, j) =
            (j > i + 1 /\ c(j - 1) = "backslash" /\ ~Escaped(buffer, i, j - 1))
      <4>1. Escaped(buffer, i, j) \in BOOLEAN
        BY DEF Escaped
      <4> QED
        BY <1>1, <4>1
    <3>2. j > i + 1 => g[j - 1] = Escaped(buffer, i, j - 1)
      BY <1>2
    <3> QED
      BY <3>1, <3>2
  <2> QED
    BY <2>1
<1>4. Eq(Escapes(i))
  <2>1. Escapes(i) = CHOOSE f : Eq(f)
    BY DEF Escapes
  <2> HIDE DEF Eq, g
  <2> QED
    BY <1>3, <2>1
<1> DEFINE f == Escapes(i)
<1>5. \A j \in D : f[j] = (j > i + 1 /\ c(j - 1) = "backslash" /\ ~f[j - 1])
  BY <1>4
<1> HIDE DEF f
<1> DEFINE Bad == {k \in D : ~(f[k] <=> Escaped(buffer, i, k))}
<1>6. ASSUME Bad # {} PROVE FALSE
  <2>1. Bad \in SUBSET Nat
    OBVIOUS
  <2>2. PICK k \in Bad : \A m \in Bad : k <= m
    <3> HIDE DEF Bad
    <3> QED
      BY <1>6, <2>1, LeastIndex
  <2>3. k \in D /\ k \in Nat /\ ~(f[k] <=> Escaped(buffer, i, k))
    OBVIOUS
  <2>4. CASE k > i + 1
    <3>1. k - 1 \in D /\ ~(k <= k - 1)
      BY <2>3, <2>4
    <3>2. f[k - 1] <=> Escaped(buffer, i, k - 1)
      BY <2>2, <3>1
    <3> QED
      BY <1>1, <1>5, <2>3, <3>2
  <2>5. CASE ~(k > i + 1)
    BY <1>1, <1>5, <2>3, <2>5
  <2> QED
    BY <2>4, <2>5
<1> QED
  BY <1>6 DEF f

LEMMA StringFits ==
  ASSUME NEW z, Stop(z), NEW i \in 0..z
  PROVE  /\ Fits(match_string(i), i, z)
         /\ match_string(i) > 0 => IsString(buffer, i, i + match_string(i))
<1> DEFINE esc == Escapes(i)
           T == Stops(i, esc)
           e == StringEnd(i, esc)
<1>1. match_string(i) = IF c(i) = "quote" /\ c(e) = "quote" THEN e + 1 - i ELSE 0
  BY DEF match_string, Escapes, StringEnd, Stops
<1>2. BufferSize \in Nat /\ z \in Nat /\ z <= BufferSize + 1 /\ c(z) = "nul" /\ i \in Nat /\ i <= z
  BY TokenizerAssumption DEF Stop
<1>3. \A k \in (i + 1)..(BufferSize + 2) : esc[k] <=> Escaped(buffer, i, k)
  BY <1>2, EscapesParity
<1> HIDE DEF esc
<1>4. CASE i = z
  BY <1>1, <1>2, <1>4 DEF Fits
<1>5. CASE i < z
  <2>1. z \in T /\ T \in SUBSET Nat
    BY <1>2, <1>5 DEF Stops
  <2>2. e \in T /\ \A k \in T : e <= k
    <3>1. \E j \in T : \A k \in T : j <= k
      BY <2>1, LeastIndex
    <3> QED
      BY <3>1 DEF StringEnd
  <2>3. e \in Nat /\ e >= i + 1 /\ e <= z
    BY <1>2, <2>1, <2>2 DEF Stops
  <2> HIDE DEF e
  <2>4. c(e) = "quote" => e + 1 <= z
    BY <1>2, <2>3
  <2>5. Fits(match_string(i), i, z)
    BY <1>1, <1>2, <2>3, <2>4 DEF Fits
  <2>6. ASSUME c(i) = "quote", c(e) = "quote"
        PROVE  IsString(buffer, i, e + 1)
    <3>1. ~Escaped(buffer, i, e)
      BY <1>3, <2>2, <2>6 DEF Stops
    <3>2. ASSUME NEW k \in (i + 1)..(e - 1), c(k) = "quote"
          PROVE  Escaped(buffer, i, k)
      <4>1. k \in (i + 1)..(BufferSize + 2) /\ ~(e <= k)
        BY <1>2, <2>3
      <4>2. k \notin T
        BY <2>2, <4>1
      <4> QED
        BY <1>3, <3>2, <4>1, <4>2 DEF Stops
    <3>3. (e + 1) - 1 = e /\ (e + 1) - 2 = e - 1 /\ e + 1 >= i + 2
      BY <1>2, <2>3
    <3> QED
      BY <2>6, <3>1, <3>2, <3>3 DEF IsString, c
  <2>7. match_string(i) > 0 =>
            c(i) = "quote" /\ c(e) = "quote" /\ i + match_string(i) = e + 1
    BY <1>1, <1>2, <2>3
  <2> QED
    BY <2>5, <2>6, <2>7
<1> QED
  BY <1>2, <1>4, <1>5

LEMMA OperatorFits ==
  ASSUME NEW z, Stop(z), NEW i \in 0..z
  PROVE  /\ Fits(match_operator(i), i, z) /\ Fits(match_separator(i), i, z)
         /\ match_operator(i) > 0 => IsOperator(buffer, i, i + match_operator(i))
<1>1. z \in Nat /\ i \in Nat /\ i <= z /\ c(z) = "nul"
  BY DEF Stop
<1>2. CASE i = z
  BY <1>1, <1>2 DEF match_operator, match_separator, Fits
<1>3. Fits(match_operator(i), i, z) /\ Fits(match_separator(i), i, z)
  <2>1. CASE i + 1 = z
    BY <1>1, <2>1 DEF match_operator, match_separator, Fits
  <2>2. CASE i + 1 < z
    BY <1>1, <2>2 DEF match_operator, match_separator, Fits
  <2> QED
    BY <1>1, <1>2, <2>1, <2>2
<1> DEFINE T1 == Text(buffer, i, i + 1)
           T2 == Text(buffer, i, i + 2)
           T3 == Text(buffer, i, i + 3)
<1>4. T1 = <<c(i)>> /\ T2 = <<c(i), c(i + 1)>>
  BY <1>1 DEF Text, c
<1>5. DOMAIN T3 = 1..3
  BY <1>1 DEF Text
<1>6. T3 \notin OperatorTexts
  <2> HIDE DEF T3
  <2> QED
    BY <1>5 DEF OperatorTexts
<1> HIDE DEF T1, T2, T3
<1>7. CASE match_operator(i) = 2
  <2>1. T2 \in OperatorTexts
    BY <1>4, <1>7 DEF match_operator, OperatorTexts
  <2>2. i + match_operator(i) = i + 2 /\ (i + match_operator(i)) + 1 = i + 3
    BY <1>1, <1>7
  <2> QED
    BY <1>3, <1>6, <2>1, <2>2 DEF IsOperator, T2, T3
<1>8. CASE match_operator(i) = 1
  <2>1. T1 \in OperatorTexts
    BY <1>4, <1>8 DEF match_operator, OperatorTexts
  <2>2. T2 \notin OperatorTexts
    BY <1>4, <1>8 DEF match_operator, OperatorTexts
  <2>3. i + match_operator(i) = i + 1 /\ (i + match_operator(i)) + 1 = i + 2
    BY <1>1, <1>8
  <2> QED
    BY <1>3, <2>1, <2>2, <2>3 DEF IsOperator, T1, T2
<1>9. match_operator(i) \in {0, 1, 2}
  BY DEF match_operator
<1> QED
  BY <1>3, <1>7, <1>8, <1>9

LEMMA MatchFits ==
  ASSUME NEW z, Stop(z), NEW i \in 0..z, NEW type
  PROVE  Fits(match(type, i), i, z)
<1>1. Fits(match_comment(i), i, z)
  BY DEF match_comment, Fits, Stop
<1> QED
  BY <1>1, IdentifierFits, NumberFits, StringFits, OperatorFits DEF match

\* The loop takes the first pattern that matches.
LEMMA FirstMatchProperties ==
  ASSUME NEW i, FirstMatch(i) # 0, ops \in Seq(Operation)
  PROVE  FirstMatch(i) \in DOMAIN ops /\ matched(ops[FirstMatch(i)].produces, i)
<1> DEFINE hits == {n \in DOMAIN ops : matched(ops[n].produces, i)}
<1>1. hits # {} /\ FirstMatch(i) = CHOOSE n \in hits : \A m \in hits : n <= m
  BY DEF FirstMatch
<1>0. DOMAIN ops = 1..Len(ops) /\ Len(ops) \in Nat
  OBVIOUS
<1>2. hits \subseteq DOMAIN ops
  OBVIOUS
<1> HIDE DEF hits
<1>3. \E n \in hits : \A m \in hits : n <= m
  <2>1. hits \in SUBSET Nat
    BY <1>0, <1>2
  <2> QED
    BY <1>1, <2>1, LeastIndex
<1> QED
  BY <1>1, <1>3 DEF hits

-----------------------------------------------------------------------------
(* The loop of polycall_token_filter *)

Loop(f, q, type, m) ==
    f = [n \in 0..m |-> IF n = 0 THEN <<>> ELSE Keep(f[n - 1], q[n], type)]

LEMMA LoopExists ==
  ASSUME NEW q, NEW type, NEW m \in Nat
  PROVE  \E f : Loop(f, q, type, m)
<1> DEFINE Bad == {k \in Nat : ~\E f : Loop(f, q, type, k)}
<1> SUFFICES ASSUME Bad # {} PROVE FALSE
  OBVIOUS
<1>1. PICK k \in Bad : \A j \in Bad : k <= j
  BY LeastIndex
<1>2. k \in Nat /\ ~\E f : Loop(f, q, type, k)
  OBVIOUS
<1>3. \A j \in Nat : j < k => \E f : Loop(f, q, type, j)
  BY <1>1, <1>2
<1> HIDE DEF Bad
<1>4. CASE k = 0
  <2> DEFINE f == [n \in 0..0 |-> <<>>]
  <2>1. Loop(f, q, type, 0)
    BY DEF Loop
  <2> QED
    BY <1>2, <1>4, <2>1
<1>5. CASE k # 0
  <2>1. k - 1 \in Nat /\ k - 1 < k
    BY <1>2, <1>5
  <2>2. PICK f : Loop(f, q, type, k - 1)
    BY <1>3, <2>1
  <2> DEFINE last == Keep(f[k - 1], q[k], type)
             g == [n \in 0..k |-> IF n < k THEN f[n] ELSE last]
             h == [n \in 0..k |-> IF n = 0 THEN <<>> ELSE Keep(g[n - 1], q[n], type)]
  <2>3. \A n \in 0..(k - 1) : f[n] = IF n = 0 THEN <<>> ELSE Keep(f[n - 1], q[n], type)
    BY <2>2 DEF Loop
  <2>4. g[k] = last /\ \A n \in 0..(k - 1) : g[n] = f[n]
    BY <1>2
  <2>5. \A n \in 0..k : g[n] = h[n]
    <3> TAKE n \in 0..k
    <3>1. CASE n = k
      BY <1>2, <1>5, <2>1, <2>4, <3>1
    <3>2. CASE n # k
      <4>1. n \in 0..(k - 1) /\ (n # 0 => n - 1 \in 0..(k - 1))
        BY <1>2, <3>2
      <4> HIDE DEF g
      <4> QED
        BY <2>3, <2>4, <4>1
    <3> QED
      BY <3>1, <3>2
  <2>6. Loop(g, q, type, k)
    <3> HIDE DEF last
    <3>1. g = h
      BY <2>5
    <3> HIDE DEF g
    <3> QED
      BY <3>1 DEF Loop
  <2> QED
    BY <1>2, <2>6
<1> QED
  BY <1>4, <1>5

LEMMA KeptProperties ==
  ASSUME NEW q \in Seq(Token), NEW type
  PROVE  Kept(q, type) \in Seq(Token) /\ Len(Kept(q, type)) <= Len(q)
<1> DEFINE f == CHOOSE g : Loop(g, q, type, Len(q))
           Bad == {n \in 0..Len(q) : ~(f[n] \in Seq(Token) /\ Len(f[n]) <= n)}
<1>1. Kept(q, type) = f[Len(q)]
  BY DEF Kept, Loop
<1>2. Len(q) \in Nat /\ \A n \in 1..Len(q) : q[n] \in Token
  OBVIOUS
<1>3. Loop(f, q, type, Len(q))
  BY <1>2, LoopExists
<1> HIDE DEF f
<1>4. \A n \in 0..Len(q) : f[n] = IF n = 0 THEN <<>> ELSE Keep(f[n - 1], q[n], type)
  BY <1>3 DEF Loop
<1>5. Bad = {}
  <2> SUFFICES ASSUME Bad # {} PROVE FALSE
    OBVIOUS
  <2>1. PICK k \in Bad : \A j \in Bad : k <= j
    <3>1. Bad \in SUBSET Nat
      BY <1>2
    <3> QED
      BY <3>1, LeastIndex
  <2>2. k \in 0..Len(q) /\ ~(f[k] \in Seq(Token) /\ Len(f[k]) <= k)
    OBVIOUS
  <2>3. CASE k = 0
    <3>1. <<>> \in Seq(Token) /\ Len(<<>>) = 0
      OBVIOUS
    <3>2. f[0] = <<>>
      BY <1>2, <1>4
    <3>3. f[k] = <<>> /\ Len(f[k]) <= k
      BY <2>3, <3>1, <3>2
    <3> QED
      BY <2>2, <3>1, <3>3
  <2>4. CASE k # 0
    <3>1. k - 1 \in 0..Len(q) /\ ~(k <= k - 1) /\ k \in 1..Len(q)
      BY <1>2, <2>2, <2>4
    <3>2. f[k - 1] \in Seq(Token) /\ Len(f[k - 1]) <= k - 1
      BY <2>1, <3>1
    <3>3. f[k] = Keep(f[k - 1], q[k], type) /\ q[k] \in Token
      BY <1>2, <1>4, <2>2, <2>4, <3>1
    <3>4. f[k] \in Seq(Token) /\ Len(f[k]) <= k
      BY <2>2, <3>1, <3>2, <3>3 DEF Keep
    <3> QED
      BY <2>2, <3>4
  <2> QED
    BY <2>3, <2>4
<1>6. f[Len(q)] \in Seq(Token) /\ Len(f[Len(q)]) <= Len(q)
  BY <1>2, <1>5
<1> QED
  BY <1>1, <1>6

-----------------------------------------------------------------------------
(* One turn of the scan *)

LEMMA BreaksFinite ==
  ASSUME NEW buf, NEW i \in Nat
  PROVE  IsFiniteSet(Breaks(buf, i)) /\ Cardinality(Breaks(buf, i)) \in Nat
<1>1. IsFiniteSet(0..(i - 1))
  BY FS_Interval
<1>2. Breaks(buf, i) \in SUBSET (0..(i - 1))
  BY DEF Breaks
<1>3. IsFiniteSet(Breaks(buf, i))
  BY <1>1, <1>2, FS_Subset
<1> QED
  BY <1>3, FS_CardinalityType

\* At the start of the buffer.
LEMMA LocatedStart ==
  ASSUME NEW buf
  PROVE  Breaks(buf, 0) = {} /\ Located(buf, 0, 1, 1)
<1>1. Breaks(buf, 0) = {}
  BY DEF Breaks
<1>2. Cardinality({}) = 0
  BY FS_EmptySet
<1> QED
  BY <1>1, <1>2 DEF Located

\* A stretch without a line end moves the column.
LEMMA LocatedAlong ==
  ASSUME NEW buf, NEW i \in Nat, NEW n \in Nat, NEW l, NEW col \in Nat, Located(buf, i, l, col),
         Breaks(buf, i + n) = Breaks(buf, i)
  PROVE  Located(buf, i + n, l, col + n)
<1> DEFINE B == Breaks(buf, i)
           last == CHOOSE k \in B : \A m \in B : m <= k
<1>1. l = 1 + Cardinality(B) /\ col = IF B = {} THEN i + 1 ELSE i - last
  BY DEF Located
<1>2. Breaks(buf, i + n) = B
  OBVIOUS
<1>3. B # {} => last \in Int
  <2> SUFFICES ASSUME B # {} PROVE last \in Int
    OBVIOUS
  <2>1. \E k \in B : \A m \in B : m <= k
    <3> DEFINE R == {i - k : k \in B}
    <3>1. B \subseteq 0..(i - 1)
      BY DEF Breaks
    <3> HIDE DEF B
    <3>2. R \in SUBSET Nat /\ R # {}
      <4>1. \A k \in B : i - k \in Nat
        BY <3>1
      <4>2. PICK k \in B : TRUE
        OBVIOUS
      <4>3. i - k \in R
        OBVIOUS
      <4> QED
        BY <4>1, <4>3
    <3>3. PICK r \in R : \A s \in R : r <= s
      BY <3>2, LeastIndex
    <3>4. PICK k \in B : r = i - k
      BY <3>3
    <3>5. ASSUME NEW m \in B PROVE m <= k
      <4>1. i - m \in R
        OBVIOUS
      <4>2. i - k <= i - m
        BY <3>3, <3>4, <4>1
      <4>3. k \in Int /\ m \in Int
        BY <3>1
      <4> QED
        BY <4>2, <4>3
    <3> QED
      BY <3>5
  <2>2. last \in B
    BY <2>1
  <2> QED
    BY <2>2 DEF Breaks
<1> HIDE DEF last, B
<1>4. col + n = IF B = {} THEN (i + n) + 1 ELSE (i + n) - last
  BY <1>1, <1>3
<1> QED
  BY <1>1, <1>2, <1>4 DEF Located, last

\* A line end starts a new line.
LEMMA LocatedBreak ==
  ASSUME NEW buf, NEW i \in Nat, NEW l \in Nat, NEW col, Located(buf, i, l, col),
         Byte(buf, i) = "newline"
  PROVE  Located(buf, i + 1, l + 1, 1)
<1> DEFINE B == Breaks(buf, i)
           D == Breaks(buf, i + 1)
           last == CHOOSE k \in D : \A m \in D : m <= k
<1>1. D = B \cup {i} /\ i \notin B /\ \A m \in D : m \in Int /\ m <= i
  BY DEF Breaks
<1>2. IsFiniteSet(B) /\ Cardinality(B) \in Nat
  BY BreaksFinite
<1>3. l = 1 + Cardinality(B)
  BY DEF Located
<1> HIDE DEF B, D
<1>4. Cardinality(D) = Cardinality(B) + 1
  BY <1>1, <1>2, FS_AddElement
<1>5. last = i
  <2>1. i \in D /\ \A m \in D : m <= i
    BY <1>1
  <2>2. last \in D /\ \A m \in D : m <= last
    BY <2>1
  <2>3. last \in Int /\ last <= i /\ i <= last
    BY <1>1, <2>1, <2>2
  <2> QED
    BY <2>3
<1> HIDE DEF last
<1>6. 1 = IF D = {} THEN (i + 1) + 1 ELSE (i + 1) - last
  BY <1>1, <1>5
<1>7. l + 1 = 1 + Cardinality(D)
  BY <1>2, <1>3, <1>4
<1> QED
  BY <1>6, <1>7 DEF Located, D, last

LEMMA TokenNumbers ==
  ASSUME NEW t \in Token
  PROVE  t.start \in Nat /\ t.length \in Nat /\ t.line \in Nat /\ t.column \in Nat
         /\ Past(t) \in Nat
BY DEF Token, Past

\* A new input, or a reset.
LEMMA SoundStart ==
  ASSUME NEW buf, NEW toks \in Seq(Token), NEW acc \in Nat, buf[acc] = "nul"
  PROVE  Sound(buf, toks, Len(toks), acc, 0, 1, 1)
<1>1. Len(toks) \in Nat
  OBVIOUS
<1>2. Made(toks, Len(toks)) = {}
  BY <1>1 DEF Made
<1> QED
  BY <1>1, <1>2, LocatedStart DEF Sound, InOrder, Covered

\* A space or a line end.
LEMMA SoundSpace ==
  ASSUME NEW buf, NEW toks \in Seq(Token), NEW b \in Nat, NEW acc \in 0..BufferSize,
         NEW pos \in Nat, NEW l \in Nat, NEW col \in Nat,
         Sound(buf, toks, b, acc, pos, l, col), Byte(buf, pos) \in Space,
         NEW l1, NEW col1,
         IF Byte(buf, pos) = "newline" THEN l1 = l + 1 /\ col1 = 1
                                       ELSE l1 = l /\ col1 = col + 1
  PROVE  Sound(buf, toks, b, acc, pos + 1, l1, col1)
<1>0. BufferSize \in Nat
  BY TokenizerAssumption
<1>1. buf[acc] = "nul" /\ pos <= acc /\ b <= Len(toks) /\ Byte(buf, pos) = buf[pos]
  BY <1>0 DEF Sound, Byte
<1>2. pos # acc
  BY <1>1 DEF Space
<1>3. pos + 1 <= acc
  BY <1>1, <1>2
<1>4. \A i \in Made(toks, b) : Past(toks[i]) \in Nat /\ Past(toks[i]) <= pos
  BY TokenNumbers DEF Sound, Made
<1>5. Breaks(buf, pos) \subseteq Breaks(buf, pos + 1)
  BY DEF Breaks
<1>6. Whole(buf, toks, b, pos + 1) => Whole(buf, toks, b, pos)
  BY <1>5 DEF Whole
<1>7. Covered(buf, toks, b, pos) => Covered(buf, toks, b, pos + 1)
  <2> SUFFICES ASSUME Covered(buf, toks, b, pos), NEW k \in 0..((pos + 1) - 1)
               PROVE  buf[k] \in Space \/ \E i \in Made(toks, b) : Covers(toks[i], k)
    BY DEF Covered
  <2>1. k = pos \/ k \in 0..(pos - 1)
    OBVIOUS
  <2> QED
    BY <1>1, <2>1 DEF Covered
<1>8. Located(buf, pos, l, col) => Located(buf, pos + 1, l1, col1)
  <2>1. CASE Byte(buf, pos) = "newline"
    BY <2>1, LocatedBreak
  <2>2. CASE Byte(buf, pos) # "newline"
    <3>1. Breaks(buf, pos + 1) = Breaks(buf, pos)
      BY <2>2 DEF Breaks
    <3> QED
      BY <2>2, <3>1, LocatedAlong
  <2> QED
    BY <2>1, <2>2
<1>9. \A i \in Made(toks, b) : Past(toks[i]) <= pos + 1
  BY <1>4
<1> QED
  BY <1>1, <1>3, <1>6, <1>7, <1>8, <1>9 DEF Sound

\* The entry that Add appends is the last, and the others stay.
Grown(toks1, toks, t, b) ==
    /\ Len(toks) \in Nat /\ Len(toks1) = Len(toks) + 1 /\ toks1[Len(toks) + 1] = t
    /\ Made(toks1, b) = IF t.type = "EOF" THEN Made(toks, b)
                        ELSE Made(toks, b) \cup {Len(toks) + 1}
    /\ \A i \in Made(toks, b) : i \in 1..Len(toks) /\ toks1[i] = toks[i]

LEMMA Appended ==
  ASSUME NEW toks \in Seq(Token), NEW t \in Token, NEW b \in Nat, b <= Len(toks)
  PROVE  Grown(Append(toks, t), toks, t, b)
<1> DEFINE toks1 == Append(toks, t)
<1>1. /\ Len(toks) \in Nat /\ Len(toks1) = Len(toks) + 1
      /\ toks1[Len(toks) + 1] = t /\ \A i \in 1..Len(toks) : toks1[i] = toks[i]
  OBVIOUS
<1>2. \A i \in Made(toks, b) : i \in 1..Len(toks)
  BY <1>1 DEF Made
<1> HIDE DEF toks1
<1>3. \A i : i \in (b + 1)..Len(toks1) <=> i \in (b + 1)..Len(toks) \/ i = Len(toks) + 1
  BY <1>1
<1>4. \A i \in (b + 1)..Len(toks) : toks1[i] = toks[i]
  BY <1>1
<1>5. \A i : i \in Made(toks1, b) <=>
               i \in Made(toks, b) \/ (i = Len(toks) + 1 /\ t.type # "EOF")
  BY <1>1, <1>3, <1>4 DEF Made
<1> QED
  BY <1>1, <1>2, <1>5 DEF Grown, toks1

LEMMA CapacityType == Capacity \in Nat /\ Capacity > 0
<1>1. BufferSize \in Nat /\ TokenLimit \in Nat /\ TokenLimit > 0 /\ DefaultCapacity \in Nat \ {0}
  BY TokenizerAssumption
<1>2. \A a, d \in Nat : d > 0 => a \div d \in Nat
  OBVIOUS
<1> DEFINE n == BufferSize \div TokenLimit
<1>3. n \in Nat
  BY <1>1, <1>2
<1>4. Capacity = IF n = 0 THEN DefaultCapacity ELSE n
  BY DEF Capacity
<1> HIDE DEF n
<1> QED
  BY <1>1, <1>3, <1>4

\* The end-of-file token.
LEMMA SoundEnd ==
  ASSUME NEW buf, NEW toks \in Seq(Token), NEW b \in Nat, NEW acc, NEW pos, NEW l, NEW col,
         Sound(buf, toks, b, acc, pos, l, col),
         NEW t \in Token, t.type = "EOF", NEW toks1, toks1 = Append(toks, t)
  PROVE  Sound(buf, toks1, b, acc, pos, l, col)
<1>1. /\ Len(toks) \in Nat /\ Len(toks1) = Len(toks) + 1 /\ b <= Len(toks)
      /\ Made(toks1, b) = Made(toks, b)
      /\ \A i \in Made(toks, b) : toks1[i] = toks[i]
  <2>1. b <= Len(toks)
    BY DEF Sound
  <2>2. Grown(toks1, toks, t, b)
    BY <2>1, Appended
  <2> QED
    BY <2>1, <2>2 DEF Grown
<1>2. Capacity \in Nat
  BY CapacityType
<1>3. Len(toks1) < Capacity => Len(toks) < Capacity
  BY <1>1, <1>2
<1>4. InOrder(toks1, b) <=> InOrder(toks, b)
  BY <1>1 DEF InOrder
<1>5. Covered(buf, toks1, b, pos) <=> Covered(buf, toks, b, pos)
  BY <1>1 DEF Covered
<1>6. Whole(buf, toks1, b, pos) <=> Whole(buf, toks, b, pos)
  BY <1>1 DEF Whole
<1>7. b <= Len(toks1)
  BY <1>1
<1> QED
  BY <1>1, <1>3, <1>4, <1>5, <1>6, <1>7 DEF Sound

\* A token, which is dropped when the array is full.
LEMMA SoundToken ==
  ASSUME NEW buf, NEW toks \in Seq(Token), NEW b \in Nat, NEW acc \in 0..BufferSize,
         NEW pos \in Nat, NEW l \in Nat, NEW col \in Nat, NEW len \in Nat,
         Sound(buf, toks, b, acc, pos, l, col), pos + len <= acc,
         NEW t \in Token, t.type # "EOF", t.start = pos, t.length = len, t.line = l, t.column = col,
         NEW toks1, toks1 = IF Len(toks) < Capacity THEN Append(toks, t) ELSE toks
  PROVE  Sound(buf, toks1, b, acc, pos + len, l, col + len)
<1>0. Capacity \in Nat /\ BufferSize \in Nat /\ acc \in Nat /\ Past(t) = pos + len
  BY CapacityType, TokenizerAssumption DEF Past
<1>1. /\ buf[acc] = "nul" /\ b <= Len(toks)
      /\ \A i \in Made(toks, b) : Past(toks[i]) \in Nat /\ Past(toks[i]) <= pos
      /\ \A i \in Made(toks, b) : toks[i].start \in Nat
  BY TokenNumbers DEF Sound, Made
<1>2. Breaks(buf, pos) \subseteq Breaks(buf, pos + len)
  BY DEF Breaks
<1>3. \A i \in Made(toks, b) : Past(toks[i]) <= pos + len
  BY <1>1
<1>4. CASE ~(Len(toks) < Capacity)
  <2>1. toks1 = toks
    BY <1>4
  <2>2. Whole(buf, toks, b, pos + len) => Whole(buf, toks, b, pos)
    BY <1>2 DEF Whole
  <2> QED
    BY <1>1, <1>3, <1>4, <2>1, <2>2 DEF Sound
<1>5. CASE Len(toks) < Capacity
  <2> DEFINE n == Len(toks) + 1
  <2>0. /\ Len(toks) \in Nat /\ Len(toks1) = n /\ toks1[n] = t
        /\ Made(toks1, b) = Made(toks, b) \cup {n}
        /\ \A i \in Made(toks, b) : i \in 1..Len(toks) /\ toks1[i] = toks[i]
    <3>1. Grown(toks1, toks, t, b)
      BY <1>1, <1>5, Appended
    <3> QED
      BY <3>1 DEF Grown
  <2>1. b <= Len(toks1) /\ \A i \in Made(toks, b) : i < n /\ i \in Nat
    BY <1>1, <2>0
  <2> HIDE DEF n
  <2>2. \A i \in Made(toks1, b) : Past(toks1[i]) <= pos + len
    BY <1>0, <1>3, <2>0
  <2>3. InOrder(toks1, b)
    <3> SUFFICES ASSUME NEW i \in Made(toks1, b), NEW j \in Made(toks1, b), i < j
                 PROVE  Past(toks1[i]) <= toks1[j].start
      BY DEF InOrder
    <3>1. i \in Made(toks, b)
      BY <2>0, <2>1
    <3>2. CASE j = n
      BY <1>1, <2>0, <3>1, <3>2
    <3>3. CASE j # n
      BY <2>0, <3>1, <3>3 DEF Sound, InOrder
    <3> QED
      BY <3>2, <3>3
  <2>4. Covered(buf, toks1, b, pos + len)
    <3> SUFFICES ASSUME NEW k \in 0..((pos + len) - 1)
                 PROVE  buf[k] \in Space \/ \E i \in Made(toks1, b) : Covers(toks1[i], k)
      BY DEF Covered
    <3>1. CASE k \in 0..(pos - 1)
      <4>1. Covered(buf, toks, b, pos)
        BY <1>5 DEF Sound
      <4> QED
        BY <2>0, <3>1, <4>1 DEF Covered
    <3>2. CASE k \in pos..((pos + len) - 1)
      <4>1. Covers(t, k)
        BY <1>0, <3>2 DEF Covers
      <4> QED
        BY <2>0, <4>1
    <3>3. k \in 0..(pos - 1) \/ k \in pos..((pos + len) - 1)
      OBVIOUS
    <3> QED
      BY <3>1, <3>2, <3>3
  <2>5. ASSUME Whole(buf, toks1, b, pos + len)
        PROVE  /\ Located(buf, pos + len, l, col + len)
               /\ \A i \in Made(toks1, b) :
                    Located(buf, toks1[i].start, toks1[i].line, toks1[i].column)
    <3>1. Whole(buf, toks, b, pos)
      BY <1>2, <2>0, <2>5 DEF Whole
    <3>2. Located(buf, pos, l, col)
      BY <1>5, <3>1 DEF Sound
    <3>3. Breaks(buf, pos + len) = Breaks(buf, pos)
      <4> SUFFICES ASSUME NEW k \in Breaks(buf, pos + len) PROVE k \in Breaks(buf, pos)
        BY <1>2
      <4>1. ~Covers(t, k)
        BY <2>0, <2>5 DEF Whole
      <4>2. k \in 0..((pos + len) - 1) /\ Byte(buf, k) = "newline"
        BY DEF Breaks
      <4>3. k \in 0..(pos - 1)
        BY <1>0, <4>1, <4>2 DEF Covers
      <4> QED
        BY <4>2, <4>3 DEF Breaks
    <3>4. Located(buf, pos + len, l, col + len)
      BY <3>2, <3>3, LocatedAlong
    <3>5. \A i \in Made(toks, b) : Located(buf, toks[i].start, toks[i].line, toks[i].column)
      BY <3>1 DEF Sound
    <3> QED
      BY <2>0, <3>2, <3>4, <3>5
  <2> QED
    BY <1>1, <2>1, <2>2, <2>3, <2>4, <2>5 DEF Sound
<1> QED
  BY <1>4, <1>5

-----------------------------------------------------------------------------
(* The node pool *)

\* A node is taken from the pool.
LEMMA PoolGrows ==
  ASSUME NEW pool \in Seq(Node), NEW type \in NodeTypes, NEW p \in Nat
  PROVE  /\ Append(pool, New(type, p)) \in Seq(Node)
         /\ Len(Append(pool, New(type, p))) = Len(pool) + 1
<1>1. New(type, p) \in Node
  BY DEF New, Node
<1> QED
  BY <1>1

LEMMA NodeFields ==
  ASSUME NEW pool \in Seq(Node), NEW n \in DOMAIN pool
  PROVE  /\ pool[n] = [type |-> pool[n].type, parent |-> pool[n].parent,
                       children |-> pool[n].children]
         /\ pool[n].type \in NodeTypes /\ pool[n].parent \in Nat /\ pool[n].children \in Nat
<1>1. pool[n] \in Node
  OBVIOUS
<1> QED
  BY <1>1 DEF Node

\* A node counts one more child.
LEMMA PoolAdopts ==
  ASSUME NEW pool \in Seq(Node), NEW p \in DOMAIN pool
  PROVE  Adopt(pool, p) \in Seq(Node) /\ Len(Adopt(pool, p)) = Len(pool)
<1> DEFINE e == [pool[p] EXCEPT !.children = @ + 1]
           r == [pool EXCEPT ![p] = e]
<1>1. Adopt(pool, p) = r
  BY DEF Adopt
<1>2. /\ pool[p] = [type |-> pool[p].type, parent |-> pool[p].parent,
                    children |-> pool[p].children]
      /\ pool[p].type \in NodeTypes /\ pool[p].parent \in Nat /\ pool[p].children \in Nat
  BY NodeFields
<1>3. e = [type |-> pool[p].type, parent |-> pool[p].parent, children |-> pool[p].children + 1]
  BY <1>2
<1>4. e \in Node
  BY <1>2, <1>3 DEF Node
<1> HIDE DEF e
<1>5. r \in Seq(Node) /\ DOMAIN r = DOMAIN pool
  BY <1>4
<1> HIDE DEF r
<1> QED
  BY <1>1, <1>5

\* A node gets its parent.
LEMMA PoolLinks ==
  ASSUME NEW pool \in Seq(Node), NEW x \in DOMAIN pool, NEW p \in Nat
  PROVE  /\ [pool EXCEPT ![x].parent = p] \in Seq(Node)
         /\ Len([pool EXCEPT ![x].parent = p]) = Len(pool)
<1> DEFINE e == [pool[x] EXCEPT !.parent = p]
           r == [pool EXCEPT ![x] = e]
<1>1. [pool EXCEPT ![x].parent = p] = r
  OBVIOUS
<1>2. /\ pool[x] = [type |-> pool[x].type, parent |-> pool[x].parent,
                    children |-> pool[x].children]
      /\ pool[x].type \in NodeTypes /\ pool[x].children \in Nat
  BY NodeFields
<1>3. e = [type |-> pool[x].type, parent |-> p, children |-> pool[x].children]
  BY <1>2
<1>4. e \in Node
  BY <1>2, <1>3 DEF Node
<1> HIDE DEF e
<1>5. r \in Seq(Node) /\ DOMAIN r = DOMAIN pool
  BY <1>4
<1> HIDE DEF r
<1> QED
  BY <1>1, <1>5

\* A child is stored in the array of its parent, or behind it.
LEMMA PoolStores ==
  ASSUME NEW pool \in Seq(Node), NEW p \in DOMAIN pool, NEW loop, Store(pool, p, loop)
  PROVE  nodes' \in Seq(Node) /\ Len(nodes') = Len(pool) /\ at' \in {loop, "overrun"}
<1>1. \/ nodes' = Adopt(pool, p) /\ at' = loop
      \/ nodes' = pool /\ at' = "overrun"
  BY DEF Store
<1> QED
  BY <1>1, PoolAdopts

-----------------------------------------------------------------------------
(* The steps of the tokenizer *)

\* The part of ParserTypeOK that is about the parser.
RegisterTypes ==
    /\ at \in {"none", "scan", "program", "parameters", "statements", "overrun"}
    /\ nodes \in Seq(Node) /\ Len(nodes) <= MaxNodes
    /\ token \in 0..Len(tokens) /\ next \in Nat
    /\ function \in 0..MaxNodes /\ block \in 0..MaxNodes
    /\ returned \in {"none", "null", "ast"}

LEMMA TypeParts == ParserTypeOK <=> TTypeOK /\ RegisterTypes
BY DEF ParserTypeOK, RegisterTypes

LEMMA TypePartsNext == TTypeOK' /\ RegisterTypes' => ParserTypeOK'
BY DEF ParserTypeOK, RegisterTypes

\* The tokenizer is used while the parser does not run.
LEMMA RegistersRest ==
  ASSUME IndInv, at \notin Loops, at # "scan", UNCHANGED <<parsing, returned>>,
         current' # "PARSING", tokens' \in Seq(Token)
  PROVE  RegisterTypes' /\ LoopInv' /\ BlankInv'
<1>1. RegisterTypes /\ LoopInv /\ BlankInv
  BY TypeParts DEF IndInv
<1>2. UNCHANGED <<at, token, next, nodes, function, block, returned>>
  BY DEF parsing
<1>3. token = 0 /\ Len(tokens') \in Nat
  BY <1>1 DEF LoopInv
<1>4. RegisterTypes'
  BY <1>1, <1>2, <1>3 DEF RegisterTypes
<1>5. LoopInv'
  BY <1>1, <1>2, <1>3 DEF LoopInv
<1>6. BlankInv'
  BY <1>1, <1>2 DEF BlankInv
<1> QED
  BY <1>4, <1>5, <1>6

\* The scan has not moved.
LEMMA ScanSame ==
  ASSUME ScanInv, UNCHANGED <<place, tokens, accepted, base>>,
         current = "DESTROYED" => current' = "DESTROYED"
  PROVE  ScanInv'
BY DEF ScanInv, Accepting, place

\* set_input and parse_string with an input that fits.
LEMMA InputAccepted ==
  ASSUME TTypeOK, NEW input \in Seq(Chars), Len(input) > 0, Len(input) <= BufferSize,
         buffer' = Filled(input), position' = 0, line' = 1, column' = 1,
         accepted' = Len(input), base' = Len(tokens), tokens' = tokens
  PROVE  /\ ScanInv' /\ buffer' \in [0..BufferSize -> Chars]
         /\ position' \in Nat /\ line' \in Nat /\ column' \in Nat
         /\ accepted' \in 0..BufferSize /\ base' \in Nat
<1>1. BufferSize \in Nat /\ Len(input) \in Nat /\ \A i \in 1..Len(input) : input[i] \in Chars
  BY TokenizerAssumption
<1>2. buffer \in [0..BufferSize -> Chars] /\ tokens \in Seq(Token) /\ Len(tokens) \in Nat
  BY DEF TTypeOK
<1>3. "nul" \in Chars
  BY DEF Chars
<1>4. Filled(input) \in [0..BufferSize -> Chars]
  <2>1. \A i \in 0..BufferSize : i < Len(input) => input[i + 1] \in Chars
    BY <1>1
  <2> QED
    BY <1>2, <1>3, <2>1 DEF Filled
<1>5. Filled(input)[Len(input)] = "nul"
  BY <1>1 DEF Filled
<1>6. Sound(buffer', tokens', base', accepted', position', line', column')
  BY <1>1, <1>2, <1>5, SoundStart
<1> QED
  BY <1>1, <1>2, <1>4, <1>6 DEF ScanInv

LEMMA CallTypes ==
  ASSUME TTypeOK, NEW name, Call(name)
  PROVE  calls' \in 0..Len(Calls) /\ current # "DESTROYED" /\ current # "PARSING"
BY TokenizerAssumption DEF TTypeOK, Call, Idle

LEMMA ApiStep ==
  ASSUME IndInv, Api
  PROVE  TTypeOK' /\ ScanInv' /\ current # "PARSING" /\ current' # "PARSING"
<1> USE DEF place
<1>1. TTypeOK /\ ScanInv
  BY TypeParts DEF IndInv
<1>2. ASSUME NEW n \in DOMAIN Inputs, NEW i \in Inputs[n], SetInput(i)
      PROVE  TTypeOK' /\ ScanInv' /\ current # "PARSING" /\ current' # "PARSING"
  <2>0. i \in Seq(Chars) /\ BufferSize \in Nat /\ Len(i) \in Nat
    BY TextAssumption, TokenizerAssumption
  <2>1. calls' \in 0..Len(Calls) /\ current # "DESTROYED" /\ current # "PARSING"
    BY <1>1, <1>2, CallTypes DEF SetInput
  <2>2. CASE Len(i) > BufferSize
    <3>1. current' = "ERROR" /\ UNCHANGED <<place, accepted, base, tokens, ops, derived>>
      BY <1>2, <2>2 DEF SetInput, set_input
    <3>2. ScanInv'
      BY <1>1, <2>1, <3>1, ScanSame
    <3>3. TTypeOK'
      BY <1>1, <2>1, <3>1 DEF TTypeOK
    <3> QED
      BY <2>1, <3>1, <3>2, <3>3
  <2>3. CASE Len(i) <= BufferSize
    <3>1. /\ Len(i) > 0 /\ current' = "READY" /\ UNCHANGED <<tokens, ops, derived>>
          /\ buffer' = Filled(i) /\ position' = 0 /\ line' = 1 /\ column' = 1
          /\ accepted' = Len(i) /\ base' = Len(tokens)
      BY <1>2, <2>0, <2>3 DEF SetInput, set_input
    <3>2. /\ ScanInv' /\ buffer' \in [0..BufferSize -> Chars]
          /\ position' \in Nat /\ line' \in Nat /\ column' \in Nat
          /\ accepted' \in 0..BufferSize /\ base' \in Nat
      BY <1>1, <2>0, <2>3, <3>1, InputAccepted
    <3>3. TTypeOK'
      BY <1>1, <2>1, <3>1, <3>2 DEF TTypeOK
    <3> QED
      BY <2>1, <3>1, <3>2, <3>3
  <2> QED
    BY <2>0, <2>2, <2>3
<1>3. ASSUME NEW o \in OpsChoices, Process(o)
      PROVE  TTypeOK' /\ ScanInv' /\ current # "PARSING" /\ current' # "PARSING"
  <2>1. calls' \in 0..Len(Calls) /\ current # "DESTROYED" /\ current # "PARSING"
    BY <1>1, <1>3, CallTypes DEF Process
  <2>2. /\ ops' = o /\ current' = "SCANNING" /\ UNCHANGED <<place, tokens, accepted, base, derived>>
    BY <1>3 DEF Process
  <2>3. o \in Seq(Operation)
    BY TextAssumption
  <2>4. ScanInv'
    BY <1>1, <2>1, <2>2, ScanSame
  <2>5. TTypeOK'
    BY <1>1, <2>1, <2>2, <2>3 DEF TTypeOK
  <2> QED
    BY <2>1, <2>2, <2>4, <2>5
<1>4. CASE Reset
  <2>1. calls' \in 0..Len(Calls) /\ current # "DESTROYED" /\ current # "PARSING"
    BY <1>1, <1>4, CallTypes DEF Reset
  <2>2. /\ position' = 0 /\ line' = 1 /\ column' = 1 /\ current' = "READY" /\ tokens' = <<>>
        /\ base' = 0 /\ UNCHANGED <<buffer, ops, accepted, derived>>
    BY <1>4 DEF Reset
  <2>3. <<>> \in Seq(Token) /\ Len(<<>>) = 0
    OBVIOUS
  <2>4. 0 <= Capacity
    BY CapacityType
  <2>5. TTypeOK'
    BY <1>1, <2>1, <2>2, <2>3, <2>4 DEF TTypeOK
  <2>6. ScanInv'
    <3> SUFFICES ASSUME accepted > 0
                 PROVE  Sound(buffer, <<>>, 0, accepted, 0, 1, 1)
      BY <2>2 DEF ScanInv, Accepting
    <3>1. buffer[accepted] = "nul"
      BY <1>1, <2>1 DEF ScanInv, Accepting, Sound
    <3>2. accepted \in Nat
      BY <1>1 DEF TTypeOK
    <3>3. Sound(buffer, <<>>, Len(<<>>), accepted, 0, 1, 1)
      BY <2>3, <3>1, <3>2, SoundStart
    <3> QED
      BY <2>3, <3>3
  <2> QED
    BY <2>1, <2>2, <2>5, <2>6
<1>5. ASSUME NEW d \in Seq(Token), Len(d) <= Capacity, NEW name, Call(name),
             derived' = d, UNCHANGED <<place, current, tokens, ops, accepted, base>>
      PROVE  TTypeOK' /\ ScanInv' /\ current # "PARSING" /\ current' # "PARSING"
  <2>1. calls' \in 0..Len(Calls) /\ current # "DESTROYED" /\ current # "PARSING"
    BY <1>1, <1>5, CallTypes
  <2>2. ScanInv'
    BY <1>1, <1>5, ScanSame
  <2>3. TTypeOK'
    BY <1>1, <1>5, <2>1 DEF TTypeOK
  <2> QED
    BY <1>5, <2>1, <2>2, <2>3
<1>6. tokens \in Seq(Token) /\ Len(tokens) <= Capacity /\ Len(tokens) \in Nat /\ Capacity \in Nat
  BY <1>1, CapacityType DEF TTypeOK
<1>7. ASSUME NEW type \in Filters, Filter(type)
      PROVE  TTypeOK' /\ ScanInv' /\ current # "PARSING" /\ current' # "PARSING"
  <2>1. Kept(tokens, type) \in Seq(Token) /\ Len(Kept(tokens, type)) <= Len(tokens)
    BY <1>6, KeptProperties
  <2>2. Len(Kept(tokens, type)) <= Capacity
    BY <1>6, <2>1
  <2> QED
    BY <1>5, <1>7, <2>1, <2>2 DEF Filter
<1>8. CASE Chain
  <2> DEFINE d == [i \in DOMAIN tokens |->
                     IF tokens[i].type = "IDENTIFIER"
                     THEN [tokens[i] EXCEPT !.type = "KEYWORD"] ELSE tokens[i]]
  <2>1. \A u \in Token : [u EXCEPT !.type = "KEYWORD"] \in Token
    BY DEF Token
  <2>2. d \in [1..Len(tokens) -> Token]
    BY <1>6, <2>1
  <2>3. d \in Seq(Token) /\ Len(d) = Len(tokens)
    <3> HIDE DEF d
    <3> QED
      BY <1>6, <2>2
  <2>4. Len(d) <= Capacity
    BY <1>6, <2>3
  <2>5. derived' = d /\ Call("chain") /\ UNCHANGED <<place, current, tokens, ops, accepted, base>>
    BY <1>8 DEF Chain
  <2> HIDE DEF d
  <2> QED
    BY <1>5, <2>3, <2>4, <2>5
<1>9. CASE DestroyDerived
  <2>1. <<>> \in Seq(Token) /\ Len(<<>>) <= Capacity
    BY <1>6, CapacityType
  <2> QED
    BY <1>5, <1>9, <2>1 DEF DestroyDerived
<1>10. CASE Destroy
  <2>1. calls' \in 0..Len(Calls) /\ current # "PARSING"
    BY <1>1, <1>10, CallTypes DEF Destroy
  <2>2. /\ current' = "DESTROYED" /\ tokens' = <<>>
        /\ UNCHANGED <<place, ops, accepted, base, derived>>
    BY <1>10 DEF Destroy
  <2>3. <<>> \in Seq(Token) /\ Len(<<>>) = 0 /\ 0 <= Capacity
    BY CapacityType
  <2>4. TTypeOK'
    BY <1>1, <2>1, <2>2, <2>3 DEF TTypeOK
  <2> QED
    BY <2>1, <2>2, <2>4 DEF ScanInv, Accepting
<1> QED
  BY <1>2, <1>3, <1>4, <1>7, <1>8, <1>9, <1>10 DEF Api

LEMMA ValueType ==
  ASSUME NEW type \in Types \cup {"EOF"}, NEW start
  PROVE  value_type(type, start) \in {"IDENTIFIER", "STRING", "INTEGER", "FLOAT", "NONE"}
BY DEF value_type, Types

LEMMA TokenCreated ==
  ASSUME TTypeOK, NEW type \in Types \cup {"EOF"}, NEW start \in Nat, NEW len \in Nat
  PROVE  create_token(type, start, len) \in Token
<1> DEFINE v == value_type(type, start)
<1>1. v \in {"IDENTIFIER", "STRING", "INTEGER", "FLOAT", "NONE"}
  BY ValueType
<1>2. line \in Nat /\ column \in Nat
  BY DEF TTypeOK
<1> HIDE DEF v
<1>3. [type |-> type, by |-> type, value |-> v, start |-> start, length |-> len,
       line |-> line, column |-> column] \in Token
  BY <1>1, <1>2 DEF Token
<1> QED
  BY <1>3 DEF create_token, v

LEMMA TokenConsumed ==
  ASSUME NEW op \in Operation, NEW u \in Token, u.type \in Types
  PROVE  /\ consume(op, u) \in Token /\ consume(op, u).type # "EOF"
         /\ consume(op, u).start = u.start /\ consume(op, u).length = u.length
         /\ consume(op, u).line = u.line /\ consume(op, u).column = u.column
         /\ consume(op, u).by = u.by /\ consume(op, u).value = u.value
<1>1. op.makes \in Types \cup {"KEYWORD"}
  BY DEF Operation
<1>2. CASE op.accepts = u.type
  <2> DEFINE m == op.makes
             w == [u EXCEPT !.type = m]
  <2>1. consume(op, u) = w
    BY <1>2 DEF consume
  <2> HIDE DEF m
  <2>2. m \in Types \cup {"KEYWORD"} /\ m # "EOF"
    BY <1>1 DEF m, Types
  <2>3. w \in Token /\ w.type = m /\ w.start = u.start /\ w.length = u.length
        /\ w.line = u.line /\ w.column = u.column /\ w.by = u.by /\ w.value = u.value
    BY <2>2 DEF Token
  <2> QED
    BY <2>1, <2>2, <2>3
<1>3. CASE op.accepts # u.type
  <2>1. consume(op, u) = u
    BY <1>3 DEF consume
  <2>2. "EOF" \notin Types
    BY DEF Types
  <2> QED
    BY <2>1, <2>2
<1> QED
  BY <1>2, <1>3

\* What Add does to the array.
LEMMA AddTypes ==
  ASSUME TTypeOK, NEW t \in Token, Add(t)
  PROVE  /\ tokens' \in Seq(Token) /\ Len(tokens') <= Capacity /\ Len(tokens') \in Nat
         /\ tokens' = IF Len(tokens) < Capacity THEN Append(tokens, t) ELSE tokens
         /\ tokens' # <<>>
<1>1. tokens \in Seq(Token) /\ Len(tokens) <= Capacity /\ Len(tokens) \in Nat
      /\ Capacity \in Nat /\ Capacity > 0
  BY CapacityType DEF TTypeOK
<1>2. tokens' = IF Len(tokens) < Capacity THEN Append(tokens, t) ELSE tokens
  BY DEF Add
<1>3. CASE Len(tokens) < Capacity
  BY <1>1, <1>2, <1>3
<1>4. CASE ~(Len(tokens) < Capacity)
  <2>1. tokens' = tokens /\ tokens # <<>>
    BY <1>1, <1>2, <1>4
  <2> QED
    BY <1>1, <1>2, <2>1
<1> QED
  BY <1>3, <1>4

LEMMA ByteAt == \A i : c(i) = Byte(buffer, i)
BY DEF c

LEMMA SpaceStep ==
  ASSUME TTypeOK, ScanInv, SkipSpace
  PROVE  TTypeOK' /\ ScanInv'
<1>1. /\ current = "SCANNING" /\ position < BufferSize /\ Byte(buffer, position) \in Space
      /\ position' = position + 1
      /\ IF Byte(buffer, position) = "newline" THEN line' = line + 1 /\ column' = 1
                                               ELSE line' = line /\ column' = column + 1
      /\ UNCHANGED <<buffer, current, tokens, ops, calls, accepted, base, derived>>
  BY ByteAt DEF SkipSpace, Scanning
<1>2. position \in Nat /\ line \in Nat /\ column \in Nat
      /\ tokens \in Seq(Token) /\ base \in Nat /\ accepted \in 0..BufferSize
  BY DEF TTypeOK
<1>3. position' \in Nat /\ line' \in Nat /\ column' \in Nat
  BY <1>1, <1>2
<1>4. TTypeOK'
  BY <1>1, <1>3 DEF TTypeOK
<1>5. ASSUME accepted > 0
      PROVE  Sound(buffer, tokens, base, accepted, position + 1, line', column')
  <2>1. Sound(buffer, tokens, base, accepted, position, line, column)
    BY <1>1, <1>5 DEF ScanInv, Accepting
  <2> QED
    BY <1>1, <1>2, <2>1, SoundSpace
<1>6. ScanInv'
  BY <1>1, <1>5 DEF ScanInv, Accepting
<1> QED
  BY <1>4, <1>6

LEMMA TokenStep ==
  ASSUME TTypeOK, ScanInv, ScanToken
  PROVE  TTypeOK' /\ ScanInv'
<1> DEFINE op == ops[FirstMatch(position)]
           len == match(op.produces, position)
           u == create_token(op.produces, position, len)
           t == consume(op, u)
<1>1. /\ current = "SCANNING" /\ position < BufferSize /\ FirstMatch(position) # 0
      /\ Add(t) /\ position' = position + len /\ column' = column + len
      /\ UNCHANGED <<buffer, line, current, ops, calls, accepted, base, derived>>
  BY DEF ScanToken, Scanning
<1>2. position \in Nat /\ line \in Nat /\ column \in Nat /\ BufferSize \in Nat
      /\ tokens \in Seq(Token) /\ base \in Nat /\ accepted \in 0..BufferSize
      /\ ops \in Seq(Operation)
  BY TokenizerAssumption DEF TTypeOK
<1>3. op \in Operation
  <2>1. FirstMatch(position) \in DOMAIN ops
    BY <1>1, <1>2, FirstMatchProperties
  <2> QED
    BY <1>2, <2>1
<1>4. op.produces \in Types
  BY <1>3 DEF Operation
<1>5. Fits(len, position, BufferSize + 1)
  <2>1. Stop(BufferSize + 1)
    BY <1>2 DEF Stop, c, Byte
  <2>2. position \in 0..(BufferSize + 1)
    BY <1>1, <1>2
  <2> QED
    BY <2>1, <2>2, MatchFits
<1>6. len \in Nat
  BY <1>5 DEF Fits
<1>7. u \in Token /\ u.type = op.produces /\ u.start = position /\ u.length = len
      /\ u.line = line /\ u.column = column
  <2>1. u \in Token
    BY <1>2, <1>4, <1>6, TokenCreated
  <2> QED
    BY <2>1 DEF create_token
<1>8. ASSUME accepted > 0
      PROVE  /\ Sound(buffer, tokens, base, accepted, position, line, column)
             /\ position + len <= accepted
  <2>1. Sound(buffer, tokens, base, accepted, position, line, column)
    BY <1>1, <1>8 DEF ScanInv, Accepting
  <2>2. buffer[accepted] = "nul" /\ position <= accepted
    BY <2>1 DEF Sound
  <2>3. Stop(accepted) /\ position \in 0..accepted
    BY <1>2, <2>2 DEF Stop, c, Byte
  <2>4. Fits(len, position, accepted)
    BY <2>3, MatchFits
  <2> QED
    BY <2>1, <2>4 DEF Fits
<1> HIDE DEF op, len, u
<1>9. t \in Token /\ t.type # "EOF" /\ t.start = position /\ t.length = len
      /\ t.line = line /\ t.column = column
  BY <1>3, <1>4, <1>7, TokenConsumed
<1> HIDE DEF t
<1>10. /\ tokens' \in Seq(Token) /\ Len(tokens') <= Capacity
       /\ tokens' = IF Len(tokens) < Capacity THEN Append(tokens, t) ELSE tokens
  BY <1>1, <1>9, AddTypes
<1>11. position' \in Nat /\ column' \in Nat
  BY <1>1, <1>2, <1>6
<1>12. TTypeOK'
  BY <1>1, <1>10, <1>11 DEF TTypeOK
<1>13. ASSUME accepted > 0
       PROVE  Sound(buffer, tokens', base, accepted, position + len, line, column + len)
  BY <1>2, <1>6, <1>8, <1>9, <1>10, <1>13, SoundToken
<1>14. ScanInv'
  BY <1>1, <1>13 DEF ScanInv, Accepting
<1> QED
  BY <1>12, <1>14

\* The end-of-file token joins the others.
LEMMA EofAdded ==
  ASSUME TTypeOK, ScanInv, Add(create_token("EOF", position, 0)), current' # "DESTROYED",
         current = "SCANNING", UNCHANGED <<place, accepted, base>>
  PROVE  /\ ScanInv' /\ tokens' \in Seq(Token) /\ Len(tokens') <= Capacity
         /\ Len(tokens') \in Nat /\ tokens' # <<>>
<1> DEFINE t == create_token("EOF", position, 0)
<1>1. position \in Nat /\ tokens \in Seq(Token) /\ base \in Nat
  BY DEF TTypeOK
<1>2. t \in Token /\ t.type = "EOF"
  <2>1. t \in Token
    BY <1>1, TokenCreated
  <2> QED
    BY <2>1 DEF create_token
<1> HIDE DEF t
<1>3. Add(t)
  BY DEF t
<1>4. /\ tokens' \in Seq(Token) /\ Len(tokens') <= Capacity
      /\ Len(tokens') \in Nat /\ tokens' # <<>>
      /\ tokens' = IF Len(tokens) < Capacity THEN Append(tokens, t) ELSE tokens
  BY <1>2, <1>3, AddTypes
<1>5. ASSUME accepted > 0
      PROVE  Sound(buffer, tokens', base, accepted, position, line, column)
  <2>1. Sound(buffer, tokens, base, accepted, position, line, column)
    BY <1>5 DEF ScanInv, Accepting
  <2>2. CASE Len(tokens) < Capacity
    BY <1>1, <1>2, <1>4, <2>1, <2>2, SoundEnd
  <2>3. CASE ~(Len(tokens) < Capacity)
    BY <1>4, <2>1, <2>3
  <2> QED
    BY <2>2, <2>3
<1>6. ScanInv'
  BY <1>5 DEF ScanInv, Accepting, place
<1> QED
  BY <1>4, <1>6

LEMMA ScanStep ==
  ASSUME IndInv, Scan
  PROVE  TTypeOK' /\ ScanInv' /\ current = "SCANNING" /\ current' # "PARSING"
<1>1. TTypeOK /\ ScanInv
  BY TypeParts DEF IndInv
<1>2. CASE SkipSpace
  BY <1>1, <1>2, SpaceStep DEF SkipSpace, Scanning
<1>3. CASE ScanToken
  BY <1>1, <1>3, TokenStep DEF ScanToken, Scanning
<1>4. CASE NoMatch
  <2>1. /\ current = "SCANNING" /\ current' = "ERROR"
        /\ UNCHANGED <<place, tokens, ops, calls, accepted, base, derived>>
    BY <1>4 DEF NoMatch, Scanning
  <2>2. TTypeOK'
    BY <1>1, <2>1 DEF TTypeOK, place
  <2> QED
    BY <1>1, <2>1, <2>2, ScanSame
<1>5. CASE EndScan
  <2>1. /\ current = "SCANNING" /\ current' = "READY" /\ Add(create_token("EOF", position, 0))
        /\ UNCHANGED <<place, ops, calls, accepted, base, derived>>
    BY <1>5 DEF EndScan
  <2>2. ScanInv' /\ tokens' \in Seq(Token) /\ Len(tokens') <= Capacity
    BY <1>1, <2>1, EofAdded
  <2>3. TTypeOK'
    BY <1>1, <2>1, <2>2 DEF TTypeOK, place
  <2> QED
    BY <2>1, <2>2, <2>3
<1> QED
  BY <1>2, <1>3, <1>4, <1>5 DEF Scan

\* A step of the tokenizer that the parser does not take.
LEMMA TokenizerStep ==
  ASSUME IndInv, TNext, at # "scan", UNCHANGED <<parsing, returned>>
  PROVE  IndInv'
<1>1. TTypeOK' /\ ScanInv' /\ current # "PARSING" /\ current' # "PARSING"
  <2>1. CASE Api
    BY <2>1, ApiStep
  <2>2. CASE Scan
    BY <2>2, ScanStep
  <2> QED
    BY <2>1, <2>2 DEF TNext
<1>2. at \notin Loops
  BY <1>1 DEF IndInv, LoopInv
<1>3. tokens' \in Seq(Token)
  BY <1>1 DEF TTypeOK
<1>4. RegisterTypes' /\ LoopInv' /\ BlankInv'
  BY <1>1, <1>2, <1>3, RegistersRest
<1> QED
  BY <1>1, <1>4, TypePartsNext DEF IndInv

-----------------------------------------------------------------------------
(* The steps of the parser *)

\* A parse moves from one token of its array to another.
Moves == token' \in 1..Len(tokens) /\ next' \in Nat

LEMMA AdvanceMoves ==
  ASSUME IndInv, at \in Loops, advance_token
  PROVE  Moves
<1>1. tokens \in Seq(Token) /\ Len(tokens) \in Nat /\ token \in 1..Len(tokens) /\ next \in Nat
  BY TypeParts DEF IndInv, TTypeOK, LoopInv, RegisterTypes
<1> QED
  BY <1>1 DEF advance_token, CanAdvance, Moves

\* What a step inside parse_tokens has to keep.
LEMMA LoopStep ==
  ASSUME IndInv, at \in Loops, UNCHANGED <<tvars, returned>>, Moves, at' \in Loops,
         nodes' \in Seq(Node), 0 < Len(nodes'), Len(nodes') <= MaxNodes,
         function' \in 0..MaxNodes, block' \in 0..MaxNodes,
         at' = "program" => function' = 0 /\ block' = 0,
         at' = "parameters" => function' \in 2..Len(nodes') /\ block' = 0,
         at' = "statements" =>
            function' \in 2..Len(nodes') /\ block' \in (function' + 1)..Len(nodes')
  PROVE  IndInv'
<1>1. UNCHANGED <<buffer, position, line, column, current, tokens, ops, calls, accepted, base,
                  derived, returned>>
  BY DEF tvars
<1>2. TTypeOK /\ RegisterTypes /\ LoopInv /\ ScanInv /\ BlankInv
  BY TypeParts DEF IndInv
<1>3. TTypeOK' /\ ScanInv'
  BY <1>1, <1>2 DEF TTypeOK, ScanInv, Accepting
<1>4. nodes' # <<>>
  OBVIOUS
<1>5. token' \in 0..Len(tokens') /\ token' \in 1..Len(tokens')
  BY <1>1 DEF Moves
<1>6. RegisterTypes'
  BY <1>1, <1>2, <1>5 DEF RegisterTypes, Moves, Loops
<1>7. LoopInv'
  BY <1>1, <1>2, <1>4, <1>5 DEF LoopInv, Loops
<1>8. BlankInv'
  BY <1>1, <1>2 DEF BlankInv
<1> QED
  BY <1>3, <1>6, <1>7, <1>8, TypePartsNext DEF IndInv

LEMMA LoopFacts ==
  ASSUME IndInv, at \in Loops
  PROVE  /\ nodes \in Seq(Node) /\ Len(nodes) \in Nat /\ 0 < Len(nodes)
         /\ DOMAIN nodes = 1..Len(nodes)
         /\ Len(nodes) <= MaxNodes /\ MaxNodes \in Nat
         /\ function \in 0..MaxNodes /\ block \in 0..MaxNodes
         /\ token \in 1..Len(tokens) /\ Len(tokens) \in Nat /\ next \in Nat
<1>1. RegisterTypes /\ TTypeOK /\ LoopInv
  BY TypeParts DEF IndInv
<1>2. nodes \in Seq(Node) /\ nodes # <<>> /\ Len(nodes) <= MaxNodes /\ MaxNodes \in Nat
  BY <1>1, ParserAssumption DEF RegisterTypes, LoopInv
<1>3. tokens \in Seq(Token)
  BY <1>1 DEF TTypeOK
<1> QED
  BY <1>1, <1>2, <1>3 DEF LoopInv, RegisterTypes

LEMMA FunctionStep ==
  ASSUME IndInv, Function
  PROVE  IndInv'
<1>0. at = "program" /\ at \in Loops /\ UNCHANGED <<tvars, block, returned>>
  BY DEF Function, Loops
<1>1. /\ nodes \in Seq(Node) /\ Len(nodes) \in Nat /\ 0 < Len(nodes)
      /\ Len(nodes) <= MaxNodes /\ MaxNodes \in Nat
      /\ token \in 1..Len(tokens) /\ Len(tokens) \in Nat /\ next \in Nat
  BY <1>0, LoopFacts
<1>2. function = 0 /\ block = 0 /\ 0 \in 0..MaxNodes
  BY <1>0, <1>1 DEF IndInv, LoopInv
<1>3. Moves
  <2>1. next < Len(tokens)
    BY DEF Function, expect_token, CanAdvance
  <2>2. \/ token' = next + 1 /\ next' = next + 1
        \/ token' = next + 2 /\ next' = next + 2 /\ next + 1 < Len(tokens)
    BY DEF Function
  <2> QED
    BY <1>1, <2>1, <2>2 DEF Moves
<1>4. CASE Full
  <2>1. UNCHANGED <<at, nodes, function>>
    BY <1>4 DEF Function
  <2> QED
    BY <1>0, <1>1, <1>2, <1>3, <2>1, LoopStep
<1>5. CASE ~Full
  <2> DEFINE r == Append(nodes, New("FUNCTION", 0))
             x == Len(nodes) + 1
  <2>1. nodes' = r /\ function' = x /\ at' = "parameters" /\ block' = 0
    BY <1>0, <1>2, <1>5 DEF Function
  <2>2. r \in Seq(Node) /\ Len(r) = x
    BY <1>1, PoolGrows DEF NodeTypes
  <2> HIDE DEF r
  <2>3. /\ x \in 2..Len(r) /\ x \in 0..MaxNodes
        /\ 0 < Len(r) /\ Len(r) <= MaxNodes
    BY <1>1, <1>5, <2>2 DEF Full
  <2> HIDE DEF x
  <2> QED
    BY <1>0, <1>2, <1>3, <2>1, <2>2, <2>3, LoopStep DEF Loops
<1> QED
  BY <1>4, <1>5

LEMMA ParameterStep ==
  ASSUME IndInv, Parameter
  PROVE  IndInv'
<1>0. at = "parameters" /\ at \in Loops /\ UNCHANGED <<tvars, at, nodes, function, block, returned>>
  BY DEF Parameter, Loops
<1>1. /\ nodes \in Seq(Node) /\ 0 < Len(nodes) /\ Len(nodes) <= MaxNodes
      /\ function \in 0..MaxNodes /\ block \in 0..MaxNodes
  BY <1>0, LoopFacts
<1>2. function \in 2..Len(nodes) /\ block = 0
  BY <1>0 DEF IndInv, LoopInv
<1>3. Moves
  BY <1>0, AdvanceMoves DEF Parameter
<1> QED
  BY <1>0, <1>1, <1>2, <1>3, LoopStep

\* The function is linked to the root.
LEMMA FunctionEnds ==
  ASSUME IndInv, at \in Loops, UNCHANGED <<tvars, returned>>, Moves, NEW pool \in Seq(Node),
         function \in 2..Len(pool), Len(pool) <= MaxNodes, EndFunction(pool)
  PROVE  IndInv'
<1> DEFINE r == [pool EXCEPT ![function].parent = 1]
<1>1. Store(r, 1, "program") /\ function' = 0 /\ block' = 0
  BY DEF EndFunction
<1>2. Len(pool) \in Nat /\ function \in DOMAIN pool /\ MaxNodes \in Nat /\ 0 \in 0..MaxNodes
  BY ParserAssumption
<1>3. r \in Seq(Node) /\ Len(r) = Len(pool)
  BY <1>2, PoolLinks
<1> HIDE DEF r
<1>4. 1 \in DOMAIN r
  BY <1>2, <1>3
<1>5. nodes' \in Seq(Node) /\ Len(nodes') = Len(pool) /\ at' \in {"program", "overrun"}
  BY <1>1, <1>3, <1>4, PoolStores
<1>6. 0 < Len(nodes') /\ Len(nodes') <= MaxNodes
  BY <1>2, <1>5
<1> QED
  BY <1>1, <1>2, <1>5, <1>6, LoopStep DEF Loops

LEMMA OpenBlockStep ==
  ASSUME IndInv, OpenBlock
  PROVE  IndInv'
<1>0. at = "parameters" /\ at \in Loops /\ UNCHANGED <<tvars, returned>>
  BY DEF OpenBlock, Loops
<1>1. /\ nodes \in Seq(Node) /\ Len(nodes) \in Nat /\ 0 < Len(nodes)
      /\ Len(nodes) <= MaxNodes /\ MaxNodes \in Nat /\ function \in 0..MaxNodes
      /\ token \in 1..Len(tokens) /\ Len(tokens) \in Nat /\ next \in Nat
  BY <1>0, LoopFacts
<1>2. function \in 2..Len(nodes) /\ block = 0
  BY <1>0 DEF IndInv, LoopInv
<1> DEFINE first == IF CanAdvance THEN next + 1 ELSE token
           taken == IF CanAdvance THEN next + 1 ELSE next
           opens == tokens[first].type = "SEPARATOR" /\ taken < Len(tokens)
           r == Append(nodes, New("BLOCK", 0))
           x == Len(nodes) + 1
<1>3. /\ token' = IF opens THEN taken + 1 ELSE first
      /\ next' = IF opens THEN taken + 1 ELSE taken
      /\ IF opens /\ ~Full
         THEN nodes' = r /\ block' = x /\ at' = "statements" /\ UNCHANGED function
         ELSE EndFunction(nodes)
  BY DEF OpenBlock
<1>4. first \in 1..Len(tokens) /\ taken \in Nat
  BY <1>1 DEF CanAdvance
<1> HIDE DEF first, taken
<1>5. Moves
  BY <1>1, <1>3, <1>4 DEF Moves
<1> HIDE DEF opens
<1>6. CASE opens /\ ~Full
  <2>1. nodes' = r /\ block' = x /\ at' = "statements" /\ function' = function
    BY <1>3, <1>6
  <2>2. r \in Seq(Node) /\ Len(r) = x
    BY <1>1, PoolGrows DEF NodeTypes
  <2> HIDE DEF r
  <2>3. /\ x \in (function + 1)..Len(r) /\ function \in 2..Len(r) /\ 0 < Len(r)
        /\ Len(r) <= MaxNodes /\ x \in 0..MaxNodes
    BY <1>1, <1>2, <1>6, <2>2 DEF Full
  <2> HIDE DEF x
  <2> QED
    BY <1>0, <1>1, <1>5, <2>1, <2>2, <2>3, LoopStep DEF Loops
<1>7. CASE ~(opens /\ ~Full)
  <2>1. EndFunction(nodes)
    BY <1>3, <1>7
  <2> QED
    BY <1>0, <1>1, <1>2, <1>5, <2>1, FunctionEnds
<1> QED
  BY <1>6, <1>7

LEMMA StatementStep ==
  ASSUME IndInv, Statement
  PROVE  IndInv'
<1>0. /\ at = "statements" /\ at \in Loops /\ ~Full
      /\ UNCHANGED <<tvars, function, block, returned>>
  BY DEF Statement, Loops
<1>1. /\ nodes \in Seq(Node) /\ Len(nodes) \in Nat /\ 0 < Len(nodes)
      /\ Len(nodes) < MaxNodes /\ MaxNodes \in Nat
      /\ function \in 0..MaxNodes /\ block \in 0..MaxNodes
      /\ token \in 1..Len(tokens) /\ Len(tokens) \in Nat /\ next \in Nat
  BY <1>0, LoopFacts DEF Full
<1>2. function \in 2..Len(nodes) /\ block \in (function + 1)..Len(nodes)
  BY <1>0 DEF IndInv, LoopInv
<1> DEFINE s == Len(nodes) + 1
           pool == Append(nodes, New("STATEMENT", block))
           q == Append(pool, New("EXPRESSION", s))
           r == Adopt(q, s)
<1>3. \/ Store(r, block, "statements") /\ s < MaxNodes /\ advance_token
      \/ Store(pool, block, "statements") /\ UNCHANGED <<token, next>>
  BY DEF Statement
<1>4. Moves
  BY <1>0, <1>1, <1>3, AdvanceMoves DEF Moves
<1>5. s \in Nat /\ block \in Nat /\ block \in 1..s /\ function \in 2..s /\ block \in (function + 1)..s
  BY <1>1, <1>2
<1>6. pool \in Seq(Node) /\ Len(pool) = s
  BY <1>1, <1>5, PoolGrows DEF NodeTypes
<1> HIDE DEF pool
<1>7. q \in Seq(Node) /\ Len(q) = s + 1
  BY <1>5, <1>6, PoolGrows DEF NodeTypes
<1> HIDE DEF q
<1>8. r \in Seq(Node) /\ Len(r) = s + 1
  <2>1. s \in DOMAIN q
    BY <1>1, <1>5, <1>7
  <2> QED
    BY <1>7, <2>1, PoolAdopts
<1> HIDE DEF r
<1>9. /\ nodes' \in Seq(Node) /\ at' \in {"statements", "overrun"}
      /\ Len(nodes') = s \/ (Len(nodes') = s + 1 /\ s < MaxNodes)
  <2>1. block \in DOMAIN r /\ block \in DOMAIN pool
    BY <1>5, <1>6, <1>8
  <2> QED
    BY <1>3, <1>6, <1>8, <2>1, PoolStores
<1>10. /\ Len(nodes') <= MaxNodes /\ 0 < Len(nodes')
       /\ function \in 2..Len(nodes') /\ block \in (function + 1)..Len(nodes')
  BY <1>1, <1>2, <1>9
<1> QED
  BY <1>0, <1>1, <1>4, <1>9, <1>10, LoopStep DEF Loops

LEMMA CloseBlockStep ==
  ASSUME IndInv, CloseBlock
  PROVE  IndInv'
<1>0. at = "statements" /\ at \in Loops /\ UNCHANGED <<tvars, returned>>
  BY DEF CloseBlock, Loops
<1>1. nodes \in Seq(Node) /\ Len(nodes) \in Nat /\ Len(nodes) <= MaxNodes
  BY <1>0, LoopFacts
<1>2. function \in 2..Len(nodes) /\ block \in (function + 1)..Len(nodes)
  BY <1>0 DEF IndInv, LoopInv
<1>3. Moves
  BY <1>0, AdvanceMoves DEF CloseBlock
<1> DEFINE linked == [nodes EXCEPT ![block].parent = function]
           pool == Adopt(linked, function)
<1>4. EndFunction(pool)
  BY DEF CloseBlock
<1>5. block \in DOMAIN nodes /\ function \in Nat
  BY <1>1, <1>2
<1>6. linked \in Seq(Node) /\ Len(linked) = Len(nodes)
  BY <1>1, <1>5, PoolLinks
<1> HIDE DEF linked
<1>7. function \in DOMAIN linked
  BY <1>1, <1>2, <1>6
<1>8. pool \in Seq(Node) /\ Len(pool) = Len(nodes)
  BY <1>6, <1>7, PoolAdopts
<1> HIDE DEF pool
<1> QED
  BY <1>0, <1>1, <1>2, <1>3, <1>4, <1>8, FunctionEnds

-----------------------------------------------------------------------------
(* The other steps of the parser *)

\* The parser is not in its loop after the step and has returned no tree.
LEMMA OutsideLoops ==
  ASSUME IndInv, at \notin Loops, at' \in {"none", "scan"}, returned' \in {"none", "null"},
         UNCHANGED <<token, next, nodes, function, block, tokens>>,
         current' # "PARSING",
         at' = "scan" => current' = "SCANNING" /\ accepted' > 0 /\ position' = 0
  PROVE  RegisterTypes' /\ LoopInv' /\ BlankInv'
<1>1. RegisterTypes /\ LoopInv
  BY TypeParts DEF IndInv
<1>2. RegisterTypes'
  BY <1>1 DEF RegisterTypes
<1>3. LoopInv'
  BY <1>1 DEF LoopInv, Loops
<1>4. BlankInv'
  BY DEF BlankInv, Loops
<1> QED
  BY <1>2, <1>3, <1>4

LEMMA ParseStringStep ==
  ASSUME IndInv, NEW input \in ParseInputs, ParseString(input)
  PROVE  IndInv'
<1>1. TTypeOK /\ ScanInv /\ LoopInv
  BY TypeParts DEF IndInv
<1>2. calls' \in 0..Len(Calls) /\ current # "DESTROYED" /\ current # "PARSING"
  BY <1>1, CallTypes DEF ParseString
<1>3. at \notin Loops
  BY <1>1, <1>2 DEF LoopInv
<1>4. /\ input \in Seq(Chars) /\ Len(input) \in Nat /\ BufferSize \in Nat
      /\ Len(input) > 0 /\ ops' = <<>>
      /\ UNCHANGED <<tokens, derived, token, next, nodes, function, block>>
  BY ParserAssumption, TokenizerAssumption DEF ParseString
<1>5. ops' \in Seq(Operation)
  <2>1. <<>> \in Seq(Operation)
    OBVIOUS
  <2> QED
    BY <1>4, <2>1
<1>6. CASE Len(input) > BufferSize
  <2>1. /\ current' = "ERROR" /\ at' = "none" /\ returned' = "null"
        /\ UNCHANGED <<place, accepted, base>>
    BY <1>6 DEF ParseString, set_input
  <2>2. ScanInv'
    BY <1>1, <1>2, <1>4, <2>1, ScanSame
  <2>3. TTypeOK'
    BY <1>1, <1>2, <1>4, <1>5, <2>1 DEF TTypeOK, place
  <2>4. RegisterTypes' /\ LoopInv' /\ BlankInv'
    BY <1>3, <1>4, <2>1, OutsideLoops
  <2> QED
    BY <2>2, <2>3, <2>4, TypePartsNext DEF IndInv
<1>7. CASE Len(input) <= BufferSize
  <2>1. /\ buffer' = Filled(input) /\ position' = 0 /\ line' = 1 /\ column' = 1
        /\ current' = "SCANNING" /\ accepted' = Len(input) /\ base' = Len(tokens)
        /\ at' = "scan" /\ returned' = "none"
    BY <1>4, <1>7 DEF ParseString
  <2>2. /\ ScanInv' /\ buffer' \in [0..BufferSize -> Chars]
        /\ position' \in Nat /\ line' \in Nat /\ column' \in Nat
        /\ accepted' \in 0..BufferSize /\ base' \in Nat
    BY <1>1, <1>4, <1>7, <2>1, InputAccepted
  <2>3. TTypeOK'
    BY <1>1, <1>2, <1>4, <1>5, <2>1, <2>2 DEF TTypeOK
  <2>4. RegisterTypes' /\ LoopInv' /\ BlankInv'
    BY <1>3, <1>4, <2>1, OutsideLoops
  <2> QED
    BY <2>2, <2>3, <2>4, TypePartsNext DEF IndInv
<1> QED
  BY <1>4, <1>6, <1>7

LEMMA ScanFailedStep ==
  ASSUME IndInv, ScanFailed
  PROVE  IndInv'
<1>1. /\ Scan /\ at = "scan" /\ at' = "none" /\ returned' = "null"
      /\ UNCHANGED <<token, next, nodes, function, block, tokens>>
  BY DEF ScanFailed, Scan, NoMatch
<1>2. TTypeOK' /\ ScanInv' /\ current' # "PARSING"
  BY <1>1, ScanStep
<1>3. RegisterTypes' /\ LoopInv' /\ BlankInv'
  BY <1>1, <1>2, OutsideLoops DEF Loops
<1> QED
  BY <1>2, <1>3, TypePartsNext DEF IndInv

LEMMA ScanSpaceStep ==
  ASSUME IndInv, ScanSpace
  PROVE  IndInv'
<1>1. /\ at = "scan" /\ SkipSpace
      /\ UNCHANGED <<at, token, next, nodes, function, block, returned, tokens, current>>
  BY DEF ScanSpace, SkipSpace, parsing
<1>2. TTypeOK /\ ScanInv /\ RegisterTypes /\ LoopInv /\ BlankInv
  BY TypeParts DEF IndInv
<1>3. TTypeOK' /\ ScanInv'
  BY <1>1, <1>2, SpaceStep
<1>4. RegisterTypes' /\ LoopInv'
  BY <1>1, <1>2 DEF RegisterTypes, LoopInv
<1>5. BlankInv'
  <2>1. position' = position + 1 /\ position < BufferSize /\ c(position) \in Space
        /\ UNCHANGED <<buffer, accepted>>
    BY <1>1 DEF SkipSpace, Scanning
  <2>2. position \in Nat /\ BufferSize \in Nat
    BY <1>2, TokenizerAssumption DEF TTypeOK
  <2>3. buffer[position] \in Space
    BY <2>1, <2>2 DEF c, Byte
  <2>4. accepted > 0 /\ \A k \in 0..(position - 1) : buffer[k] \in Space
    BY <1>1, <1>2 DEF BlankInv
  <2>5. \A k \in 0..((position + 1) - 1) : k \in 0..(position - 1) \/ k = position
    BY <2>2
  <2>6. \A k \in 0..(position' - 1) : buffer'[k] \in Space
    BY <2>1, <2>3, <2>4, <2>5
  <2> QED
    BY <1>1, <2>1, <2>4, <2>6 DEF BlankInv, Loops
<1> QED
  BY <1>3, <1>4, <1>5, TypePartsNext DEF IndInv

\* The pool that holds only the root.
LEMMA RootPool == <<New("PROGRAM", 0)>> \in Seq(Node) /\ Len(<<New("PROGRAM", 0)>>) = 1
<1>1. New("PROGRAM", 0) \in Node
  BY DEF New, Node, NodeTypes
<1> QED
  BY <1>1

LEMMA BeginParseStep ==
  ASSUME IndInv, BeginParse
  PROVE  IndInv'
<1>1. TTypeOK /\ ScanInv /\ RegisterTypes /\ BlankInv
  BY TypeParts DEF IndInv
<1> DEFINE root == <<New("PROGRAM", 0)>>
<1>2. /\ current = "SCANNING" /\ Add(create_token("EOF", position, 0))
      /\ at = "scan" /\ position >= BufferSize
      /\ UNCHANGED <<place, ops, calls, accepted, base, derived, returned>>
      /\ current' = "PARSING" /\ at' = "program" /\ token' = 1 /\ next' = 0
      /\ nodes' = root /\ function' = 0 /\ block' = 0
  BY DEF BeginParse
<1>3. /\ ScanInv' /\ tokens' \in Seq(Token) /\ Len(tokens') <= Capacity
      /\ Len(tokens') \in Nat /\ tokens' # <<>>
  BY <1>1, <1>2, EofAdded
<1>4. TTypeOK'
  BY <1>1, <1>2, <1>3 DEF TTypeOK, place
<1>5. root \in Seq(Node) /\ Len(root) = 1
  BY RootPool
<1> HIDE DEF root
<1>6. /\ token' \in 1..Len(tokens') /\ nodes' # <<>> /\ nodes' \in Seq(Node)
      /\ Len(nodes') <= MaxNodes /\ MaxNodes \in Nat
  <2>1. Len(tokens') > 0
    BY <1>3
  <2>2. nodes' # <<>> /\ nodes' \in Seq(Node)
    BY <1>2, <1>5
  <2> QED
    BY <1>2, <1>3, <1>5, <2>1, <2>2, ParserAssumption
<1>7. RegisterTypes'
  BY <1>1, <1>2, <1>3, <1>6 DEF RegisterTypes
<1>8. LoopInv'
  BY <1>2, <1>6 DEF LoopInv, Loops
<1>9. BlankInv'
  BY <1>1, <1>2 DEF BlankInv, place
<1> QED
  BY <1>3, <1>4, <1>7, <1>8, <1>9, TypePartsNext DEF IndInv

LEMMA EndParseStep ==
  ASSUME IndInv, EndParse
  PROVE  IndInv'
<1>1. TTypeOK /\ ScanInv /\ RegisterTypes /\ LoopInv
  BY TypeParts DEF IndInv
<1>2. /\ current = "PARSING" /\ at = "program" /\ current' = "READY" /\ at' = "none"
      /\ returned' = "ast" /\ token' = 0 /\ next' = 0
      /\ nodes' = <<>>
      /\ UNCHANGED <<place, tokens, ops, calls, accepted, base, derived, function, block>>
  BY DEF EndParse, Running
<1>3. function = 0 /\ block = 0 /\ at \in Loops
  BY <1>1, <1>2 DEF LoopInv, Loops
<1>4. TTypeOK'
  BY <1>1, <1>2 DEF TTypeOK, place
<1>5. ScanInv'
  BY <1>1, <1>2, ScanSame
<1>6. RegisterTypes'
  <2>1. <<>> \in Seq(Node) /\ Len(<<>>) = 0 /\ MaxNodes \in Nat
    BY ParserAssumption
  <2> QED
    BY <1>1, <1>2, <2>1 DEF RegisterTypes, TTypeOK
<1>7. LoopInv'
  BY <1>2, <1>3 DEF LoopInv, Loops
<1>8. BlankInv'
  BY <1>2 DEF BlankInv, Loops
<1> QED
  BY <1>4, <1>5, <1>6, <1>7, <1>8, TypePartsNext DEF IndInv

LEMMA ParseFileFailsStep ==
  ASSUME IndInv, ParseFileFails
  PROVE  IndInv'
<1>1. TTypeOK /\ ScanInv /\ RegisterTypes /\ LoopInv
  BY TypeParts DEF IndInv
<1>2. /\ calls' \in 0..Len(Calls) /\ current # "DESTROYED" /\ current # "PARSING"
      /\ current # "SCANNING"
  BY <1>1, CallTypes DEF ParseFileFails, Call, Idle
<1>3. /\ returned' = "null"
      /\ UNCHANGED <<place, current, tokens, ops, accepted, base, derived, at, token, next,
                     nodes, function, block>>
  BY DEF ParseFileFails, parsing
<1>4. at = "none"
  BY <1>1, <1>2 DEF LoopInv, RegisterTypes, Loops
<1>5. TTypeOK'
  BY <1>1, <1>2, <1>3 DEF TTypeOK, place
<1>6. ScanInv'
  BY <1>1, <1>3, ScanSame
<1>7. RegisterTypes' /\ LoopInv' /\ BlankInv'
  BY <1>2, <1>3, <1>4, OutsideLoops DEF Loops
<1> QED
  BY <1>5, <1>6, <1>7, TypePartsNext DEF IndInv

-----------------------------------------------------------------------------
LEMMA Initial ==
  ASSUME PInit
  PROVE  IndInv
<1>1. /\ buffer \in Garbage /\ position = 0 /\ line = 1 /\ column = 1 /\ current = "READY"
      /\ tokens = <<>> /\ ops = <<>> /\ derived = <<>> /\ calls = 0 /\ accepted = 0 /\ base = 0
      /\ at = "none" /\ token = 0 /\ next = 0 /\ nodes = <<>> /\ function = 0 /\ block = 0
      /\ returned = "none"
  BY DEF PInit, TInit
<1>2. /\ <<>> \in Seq(Token) /\ <<>> \in Seq(Operation) /\ <<>> \in Seq(Node)
      /\ Len(<<>>) = 0
  OBVIOUS
<1>3. buffer \in [0..BufferSize -> Chars] /\ BufferSize \in Nat /\ Len(Calls) \in Nat
      /\ MaxNodes \in Nat
  BY <1>1, TextAssumption, TokenizerAssumption, ParserAssumption
<1>4. TTypeOK
  BY <1>1, <1>2, <1>3, CapacityType DEF TTypeOK
<1>5. RegisterTypes
  BY <1>1, <1>2, <1>3 DEF RegisterTypes
<1>6. LoopInv /\ BlankInv /\ ScanInv
  BY <1>1 DEF LoopInv, BlankInv, ScanInv, Accepting, Loops
<1> QED
  BY <1>4, <1>5, <1>6, TypeParts DEF IndInv

LEMMA Step ==
  ASSUME IndInv, [PNext]_pvars
  PROVE  IndInv'
<1>1. CASE TNext /\ at # "scan" /\ UNCHANGED <<parsing, returned>>
  BY <1>1, TokenizerStep
<1>2. ASSUME NEW i \in ParseInputs, ParseString(i)
      PROVE  IndInv'
  BY <1>2, ParseStringStep
<1>3. CASE ParseFileFails
  BY <1>3, ParseFileFailsStep
<1>4. CASE Work
  <2>1. CASE ScanSpace \/ ScanFailed \/ BeginParse
    BY <2>1, ScanSpaceStep, ScanFailedStep, BeginParseStep
  <2>2. CASE Function \/ Parameter \/ OpenBlock
    BY <2>2, FunctionStep, ParameterStep, OpenBlockStep
  <2>3. CASE Statement \/ CloseBlock \/ EndParse
    BY <2>3, StatementStep, CloseBlockStep, EndParseStep
  <2> QED
    BY <1>4, <2>1, <2>2, <2>3 DEF Work, Parse
<1>5. CASE UNCHANGED pvars
  <2>1. UNCHANGED <<buffer, position, line, column, current, tokens, ops, calls, accepted, base,
                    derived, at, token, next, nodes, function, block, returned>>
    BY <1>5 DEF pvars, tvars, parsing
  <2>2. TTypeOK /\ RegisterTypes /\ LoopInv /\ BlankInv /\ ScanInv
    BY TypeParts DEF IndInv
  <2>3. TTypeOK' /\ RegisterTypes'
    BY <2>1, <2>2 DEF TTypeOK, RegisterTypes
  <2>4. LoopInv' /\ BlankInv' /\ ScanInv'
    BY <2>1, <2>2 DEF LoopInv, BlankInv, ScanInv, Accepting
  <2> QED
    BY <2>3, <2>4, TypePartsNext DEF IndInv
<1> QED
  BY <1>1, <1>2, <1>3, <1>4, <1>5 DEF PNext

LEMMA Inductive == PSpec => []IndInv
<1>1. PInit => IndInv
  BY Initial
<1>2. IndInv /\ [PNext]_pvars => IndInv'
  BY Step
<1> QED
  BY <1>1, <1>2, PTL DEF PSpec

-----------------------------------------------------------------------------
(* The text of the tokens: TextsMatch is preserved where IndInv holds *)

\* A pattern makes a token of the form it stands for.
LEMMA PatternForm ==
  ASSUME NEW z \in 0..BufferSize, Stop(z), NEW i \in 0..z, NEW type \in Types, matched(type, i),
         NEW t, t.by = type, t.value = value_type(type, i), t.start = i, t.length = match(type, i)
  PROVE  OfForm(buffer, t)
<1> DEFINE j == i + match(type, i)
<1>0. Past(t) = j
  BY DEF Past
<1>1. z \in Nat /\ i \in Nat /\ BufferSize \in Nat /\ j \in Nat /\ j <= z
  <2>1. BufferSize \in Nat
    BY TokenizerAssumption
  <2>2. z \in Nat /\ i \in Nat
    BY <2>1
  <2>3. match(type, i) \in Nat /\ i + match(type, i) <= z
    BY MatchFits DEF Fits
  <2> DEFINE len == match(type, i)
  <2>4. len \in Nat /\ i + len <= z
    BY <2>3
  <2> HIDE DEF len
  <2>5. i + len \in Nat
    BY <2>2, <2>4
  <2> QED
    BY <2>1, <2>2, <2>4, <2>5 DEF len
<1>2. type \in {"IDENTIFIER", "NUMBER", "STRING", "OPERATOR", "SEPARATOR", "COMMENT"}
  BY DEF Types
<1>8. CASE type = "COMMENT"
  <2>1. t.length = 0 /\ t.value # "INTEGER"
    BY <1>8 DEF match, match_comment, value_type
  <2> QED
    BY <1>8, <2>1 DEF OfForm
<1>9. type # "COMMENT" => match(type, i) > 0
  BY DEF matched
<1>3. CASE type = "IDENTIFIER"
  <2>1. match(type, i) = match_identifier(i) /\ t.value # "INTEGER"
    BY <1>3 DEF match, value_type
  <2>2. IsIdentifier(buffer, i, j)
    BY <1>3, <1>9, <2>1, IdentifierFits
  <2> HIDE DEF j
  <2> QED
    BY <1>0, <1>3, <2>1, <2>2 DEF OfForm
<1>4. CASE type = "STRING"
  <2>1. match(type, i) = match_string(i) /\ t.value # "INTEGER"
    BY <1>4 DEF match, value_type
  <2>2. IsString(buffer, i, j)
    BY <1>4, <1>9, <2>1, StringFits
  <2> HIDE DEF j
  <2> QED
    BY <1>0, <1>4, <2>1, <2>2 DEF OfForm
<1>5. CASE type = "OPERATOR"
  <2>1. match(type, i) = match_operator(i) /\ t.value # "INTEGER"
    BY <1>5 DEF match, value_type
  <2>2. IsOperator(buffer, i, j)
    BY <1>5, <1>9, <2>1, OperatorFits
  <2> HIDE DEF j
  <2> QED
    BY <1>0, <1>5, <2>1, <2>2 DEF OfForm
<1>6. CASE type = "SEPARATOR"
  <2>1. match(type, i) = match_separator(i) /\ t.value # "INTEGER"
    BY <1>6 DEF match, value_type
  <2>2. t.length = 1
    <3>1. type # "COMMENT"
      BY <1>6
    <3>2. match_separator(i) > 0
      BY <1>9, <2>1, <3>1
    <3>3. match_separator(i) = 1
      BY <3>2 DEF match_separator
    <3> QED
      BY <2>1, <3>3
  <2> QED
    BY <1>6, <2>1, <2>2 DEF OfForm
<1>7. CASE type = "NUMBER"
  <2>1. match(type, i) = match_number(i)
    BY <1>7 DEF match
  <2>2. IsNumber(buffer, i, j) /\ All(buffer, i, j, NumberBytes)
    BY <1>7, <1>9, <2>1, NumberFits
  <2>3. ASSUME t.value = "INTEGER", NEW k \in i..(j - 1)
        PROVE  Byte(buffer, k) \in Chars \ {"."}
    <3>1. \A m \in i..k : c(m) # "nul"
      <4>0. \A m \in i..k : m \in i..(j - 1)
        <5> HIDE DEF j
        <5> QED
          BY <1>1
      <4>1. \A m \in i..k : c(m) \in NumberBytes
        BY <2>2, <4>0 DEF All, c
      <4> QED
        BY <4>1 DEF NumberBytes, Digit
    <3>2. k \in i..BufferSize
      <4> HIDE DEF j
      <4> QED
        BY <1>1
    <3>3. c(k) # "."
      BY <1>7, <2>3, <3>1, <3>2 DEF value_type
    <3>4. c(k) \in NumberBytes
      BY <2>2 DEF All, c
    <3> QED
      BY <3>3, <3>4 DEF NumberBytes, Chars, Alpha, Digit, c
  <2> HIDE DEF j
  <2>4. t.value = "INTEGER" => All(buffer, i, j, Chars \ {"."})
    BY <2>3 DEF All
  <2> QED
    BY <1>0, <1>7, <2>2, <2>4 DEF OfForm
<1> QED
  BY <1>2, <1>3, <1>4, <1>5, <1>6, <1>7, <1>8

Forms(b, toks, first) == \A i \in Made(toks, first) : OfForm(b, toks[i])

\* TextsMatch in terms of the buffer and the tokens.
LEMMA TextParts ==
  /\ TextsMatch <=> (Accepting => Forms(buffer, tokens, base))
  /\ TextsMatch' <=> (Accepting' => Forms(buffer', tokens', base'))
BY DEF TextsMatch, Accepting, Forms, Fresh, Made

\* The token that ScanToken makes joins the others or is dropped.
LEMMA TokenText ==
  ASSUME IndInv, TextsMatch, ScanToken
  PROVE  TextsMatch'
<1> DEFINE op == ops[FirstMatch(position)]
           len == match(op.produces, position)
           u == create_token(op.produces, position, len)
           t == consume(op, u)
<1>1. /\ current = "SCANNING" /\ FirstMatch(position) # 0 /\ Add(t)
      /\ UNCHANGED <<buffer, current, accepted, base>>
  BY DEF ScanToken, Scanning
<1>2. TTypeOK /\ ScanInv
  BY TypeParts DEF IndInv
<1>3. /\ position \in Nat /\ ops \in Seq(Operation) /\ tokens \in Seq(Token) /\ base \in Nat
      /\ accepted \in 0..BufferSize /\ BufferSize \in Nat
  BY <1>2, TokenizerAssumption DEF TTypeOK
<1> SUFFICES ASSUME accepted > 0
             PROVE  Forms(buffer, tokens', base)
  BY <1>1, TextParts DEF Accepting
<1>4. /\ Forms(buffer, tokens, base)
      /\ Sound(buffer, tokens, base, accepted, position, line, column)
  BY <1>1, <1>2, TextParts DEF Accepting, ScanInv
<1>5. Stop(accepted) /\ position \in 0..accepted /\ base <= Len(tokens)
  BY <1>3, <1>4 DEF Sound, Stop, c, Byte
<1>6. FirstMatch(position) \in DOMAIN ops /\ matched(op.produces, position)
  BY <1>1, <1>3, FirstMatchProperties
<1>7. op \in Operation
  BY <1>3, <1>6
<1>8. op.produces \in Types
  BY <1>7 DEF Operation
<1>9. len \in Nat
  BY <1>5, MatchFits DEF Fits
<1>10. /\ u.by = op.produces /\ u.type = op.produces /\ u.value = value_type(op.produces, position)
       /\ u.start = position /\ u.length = len
  BY DEF create_token
<1>11. u \in Token
  BY <1>2, <1>3, <1>8, <1>9, TokenCreated
<1> HIDE DEF u
<1>12. /\ t \in Token /\ t.by = op.produces /\ t.value = value_type(op.produces, position)
       /\ t.start = position /\ t.length = len
  BY <1>7, <1>8, <1>10, <1>11, TokenConsumed
<1> HIDE DEF t
<1>13. OfForm(buffer, t)
  BY <1>3, <1>5, <1>6, <1>8, <1>12, PatternForm
<1>14. tokens' = IF Len(tokens) < Capacity THEN Append(tokens, t) ELSE tokens
  BY <1>1 DEF Add
<1>15. CASE Len(tokens) < Capacity
  <2>1. Grown(tokens', tokens, t, base)
    BY <1>3, <1>5, <1>12, <1>14, <1>15, Appended
  <2> QED
    BY <1>4, <1>13, <2>1 DEF Grown, Forms
<1>16. CASE ~(Len(tokens) < Capacity)
  BY <1>4, <1>14, <1>16
<1> QED
  BY <1>15, <1>16

\* The end-of-file token is none of the tokens made of the input.
LEMMA EofText ==
  ASSUME IndInv, TextsMatch, Add(create_token("EOF", position, 0)), current = "SCANNING",
         UNCHANGED <<buffer, accepted, base>>
  PROVE  TextsMatch'
<1> DEFINE t == create_token("EOF", position, 0)
<1>1. TTypeOK /\ ScanInv
  BY TypeParts DEF IndInv
<1>2. position \in Nat /\ tokens \in Seq(Token) /\ base \in Nat
  BY <1>1 DEF TTypeOK
<1>3. t \in Token /\ t.type = "EOF"
  <2>1. t \in Token
    BY <1>1, <1>2, TokenCreated
  <2> QED
    BY <2>1 DEF create_token
<1>4. tokens' = IF Len(tokens) < Capacity THEN Append(tokens, t) ELSE tokens
  BY DEF Add
<1> HIDE DEF t
<1> SUFFICES ASSUME accepted > 0
             PROVE  Forms(buffer, tokens', base)
  BY TextParts DEF Accepting
<1>5. Forms(buffer, tokens, base) /\ base <= Len(tokens)
  BY <1>1, TextParts DEF Accepting, ScanInv, Sound
<1>6. CASE Len(tokens) < Capacity
  <2>1. Grown(tokens', tokens, t, base)
    BY <1>2, <1>3, <1>4, <1>5, <1>6, Appended
  <2> QED
    BY <1>3, <1>5, <2>1 DEF Grown, Forms
<1>7. CASE ~(Len(tokens) < Capacity)
  BY <1>4, <1>5, <1>7
<1> QED
  BY <1>6, <1>7

\* Nothing was scanned, or nothing is left of what was.
LEMMA TextSame ==
  ASSUME TextsMatch, UNCHANGED <<buffer, tokens, accepted, base>>,
         current = "DESTROYED" => current' = "DESTROYED"
  PROVE  TextsMatch'
BY TextParts DEF Accepting

LEMMA TextEmpty ==
  ASSUME tokens \in Seq(Token), \/ tokens' = tokens /\ base' = Len(tokens)
                                \/ tokens' = <<>> /\ base' = 0
                                \/ current' = "DESTROYED"
  PROVE  TextsMatch'
<1>1. CASE current' = "DESTROYED"
  BY <1>1, TextParts DEF Accepting
<1>2. CASE tokens' = tokens /\ base' = Len(tokens)
  <2>1. Len(tokens) \in Nat
    OBVIOUS
  <2>2. Made(tokens', base') = {}
    BY <1>2, <2>1 DEF Made
  <2> QED
    BY <2>2, TextParts DEF Forms
<1>3. CASE tokens' = <<>> /\ base' = 0
  <2>1. Made(tokens', base') = {}
    BY <1>3 DEF Made
  <2> QED
    BY <2>1, TextParts DEF Forms
<1> QED
  BY <1>1, <1>2, <1>3

LEMMA TextStep ==
  ASSUME IndInv, TextsMatch, [PNext]_pvars
  PROVE  TextsMatch'
<1> USE DEF place
<1>0. tokens \in Seq(Token)
  BY TypeParts DEF IndInv, TTypeOK
<1>1. CASE Api
  <2>1. ASSUME NEW i, SetInput(i)
        PROVE  TextsMatch'
    <3>1. CASE Len(i) > BufferSize
      BY <2>1, <3>1, TextSame DEF SetInput, set_input, Call, Idle
    <3>2. CASE ~(Len(i) > BufferSize)
      BY <1>0, <2>1, <3>2, TextEmpty DEF SetInput, set_input
    <3> QED
      BY <3>1, <3>2
  <2>2. ASSUME NEW o, Process(o)
        PROVE  TextsMatch'
    BY <2>2, TextSame DEF Process, Call, Idle
  <2>3. ASSUME NEW type, Filter(type)
        PROVE  TextsMatch'
    BY <2>3, TextSame DEF Filter, Call, Idle
  <2>4. CASE Reset
    BY <1>0, <2>4, TextEmpty DEF Reset
  <2>5. CASE Chain
    BY <2>5, TextSame DEF Chain, Call, Idle
  <2>6. CASE DestroyDerived
    BY <2>6, TextSame DEF DestroyDerived, Call, Idle
  <2>7. CASE Destroy
    BY <1>0, <2>7, TextEmpty DEF Destroy
  <2> QED
    BY <1>1, <2>1, <2>2, <2>3, <2>4, <2>5, <2>6, <2>7 DEF Api
<1>2. CASE SkipSpace
  BY <1>2, TextSame DEF SkipSpace, Scanning
<1>3. CASE NoMatch
  BY <1>3, TextSame DEF NoMatch, Scanning
<1>4. CASE ScanToken
  BY <1>4, TokenText
<1>5. CASE EndScan \/ BeginParse
  <2>1. /\ Add(create_token("EOF", position, 0)) /\ current = "SCANNING"
        /\ UNCHANGED <<buffer, accepted, base>>
    BY <1>5 DEF EndScan, BeginParse
  <2> QED
    BY <2>1, EofText
<1>6. ASSUME NEW i \in ParseInputs, ParseString(i)
      PROVE  TextsMatch'
  <2>1. CASE Len(i) > BufferSize
    BY <1>6, <2>1, TextSame DEF ParseString, set_input, Call, Idle
  <2>2. CASE ~(Len(i) > BufferSize)
    BY <1>0, <1>6, <2>2, TextEmpty DEF ParseString
  <2> QED
    BY <2>1, <2>2
<1>7. CASE ParseFileFails
  BY <1>7, TextSame DEF ParseFileFails
<1>8. CASE Parse
  <2>1. /\ UNCHANGED <<buffer, tokens, accepted, base>>
        /\ UNCHANGED current \/ (current = "PARSING" /\ current' = "READY")
    BY <1>8 DEF Parse, Function, Parameter, OpenBlock, Statement, CloseBlock, EndParse,
                Running, tvars, Store
  <2> QED
    BY <2>1, TextSame
<1>9. CASE UNCHANGED pvars
  BY <1>9, TextSame DEF pvars, tvars
<1>10. \/ Api \/ SkipSpace \/ NoMatch \/ ScanToken \/ EndScan \/ BeginParse
       \/ \E i \in ParseInputs : ParseString(i)
       \/ ParseFileFails \/ Parse \/ UNCHANGED pvars
  BY DEF PNext, TNext, Scan, Work, ScanSpace, ScanFailed
<1> QED
  BY <1>1, <1>2, <1>3, <1>4, <1>5, <1>6, <1>7, <1>8, <1>9, <1>10

-----------------------------------------------------------------------------
(* The theorems *)

\* Whatever the application calls in whatever order, neither the token array
\* nor the node pool is overrun, and current_token is one of the tokens.
THEOREM ParserTypes == PSpec => []ParserTypeOK
<1>1. IndInv => ParserTypeOK
  BY DEF IndInv
<1> QED
  BY <1>1, Inductive, PTL

\* The bounds of what a scan has made are those of the input it was given.
LEMMA ScanFacts ==
  ASSUME IndInv, Accepting
  PROVE  /\ Sound(buffer, tokens, base, accepted, position, line, column)
         /\ Fresh = Made(tokens, base)
         /\ position \in Nat /\ accepted \in 0..BufferSize /\ BufferSize \in Nat
         /\ tokens \in Seq(Token)
BY TypeParts, TokenizerAssumption DEF IndInv, ScanInv, TTypeOK, Fresh, Made

\* process stops at the terminator that set_input wrote: the position stays in
\* the buffer and the tokens are made of the last accepted input only, never of
\* what a longer one left behind it.
THEOREM ScansCurrentInput == PSpec => []OnlyCurrentInput
<1>1. IndInv => OnlyCurrentInput
  <2> SUFFICES ASSUME IndInv, Accepting
               PROVE  /\ position <= BufferSize
                      /\ \A i \in Fresh : Past(tokens[i]) <= accepted
    BY DEF OnlyCurrentInput, Accepting
  <2>1. /\ position <= accepted /\ position \in Nat /\ accepted \in 0..BufferSize
        /\ BufferSize \in Nat /\ tokens \in Seq(Token) /\ Fresh = Made(tokens, base)
        /\ \A i \in Fresh : Past(tokens[i]) <= position
    BY ScanFacts DEF Sound
  <2>2. position <= BufferSize
    BY <2>1
  <2>3. ASSUME NEW i \in Fresh
        PROVE  Past(tokens[i]) <= accepted
    <3>1. base \in Nat
      BY TypeParts DEF IndInv, TTypeOK
    <3>2. i \in 1..Len(tokens)
      BY <2>1, <2>3, <3>1 DEF Fresh
    <3>3. Past(tokens[i]) \in Nat
      BY <2>1, <3>2, TokenNumbers
    <3> QED
      BY <2>1, <2>3, <3>3
  <2> QED
    BY <2>2, <2>3
<1> QED
  BY <1>1, Inductive, PTL

\* The tokens of an input come in the order of its text and do not overlap, and
\* while the token array has room every byte that process has passed is white
\* space or part of a token.
THEOREM ScansEverything == PSpec => []NothingSkipped
<1>1. IndInv => NothingSkipped
  <2> SUFFICES ASSUME IndInv, Accepting
               PROVE  /\ \A i, j \in Fresh : i < j => Past(tokens[i]) <= tokens[j].start
                      /\ Len(tokens) < Capacity =>
                            \A k \in 0..(position - 1) :
                                \/ buffer[k] \in Space
                                \/ \E i \in Fresh :
                                    k \in tokens[i].start..(Past(tokens[i]) - 1)
    BY DEF NothingSkipped, Accepting
  <2>1. /\ InOrder(tokens, base) /\ Fresh = Made(tokens, base)
        /\ Len(tokens) < Capacity => Covered(buffer, tokens, base, position)
    BY ScanFacts DEF Sound
  <2> QED
    BY <2>1 DEF InOrder, Covered, Covers
<1> QED
  BY <1>1, Inductive, PTL

\* Unless a token runs over a line end, the line and the column that
\* create_token copied are those of the first character of the token: the
\* counters of the loop never drift from the text.
THEOREM LocationsKept == PSpec => []LocationsCorrect
<1>1. IndInv => LocationsCorrect
  <2>1. \A i : Newlines(i) = Breaks(buffer, i)
    BY ByteAt DEF Newlines, Breaks
  <2> SUFFICES ASSUME IndInv, Accepting,
                      \A k \in Newlines(position) : \A i \in Fresh :
                            k \notin tokens[i].start..(Past(tokens[i]) - 1),
                      NEW i \in Fresh
               PROVE  /\ tokens[i].line = 1 + Cardinality(Newlines(tokens[i].start))
                      /\ tokens[i].column =
                            IF Newlines(tokens[i].start) = {} THEN tokens[i].start + 1
                            ELSE tokens[i].start
                                 - (CHOOSE k \in Newlines(tokens[i].start) :
                                        \A m \in Newlines(tokens[i].start) : m <= k)
    BY DEF LocationsCorrect, Accepting
  <2>2. /\ Sound(buffer, tokens, base, accepted, position, line, column)
        /\ Fresh = Made(tokens, base)
    BY ScanFacts
  <2>3. Whole(buffer, tokens, base, position)
    BY <2>1, <2>2 DEF Whole, Covers
  <2>4. Located(buffer, tokens[i].start, tokens[i].line, tokens[i].column)
    BY <2>2, <2>3 DEF Sound
  <2>5. Newlines(tokens[i].start) = Breaks(buffer, tokens[i].start)
    BY <2>1
  <2> QED
    BY <2>4, <2>5 DEF Located
<1> QED
  BY <1>1, Inductive, PTL

\* parse_tokens is reached only after a text that fills the buffer with white
\* space: every other text is refused by the scan, which has no patterns and
\* stops at the terminator.
THEOREM OnlyBlanksParsed == PSpec => []ParsesBlanksOnly
<1>1. IndInv => ParsesBlanksOnly
  <2> SUFFICES ASSUME IndInv, current = "PARSING"
               PROVE  /\ accepted = BufferSize
                      /\ \A k \in 0..(BufferSize - 1) : buffer[k] \in Space
    BY DEF ParsesBlanksOnly, Running
  <2>1. /\ accepted > 0 /\ position >= BufferSize
        /\ \A k \in 0..(position - 1) : buffer[k] \in Space
    BY DEF IndInv, LoopInv, BlankInv
  <2>2. /\ Sound(buffer, tokens, base, accepted, position, line, column)
        /\ position \in Nat /\ accepted \in 0..BufferSize /\ BufferSize \in Nat
    BY <2>1, ScanFacts DEF Accepting
  <2>3. position <= accepted
    BY <2>2 DEF Sound
  <2>4. position = BufferSize /\ accepted = BufferSize
    BY <2>1, <2>2, <2>3
  <2> QED
    BY <2>1, <2>4
<1> QED
  BY <1>1, Inductive, PTL

\* A token has exactly the text of the grammar its pattern stands for, and a
\* number with a fraction is no integer: the matchers' loops over escapes,
\* fractions and exponents stop where the grammar says.
THEOREM MatchersFollowGrammar == PSpec => []TextsMatch
<1>1. PInit => TextsMatch
  BY DEF PInit, TInit, TextsMatch
<1>2. IndInv /\ TextsMatch /\ [PNext]_pvars => TextsMatch'
  BY TextStep
<1> QED
  BY <1>1, <1>2, Inductive, PTL DEF PSpec

=============================================================================
