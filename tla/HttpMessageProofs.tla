-------------------------- MODULE HttpMessageProofs ---------------------------
(***************************************************************************)
(* Proof that the parser implements the abstract specification: it accepts *)
(* the head of a message and nothing else, and rejects a stream only if no *)
(* prefix of it is one.                                                    *)
(*                                                                         *)
(* For each state GrammarProofs has a predicate of what is left of a head  *)
(* of n bytes.  The invariant is that for every n the first n bytes are a  *)
(* head if and only if that predicate of the state holds: each byte turns  *)
(* it into that of the next state, and it says "n is the offset behind     *)
(* this byte" at the byte with which the parser succeeds and "false" at    *)
(* one that it refuses.                                                    *)
(***************************************************************************)
EXTENDS HttpReadingProofs

-----------------------------------------------------------------------------
(* The grammar and its reading from left to right *)

Shape == INSTANCE GrammarProofs WITH
  verdict   <- Verdict,
  MethodMax <- HTTP_METHOD_MAX_STRLEN,
  Versions  <- {<<48, 57>>, <<49, 48>>, <<49, 49>>}

\* A head is the first n bytes.
HeadIs(n) == Message!IsHead(stream, type, n)

\* It is the head of the reading.
LEMMA HeadAgrees == \A n : HeadIs(n) <=> Shape!HeadIs(n)
  BY DEF HeadIs, Shape!HeadIs, Message!IsHead, Shape!IsHead, Message!Lead, Shape!Lead,
     Message!FirstLine, Shape!FirstLine, Message!RequestLine, Shape!RequestLine,
     Message!StatusLine, Shape!StatusLine, Message!HeaderLine, Shape!HeaderLine,
     Message!IsVersion, Shape!IsVersion, Message!Eol, Shape!Eol, Message!All, Shape!All,
     Message!B, Shape!B, Message!Max, Shape!Max, Message!Min, Shape!Min,
     Message!IsUriByte, Shape!IsUriByte, Message!IsFieldByte, Shape!IsFieldByte,
     Message!IsZero, Shape!IsZero, Message!IsToken, Shape!IsToken, Message!Tokens,
     Shape!Tokens, Message!IsDigit, Shape!IsDigit, Message!IsCrlf, Shape!IsCrlf,
     Message!IsCrlfOrSpace, Shape!IsCrlfOrSpace, Message!IsIso8859_1, Shape!IsIso8859_1,
     Message!HTAB, Shape!HTAB, Message!LF, Shape!LF, Message!CR, Shape!CR, Message!SP,
     Shape!SP, Message!COLON, Shape!COLON

\* The bytes and their classes are the parser's.
LEMMA BytesAgree ==
  /\ \A p : Shape!At(p) = At(p)
  /\ \A b : /\ IsCrlf(b) <=> b \in Shape!CrlfBytes
            /\ IsCrlfOrSpace(b) <=> b \in Shape!BlankBytes
            /\ IsCrlfOrSpace(b) <=> IsCrlf(b) \/ b = SP
            /\ IsToken(b) <=> b \in Shape!Tokens
            /\ IsDigit(b) <=> b \in Shape!Digits
            /\ IsIso8859_1(b) <=> b \in Shape!TextBytes
            /\ b = HTAB \/ IsIso8859_1(b) <=> b \in Shape!ValueBytes
            /\ ~IsCrlfOrSpace(b) => (IsIso8859_1(b) <=> b \in Shape!UriBytes)
  /\ Shape!CR = CR /\ Shape!LF = LF /\ Shape!SP = SP /\ Shape!COLON = COLON
  BY DEF Shape!At, At, Shape!B, IsCrlf, IsCrlfOrSpace, IsToken, IsDigit, IsIso8859_1,
     Shape!CrlfBytes, Shape!BlankBytes, Shape!Tokens, Tokens, Shape!Digits, Shape!TextBytes,
     Shape!ValueBytes, Shape!UriBytes, Shape!CR, CR, Shape!LF, LF, Shape!SP, SP,
     Shape!COLON, COLON, Shape!HTAB, HTAB

\* What the reading needs is given.
LEMMA ShapeGiven == IInv => Shape!Given
  BY StreamsAssumption DEF IInv, TypeOK, Shape!Given, Shape!Byte, Byte, Shape!Digits,
     HTTP_METHOD_MAX_STRLEN

\* What the reading calls a version is one for the parser.
LEMMA VersionsAgree ==
  ASSUME IInv, NEW c \in Nat, c <= i, i <= Len(stream)
  PROVE  parse_version(c, i) # V_UNKNOWN <=> i = c + 8 /\ Shape!VersionAt(c)
<1> DEFINE text == SubSeq(stream, c + 1, c + 8)
<1>1. i = c + 8 => (parse_version(c, i) # V_UNKNOWN
      <=> \/ text = VersionText(48, 57)
          \/ text = VersionText(49, 48)
          \/ text = VersionText(49, 49))
  BY DEF parse_version, V_UNKNOWN, V0_9, V1_0, V1_1
<1>2. Shape!VersionAt(c) <=>
        c + 8 <= Len(stream) /\ \E v \in {<<48, 57>>, <<49, 48>>, <<49, 49>>} :
                                  text = <<72, 84, 84, 80, 47, v[1], 46, v[2]>>
  BY DEF Shape!VersionAt, Shape!IsVersion
<1>3. (\E v \in {<<48, 57>>, <<49, 48>>, <<49, 49>>} :
         text = <<72, 84, 84, 80, 47, v[1], 46, v[2]>>)
      <=> \/ text = VersionText(48, 57)
          \/ text = VersionText(49, 48)
          \/ text = VersionText(49, 49)
  <2> HIDE DEF text
  <2> QED
    BY DEF VersionText
<1>4. parse_version(c, i) # V_UNKNOWN => i = c + 8
  BY VersionLength
<1> HIDE DEF text
<1> QED
  BY <1>1, <1>2, <1>3, <1>4

-----------------------------------------------------------------------------
(* The invariant *)

\* What is left to be read decides what the heads are, at index p and with
\* the cursor at c.
GrammarAt(p, c) ==
  /\ state = "START"   => \A n \in Nat : HeadIs(n) <=> Shape!RestFromStart(p, n)
  /\ state = "METHOD"  => \E a \in Nat : /\ a < p /\ p = a + Len(method)
                                         /\ \A n \in Nat : HeadIs(n) <=> Shape!RestOfMethod(a, p, n)
  /\ state = "URI"     => \A n \in Nat : HeadIs(n) <=> Shape!RestOfUri(c, p, n)
  /\ state = "VERSION" => \A n \in Nat : HeadIs(n) <=> Shape!RestOfVersion(c, p, n)
  /\ state = "STATUS"  => \E a \in Nat : /\ LeadIs(a) /\ Shape!Over(a + 9, p - 3, {48})
                                         /\ \A n \in Nat : HeadIs(n) <=> Shape!RestOfStatus(a + 9, p, n)
  /\ state = "MESSAGE" => \A n \in Nat : HeadIs(n) <=> Shape!RestOfMessage(p, n)
  /\ state = "CR"      => \A n \in Nat : HeadIs(n) <=> Shape!RestFromCr(p, n)
  /\ state = "LF1"     => \A n \in Nat : HeadIs(n) <=> Shape!HeadersTo(p, n)
  /\ state = "NAME"    => \A n \in Nat : HeadIs(n) <=> Shape!RestOfName(p, n)
  /\ state \in {"COLON", "VALUE"} => \A n \in Nat : HeadIs(n) <=> Shape!RestOfValue(p, n)
  /\ state = "LF2"     => \A n \in Nat : HeadIs(n) <=> Shape!RestFromLastCr(p, n)

GrammarRead == \E p, c \in Nat : p = i /\ c = cursor /\ GrammarAt(p, c)

GrammarInv ==
  /\ pc = "loop" => ret = 0
  /\ ret = 0 => failure # "syntax"
  /\ ret > 0 => failure = "none"
  /\ pc # "freed" /\ ret <= 0 /\ failure # "syntax" => GrammarRead

\* What an iteration owes to it
GrammarStep ==
  /\ failure' = "syntax" => \A n \in Nat : ~HeadIs(n)
  /\ ret' > 0 => ret' = i + 1 /\ HeadIs(i + 1) /\ failure' = "none"
  /\ ret' <= 0 /\ failure' # "syntax" => GrammarRead'

\* A state that is entered with what is left to be read in it
LEMMA Entered ==
  ASSUME UNCHANGED <<stream, type>>, NEW p \in Nat, i' = p, NEW c \in Nat, cursor' = c
  PROVE  /\ state' = "START" /\ (\A n \in Nat : HeadIs(n) <=> Shape!RestFromStart(p, n)) => GrammarRead'
         /\ \A a \in Nat :
              state' = "METHOD" /\ a < p /\ p = a + Len(method')
              /\ (\A n \in Nat : HeadIs(n) <=> Shape!RestOfMethod(a, p, n)) => GrammarRead'
         /\ state' = "URI" /\ (\A n \in Nat : HeadIs(n) <=> Shape!RestOfUri(c, p, n)) => GrammarRead'
         /\ state' = "VERSION" /\ (\A n \in Nat : HeadIs(n) <=> Shape!RestOfVersion(c, p, n)) => GrammarRead'
         /\ \A a \in Nat :
              state' = "STATUS" /\ LeadIs(a)' /\ Shape!Over(a + 9, p - 3, {48})
              /\ (\A n \in Nat : HeadIs(n) <=> Shape!RestOfStatus(a + 9, p, n)) => GrammarRead'
         /\ state' = "MESSAGE" /\ (\A n \in Nat : HeadIs(n) <=> Shape!RestOfMessage(p, n)) => GrammarRead'
         /\ state' = "CR" /\ (\A n \in Nat : HeadIs(n) <=> Shape!RestFromCr(p, n)) => GrammarRead'
         /\ state' = "LF1" /\ (\A n \in Nat : HeadIs(n) <=> Shape!HeadersTo(p, n)) => GrammarRead'
         /\ state' = "NAME" /\ (\A n \in Nat : HeadIs(n) <=> Shape!RestOfName(p, n)) => GrammarRead'
         /\ state' \in {"COLON", "VALUE"} /\ (\A n \in Nat : HeadIs(n) <=> Shape!RestOfValue(p, n)) => GrammarRead'
         /\ state' = "LF2" /\ (\A n \in Nat : HeadIs(n) <=> Shape!RestFromLastCr(p, n)) => GrammarRead'
<1>1. GrammarAt(p, c)' => GrammarRead'
  BY DEF GrammarRead
<1>2. \A n : HeadIs(n)' <=> HeadIs(n)
  BY DEF HeadIs
<1> QED
  BY <1>1, <1>2, Shape!RestsStay DEF GrammarAt

\* A line ends with the byte just read.
LEMMA LineEnded ==
  ASSUME UNCHANGED <<stream, type>>, NEW p \in Nat, p = i, p < Len(stream), i' = p + 1,
         NEW c \in Nat, cursor' = c,
         IsCrlf(Ch), state' = EndOfLine,
         \A n \in Nat : HeadIs(n) <=> Shape!RestFromEnd(p, n)
  PROVE  GrammarRead'
<1>1. p + 1 \in Nat /\ Ch = Shape!At(p)
  BY BytesAgree DEF Ch
<1>2. CASE Ch = CR
  <2>1. state' = "CR" /\ \A n \in Nat : HeadIs(n) <=> Shape!RestFromCr(p + 1, n)
    BY <1>1, <1>2, Shape!EndSteps, BytesAgree DEF EndOfLine
  <2> QED
    BY <1>1, <2>1, Entered
<1>3. CASE Ch = LF
  <2>1. state' = "LF1" /\ \A n \in Nat : HeadIs(n) <=> Shape!HeadersTo(p + 1, n)
    BY <1>1, <1>3, Shape!EndSteps, BytesAgree, Shape!ClassesApart DEF EndOfLine
  <2> QED
    BY <1>1, <2>1, Entered
<1> QED
  BY <1>2, <1>3 DEF IsCrlf

-----------------------------------------------------------------------------
(* The first line's iterations *)

\* What an iteration has to go on
LEMMA AtByte ==
  ASSUME IInv, GrammarRead, pc = "loop", BytesLeft
  PROVE  \E p, c \in Nat : /\ p = i /\ c = cursor /\ c <= p /\ p < Len(stream)
                           /\ Ch = Shape!At(p) /\ GrammarAt(p, c)
<1>1. PICK p, c \in Nat : p = i /\ c = cursor /\ GrammarAt(p, c)
  BY DEF GrammarRead
<1>2. cursor <= i /\ i < Len(stream)
  BY ByteThere, FieldTypes
<1> QED
  BY <1>1, <1>2, BytesAgree DEF Ch

\* STATE_START
LEMMA StartGrammar ==
  ASSUME IInv, ret = 0, GrammarRead, FirstLineRead(TRUE), ParseStart
  PROVE  GrammarStep
<1>1. /\ state = "START" /\ pc = "loop" /\ BytesLeft
      /\ UNCHANGED <<stream, type>>
  BY DEF ParseStart, Reading, Outside, peer
<1>2. PICK p, c \in Nat : /\ p = i /\ c = cursor /\ c <= p /\ p < Len(stream)
                          /\ Ch = Shape!At(p) /\ GrammarAt(p, c)
  BY <1>1, AtByte
<1>3. \A n \in Nat : HeadIs(n) <=> Shape!RestFromStart(p, n)
  BY <1>1, <1>2 DEF GrammarAt
<1>4. p + 1 \in Nat /\ (IsCrlf(Ch) <=> Shape!At(p) \in Shape!CrlfBytes)
  BY <1>2, BytesAgree
<1>5. CASE IsCrlf(Ch)
  <2>1. /\ state' = "START" /\ i' = p + 1 /\ cursor' = c
        /\ ret' = 0 /\ failure' = "none"
    BY <1>2, <1>5 DEF ParseStart, Continue
  <2>2. \A n \in Nat : HeadIs(n) <=> Shape!RestFromStart(p + 1, n)
    BY <1>2, <1>3, <1>4, <1>5, Shape!StartSteps, BytesAgree
  <2>3. GrammarRead'
    BY <1>1, <1>4, <2>1, <2>2, Entered
  <2> QED
    BY <2>1, <2>3 DEF GrammarStep
<1>6. CASE ~IsCrlf(Ch) /\ type = REQUEST
  <2>1. cursor' = p /\ InsertMethodChar
    BY <1>2, <1>6 DEF ParseStart
  <2>2. method = <<>>
    BY <1>1 DEF FirstLineRead, StartOfLine
  <2>3. \A n \in Nat : HeadIs(n) <=> Shape!RestOfMethod(p, p, n)
    BY <1>2, <1>3, <1>4, <1>6, Shape!StartSteps, BytesAgree DEF Shape!RestOfFirst, REQUEST
  <2>4. CASE IsToken(Ch)
    <3>1. /\ state' = "METHOD" /\ i' = p + 1 /\ Len(method') = 1
          /\ ret' = 0 /\ failure' = "none"
      BY <1>2, <2>1, <2>2, <2>4 DEF InsertMethodChar, Continue, HTTP_METHOD_MAX_STRLEN
    <3>2. \A n \in Nat : HeadIs(n) <=> Shape!RestOfMethod(p, p + 1, n)
      BY <1>2, <2>3, <2>4, Shape!MethodSteps, BytesAgree
    <3>3. p < p + 1
      OBVIOUS
    <3>4. GrammarRead'
      BY <1>1, <1>4, <2>1, <3>1, <3>2, <3>3, Entered
    <3> QED
      BY <3>1, <3>4 DEF GrammarStep
  <2>5. CASE ~IsToken(Ch)
    <3>1. ret' = -1 /\ failure' = "syntax"
      BY <2>1, <2>5 DEF InsertMethodChar, Fail
    <3>2. \A n \in Nat : ~HeadIs(n)
      BY <1>2, <2>3, <2>5, Shape!MethodSteps, BytesAgree
    <3> QED
      BY <3>1, <3>2 DEF GrammarStep
  <2> QED
    BY <2>4, <2>5
<1>7. CASE ~IsCrlf(Ch) /\ type # REQUEST
  <2>1. /\ state' = "VERSION" /\ i' = p + 1 /\ cursor' = p
        /\ ret' = 0 /\ failure' = "none"
    BY <1>2, <1>7 DEF ParseStart, Continue
  <2>2. \A n \in Nat : HeadIs(n) <=> Shape!RestOfVersion(p, p, n)
    BY <1>2, <1>3, <1>4, <1>7, Shape!StartSteps, BytesAgree DEF Shape!RestOfFirst, REQUEST
  <2>3. \A n \in Nat : HeadIs(n) <=> Shape!RestOfVersion(p, p + 1, n)
    BY <1>2, <2>2, ShapeGiven, Shape!VersionSteps, BytesAgree
  <2>4. GrammarRead'
    BY <1>1, <1>2, <1>4, <2>1, <2>3, Entered
  <2> QED
    BY <2>1, <2>4 DEF GrammarStep
<1> QED
  BY <1>5, <1>6, <1>7

\* STATE_METHOD
LEMMA MethodGrammar ==
  ASSUME IInv, ret = 0, GrammarRead, ParseMethod
  PROVE  GrammarStep
<1>1. /\ state = "METHOD" /\ pc = "loop" /\ BytesLeft
      /\ UNCHANGED <<stream, type>>
  BY DEF ParseMethod, Reading, Outside, peer
<1>2. PICK p, c \in Nat : /\ p = i /\ c = cursor /\ c <= p /\ p < Len(stream)
                          /\ Ch = Shape!At(p) /\ GrammarAt(p, c)
  BY <1>1, AtByte
<1>3. PICK a \in Nat : /\ a < p /\ p = a + Len(method)
                       /\ \A n \in Nat : HeadIs(n) <=> Shape!RestOfMethod(a, p, n)
  BY <1>1, <1>2 DEF GrammarAt
<1>4. /\ p + 1 \in Nat /\ a <= p
      /\ method \in Seq(Byte) /\ Len(method) \in Nat
      /\ Len(method) <= HTTP_METHOD_MAX_STRLEN /\ HTTP_METHOD_MAX_STRLEN \in Nat
  BY <1>3 DEF IInv, TypeOK, HTTP_METHOD_MAX_STRLEN
<1>5. CASE Ch = SP
  <2>1. /\ state' = "URI" /\ i' = p + 1 /\ cursor' = p + 1
        /\ ret' = 0 /\ failure' = "none"
    BY <1>2, <1>5 DEF ParseMethod, Continue, NextOffset
  <2>2. p <= a + HTTP_METHOD_MAX_STRLEN
    BY <1>3, <1>4
  <2>3. \A n \in Nat : HeadIs(n) <=> Shape!RestOfUri(p + 1, p + 1, n)
    BY <1>2, <1>3, <1>4, <1>5, <2>2, Shape!MethodSteps, BytesAgree
  <2>4. GrammarRead'
    BY <1>1, <1>4, <2>1, <2>3, Entered
  <2> QED
    BY <2>1, <2>4 DEF GrammarStep
<1>6. CASE Ch # SP /\ Len(method) # HTTP_METHOD_MAX_STRLEN /\ IsToken(Ch)
  <2>1. /\ state' = "METHOD" /\ i' = p + 1 /\ cursor' = c
        /\ method' = Append(method, Upper(Ch))
        /\ ret' = 0 /\ failure' = "none"
    BY <1>2, <1>6 DEF ParseMethod, InsertMethodChar, Continue
  <2>2. Len(method') = Len(method) + 1
    BY <1>4, <2>1
  <2>3. a < p + 1 /\ p + 1 = a + Len(method')
    BY <1>3, <1>4, <2>2
  <2>4. \A n \in Nat : HeadIs(n) <=> Shape!RestOfMethod(a, p + 1, n)
    BY <1>2, <1>3, <1>4, <1>6, Shape!MethodSteps, BytesAgree
  <2>5. GrammarRead'
    BY <1>1, <1>4, <2>1, <2>3, <2>4, Entered
  <2> QED
    BY <2>1, <2>5 DEF GrammarStep
<1>7. CASE Ch # SP /\ (Len(method) = HTTP_METHOD_MAX_STRLEN \/ ~IsToken(Ch))
  <2>1. ret' = -1 /\ failure' = "syntax"
    BY <1>7 DEF ParseMethod, InsertMethodChar, Fail
  <2>2. \A n \in Nat : ~HeadIs(n)
    BY <1>2, <1>3, <1>4, <1>7, Shape!MethodSteps, BytesAgree
  <2> QED
    BY <2>1, <2>2 DEF GrammarStep
<1> QED
  BY <1>5, <1>6, <1>7

\* STATE_URI
LEMMA UriGrammar ==
  ASSUME IInv, ret = 0, GrammarRead, ParseUri
  PROVE  GrammarStep
<1>1. /\ state = "URI" /\ pc = "loop" /\ BytesLeft
      /\ UNCHANGED <<stream, type>>
  BY DEF ParseUri, Reading, Outside, peer
<1>2. PICK p, c \in Nat : /\ p = i /\ c = cursor /\ c <= p /\ p < Len(stream)
                          /\ Ch = Shape!At(p) /\ GrammarAt(p, c)
  BY <1>1, AtByte
<1>3. \A n \in Nat : HeadIs(n) <=> Shape!RestOfUri(c, p, n)
  BY <1>1, <1>2 DEF GrammarAt
<1>4. /\ p + 1 \in Nat
      /\ IsCrlf(Ch) <=> Shape!At(p) \in Shape!CrlfBytes
      /\ IsCrlfOrSpace(Ch) <=> Shape!At(p) \in Shape!BlankBytes
      /\ IsCrlfOrSpace(Ch) <=> IsCrlf(Ch) \/ Ch = SP
      /\ ~IsCrlfOrSpace(Ch) => (IsIso8859_1(Ch) <=> Shape!At(p) \in Shape!UriBytes)
  BY <1>2, BytesAgree
<1>5. CASE IsCrlfOrSpace(Ch) /\ i = cursor
  <2>1. ret' = -1 /\ failure' = "syntax"
    BY <1>4, <1>5 DEF ParseUri, Fail
  <2>2. \A n \in Nat : ~HeadIs(n)
    BY <1>2, <1>3, <1>4, <1>5, Shape!UriSteps, BytesAgree
  <2> QED
    BY <2>1, <2>2 DEF GrammarStep
<1>6. CASE Ch = SP /\ i # cursor
  <2>1. /\ state' = "VERSION" /\ i' = p + 1 /\ cursor' = p + 1
        /\ ret' = 0 /\ failure' = "none"
    BY <1>2, <1>6 DEF ParseUri, Continue, NextOffset, IsCrlf, IsCrlfOrSpace, SP, CR, LF
  <2>2. \A n \in Nat : HeadIs(n) <=> Shape!RestOfVersion(p + 1, p + 1, n)
    BY <1>2, <1>3, <1>6, Shape!UriSteps, BytesAgree
  <2>3. GrammarRead'
    BY <1>1, <1>4, <2>1, <2>2, Entered
  <2> QED
    BY <2>1, <2>3 DEF GrammarStep
<1>7. CASE IsCrlf(Ch) /\ i # cursor
  <2>1. /\ state' = EndOfLine /\ i' = p + 1 /\ cursor' = c
        /\ ret' = 0 /\ failure' = "none"
    BY <1>2, <1>4, <1>7 DEF ParseUri, Continue, IsCrlf, SP, CR, LF
  <2>2. \A n \in Nat : HeadIs(n) <=> Shape!RestFromEnd(p, n)
    BY <1>2, <1>3, <1>4, <1>7, Shape!UriSteps, BytesAgree
  <2>3. GrammarRead'
    BY <1>1, <1>2, <1>7, <2>1, <2>2, LineEnded
  <2> QED
    BY <2>1, <2>3 DEF GrammarStep
<1>8. CASE ~IsCrlfOrSpace(Ch) /\ IsIso8859_1(Ch)
  <2>1. /\ state' = "URI" /\ i' = p + 1 /\ cursor' = c
        /\ ret' = 0 /\ failure' = "none"
    BY <1>2, <1>4, <1>8 DEF ParseUri, Continue
  <2>2. \A n \in Nat : HeadIs(n) <=> Shape!RestOfUri(c, p + 1, n)
    BY <1>2, <1>3, <1>4, <1>8, Shape!UriSteps, BytesAgree
  <2>3. GrammarRead'
    BY <1>1, <1>4, <2>1, <2>2, Entered
  <2> QED
    BY <2>1, <2>3 DEF GrammarStep
<1>9. CASE ~IsCrlfOrSpace(Ch) /\ ~IsIso8859_1(Ch)
  <2>1. ret' = -1 /\ failure' = "syntax"
    BY <1>4, <1>9 DEF ParseUri, Fail
  <2>2. \A n \in Nat : ~HeadIs(n)
    BY <1>2, <1>3, <1>4, <1>9, Shape!UriSteps, BytesAgree
  <2> QED
    BY <2>1, <2>2 DEF GrammarStep
<1> QED
  BY <1>4, <1>5, <1>6, <1>7, <1>8, <1>9

\* STATE_VERSION, of either type
LEMMA VersionGrammar ==
  ASSUME IInv, ret = 0, GrammarRead, FirstLineRead(TRUE), ParseVersion
  PROVE  GrammarStep
<1>1. /\ state = "VERSION" /\ pc = "loop" /\ BytesLeft
      /\ UNCHANGED <<stream, type>>
  BY DEF ParseVersion, Reading, Outside, peer
<1>2. PICK p, c \in Nat : /\ p = i /\ c = cursor /\ c <= p /\ p < Len(stream)
                          /\ Ch = Shape!At(p) /\ GrammarAt(p, c)
  BY <1>1, AtByte
<1>3. \A n \in Nat : HeadIs(n) <=> Shape!RestOfVersion(c, p, n)
  BY <1>1, <1>2 DEF GrammarAt
<1>4. /\ p + 1 \in Nat /\ Len(stream) \in Nat
      /\ IsCrlfOrSpace(Ch) <=> Shape!At(p) \in Shape!BlankBytes
      /\ IsCrlfOrSpace(Ch) <=> IsCrlf(Ch) \/ Ch = SP
  BY <1>2, StreamsAssumption, BytesAgree DEF IInv, TypeOK
<1> DEFINE known == parse_version(c, p) # V_UNKNOWN
<1>4a. known <=> p = c + 8 /\ Shape!VersionAt(c)
  BY <1>2, VersionsAgree
<1>5. CASE ~IsCrlfOrSpace(Ch)
  <2>1. /\ state' = "VERSION" /\ i' = p + 1 /\ cursor' = c
        /\ ret' = 0 /\ failure' = "none"
    BY <1>2, <1>5 DEF ParseVersion, Continue
  <2>2. \A n \in Nat : HeadIs(n) <=> Shape!RestOfVersion(c, p + 1, n)
    BY <1>2, <1>3, <1>4, <1>5, ShapeGiven, Shape!VersionSteps, BytesAgree
  <2>3. GrammarRead'
    BY <1>1, <1>4, <2>1, <2>2, Entered
  <2> QED
    BY <2>1, <2>3 DEF GrammarStep
<1>6. CASE IsCrlfOrSpace(Ch) /\ parse_version(c, p) = V_UNKNOWN
  <2>1. ret' = -1 /\ failure' = "syntax"
    BY <1>2, <1>6 DEF ParseVersion, Fail
  <2>2. \A n \in Nat : ~HeadIs(n)
    BY <1>2, <1>3, <1>4, <1>4a, <1>6, ShapeGiven, Shape!VersionSteps, BytesAgree
  <2> QED
    BY <2>1, <2>2 DEF GrammarStep
<1>7. CASE IsCrlfOrSpace(Ch) /\ parse_version(c, p) # V_UNKNOWN
  <2>1. /\ i' = p + 1 /\ cursor' = c
        /\ state' = IF type = REQUEST THEN EndOfLine ELSE "STATUS"
        /\ ret' = 0 /\ failure' = "none"
    BY <1>2, <1>7 DEF ParseVersion, Continue
  <2>2. p = c + 8
    BY <1>2, <1>4, <1>7, VersionLength
  <2>3. \A n \in Nat : HeadIs(n) <=>
                         IF type = REQUEST
                           THEN IF Shape!At(p) = SP THEN Shape!HeadersTo(p + 1, n) ELSE Shape!RestFromEnd(p, n)
                           ELSE Shape!RestOfStatus(p + 1, p + 1, n)
    BY <1>2, <1>3, <1>4, <1>4a, <1>7, <2>2, ShapeGiven, Shape!VersionSteps, BytesAgree DEF REQUEST
  <2>4. CASE type = REQUEST /\ Ch = SP
    <3>1. state' = "LF1"
      BY <2>1, <2>4 DEF EndOfLine, SP, CR
    <3>2. \A n \in Nat : HeadIs(n) <=> Shape!HeadersTo(p + 1, n)
      BY <1>2, <2>3, <2>4
    <3>3. GrammarRead'
      BY <1>1, <1>4, <2>1, <3>1, <3>2, Entered
    <3> QED
      BY <2>1, <3>3 DEF GrammarStep
  <2>5. CASE type = REQUEST /\ Ch # SP
    <3>1. state' = EndOfLine /\ IsCrlf(Ch)
      BY <1>4, <1>7, <2>1, <2>5
    <3>2. \A n \in Nat : HeadIs(n) <=> Shape!RestFromEnd(p, n)
      BY <1>2, <2>3, <2>5
    <3>3. GrammarRead'
      BY <1>1, <1>2, <2>1, <3>1, <3>2, LineEnded
    <3> QED
      BY <2>1, <3>3 DEF GrammarStep
  <2>6. CASE type # REQUEST
    <3>1. LeadIs(c)'
      <4>1. LeadIs(c)
        BY <1>1, <1>2, <2>6 DEF FirstLineRead, InStatusVersion
      <4> QED
        BY <1>1, <1>2, <2>1, <4>1, FoundStays
    <3>2. \A n \in Nat : HeadIs(n) <=> Shape!RestOfStatus(c + 9, p + 1, n)
      <4>1. p + 1 = c + 9
        BY <2>2
      <4> QED
        BY <2>3, <2>6, <4>1
    <3>3. Shape!Over(c + 9, (p + 1) - 3, {48})
      BY <2>2 DEF Shape!Over
    <3>4. GrammarRead'
      BY <1>1, <1>4, <2>1, <2>6, <3>1, <3>2, <3>3, Entered
    <3> QED
      BY <2>1, <3>4 DEF GrammarStep
  <2> QED
    BY <2>4, <2>5, <2>6
<1> QED
  BY <1>5, <1>6, <1>7

\* A status is not too small if it has three digits, the first of the last
\* three not being a zero.
LEMMA StatusShape ==
  ASSUME IInv, NEW d \in Nat, d <= i, \A k \in d..(i - 1) : IsDigit(At(k)), StatusIs(d, i)
  PROVE  ~(line.status < HTTP_STATUS_MIN) <=> d + 3 <= i /\ At(i - 3) # 48
<1>1. i \in Nat
  BY FieldTypes
<1>2. CASE i = d
  BY <1>1, <1>2 DEF StatusIs, HTTP_STATUS_MIN
<1>3. CASE i = d + 1
  BY <1>1, <1>3, DigitValues DEF StatusIs, HTTP_STATUS_MIN
<1>4. CASE i = d + 2
  BY <1>1, <1>4, DigitValues DEF StatusIs, HTTP_STATUS_MIN
<1>5. CASE i >= d + 3
  <2>1. Digit(i, 1) \in 0..9 /\ Digit(i, 2) \in 0..9 /\ Digit(i, 3) \in 0..9
    BY <1>1, <1>5, DigitValues
  <2>2. line.status = 100 * Digit(i, 3) + 10 * Digit(i, 2) + Digit(i, 1)
    BY <1>1, <1>5 DEF StatusIs
  <2>3. Digit(i, 3) # 0 <=> At(i - 3) # 48
    <3>1. IsDigit(At(i - 3))
      BY <1>1, <1>5
    <3> QED
      BY <3>1 DEF Digit, IsDigit
  <2> QED
    BY <1>1, <1>5, <2>1, <2>2, <2>3 DEF HTTP_STATUS_MIN
<1> QED
  BY <1>1, <1>2, <1>3, <1>4, <1>5

\* STATE_STATUS
LEMMA StatusGrammar ==
  ASSUME IInv, ret = 0, GrammarRead, FirstLineRead(TRUE), ParseStatus
  PROVE  GrammarStep
<1>1. /\ state = "STATUS" /\ pc = "loop" /\ BytesLeft
      /\ UNCHANGED <<stream, type>>
  BY DEF ParseStatus, Reading, Outside, peer
<1>2. PICK p, c \in Nat : /\ p = i /\ c = cursor /\ c <= p /\ p < Len(stream)
                          /\ Ch = Shape!At(p) /\ GrammarAt(p, c)
  BY <1>1, AtByte
<1>3. PICK a \in Nat : /\ LeadIs(a) /\ Shape!Over(a + 9, p - 3, {48})
                       /\ \A n \in Nat : HeadIs(n) <=> Shape!RestOfStatus(a + 9, p, n)
  BY <1>1, <1>2 DEF GrammarAt
<1>4. /\ a + 9 <= i /\ \A k \in (a + 9)..(i - 1) : IsDigit(At(k))
      /\ StatusIs(a + 9, i) /\ line.status <= HTTP_STATUS_MAX
  <2>1. PICK b \in 0..i :
          /\ LeadIs(b)
          /\ Lacks(b + 9, BlankBytes)
          /\ \A k \in (b + 9)..(i - 1) : IsDigit(At(k))
          /\ StatusIs(b + 9, i)
          /\ line.status <= HTTP_STATUS_MAX
    BY <1>1 DEF FirstLineRead, InStatus
  <2>2. b \in Nat
    BY FieldTypes
  <2>3. a = b
    BY <1>3, <2>1, <2>2, LeadOf
  <2> QED
    BY <2>1, <2>3 DEF Lacks
<1> DEFINE d == a + 9
<1>5. /\ p + 1 \in Nat /\ d \in Nat /\ d <= p /\ line.status \in Nat
      /\ IsCrlf(Ch) <=> Shape!At(p) \in Shape!CrlfBytes
      /\ IsCrlfOrSpace(Ch) <=> Shape!At(p) \in Shape!BlankBytes
      /\ IsCrlfOrSpace(Ch) <=> IsCrlf(Ch) \/ Ch = SP
      /\ IsDigit(Ch) <=> Shape!At(p) \in Shape!Digits
      /\ IsCrlfOrSpace(Ch) => ~IsDigit(Ch)
      /\ Ch = SP => ~IsCrlf(Ch)
  <2>1. p + 1 \in Nat /\ d \in Nat /\ d <= p
    BY <1>2, <1>4
  <2>2. line.status \in Nat
    BY FieldTypes, Widths DEF Lines
  <2>3. /\ IsCrlf(Ch) <=> Shape!At(p) \in Shape!CrlfBytes
        /\ IsCrlfOrSpace(Ch) <=> Shape!At(p) \in Shape!BlankBytes
        /\ IsCrlfOrSpace(Ch) <=> IsCrlf(Ch) \/ Ch = SP
        /\ IsDigit(Ch) <=> Shape!At(p) \in Shape!Digits
    BY <1>2, BytesAgree
  <2>4. /\ IsCrlfOrSpace(Ch) => ~IsDigit(Ch)
        /\ Ch = SP => ~IsCrlf(Ch)
    BY DEF IsCrlf, IsCrlfOrSpace, IsDigit, SP, CR, LF
  <2> HIDE DEF d
  <2> QED
    BY <2>1, <2>2, <2>3, <2>4
<1>6. ~(line.status < HTTP_STATUS_MIN) <=> d + 3 <= p /\ At(p - 3) # 48
  BY <1>2, <1>4, <1>5, StatusShape
<1>7. Shape!Over(d, p - 3, {48}) /\ (d + 3 <= p => Shape!Over(p - 3, p, Shape!Digits))
  <2>1. ASSUME d + 3 <= p, NEW k \in (p - 3)..(p - 1) PROVE At(k) \in Shape!Digits
    <3>1. k \in d..(i - 1)
      BY <1>2, <2>1
    <3> QED
      BY <1>4, <3>1, BytesAgree
  <2> QED
    BY <1>3, <2>1, BytesAgree DEF Shape!Over
<1>8. \A n \in Nat : HeadIs(n) <=> Shape!RestOfStatus(d, p, n)
  BY <1>3
<1>9. HTTP_STATUS_MIN = 100 /\ HTTP_STATUS_MAX = 999
  BY DEF HTTP_STATUS_MIN, HTTP_STATUS_MAX
<1>10. LeadIs(a)' \/ i' \notin {i, i + 1}
  BY <1>1, <1>3, FoundStays
<1> HIDE DEF d
<1>11. ASSUME ~IsDigit(Ch), NEW n \in Nat
       PROVE  HeadIs(n) <=> /\ ~(line.status < HTTP_STATUS_MIN)
                            /\ Shape!RestFromEnd(p, n) \/ (Ch = SP /\ Shape!RestOfMessage(p + 1, n))
  BY <1>2, <1>5, <1>6, <1>7, <1>8, <1>11, Shape!StatusSteps, BytesAgree
<1>12. CASE IsCrlfOrSpace(Ch) /\ line.status < HTTP_STATUS_MIN
  <2>1. ret' = -1 /\ failure' = "syntax"
    BY <1>5, <1>9, <1>12 DEF ParseStatus, Fail
  <2>2. \A n \in Nat : ~HeadIs(n)
    BY <1>5, <1>11, <1>12
  <2> QED
    BY <2>1, <2>2 DEF GrammarStep
<1>13. CASE Ch = SP /\ ~(line.status < HTTP_STATUS_MIN)
  <2>1. /\ state' = "MESSAGE" /\ i' = p + 1 /\ cursor' = p + 1
        /\ ret' = 0 /\ failure' = "none"
    BY <1>2, <1>5, <1>9, <1>13 DEF ParseStatus, Continue, NextOffset
  <2>2. \A n \in Nat : ~Shape!RestFromEnd(p, n)
    BY <1>2, <1>5, <1>13, Shape!EndSteps, BytesAgree
  <2>3. \A n \in Nat : HeadIs(n) <=> Shape!RestOfMessage(p + 1, n)
    BY <1>5, <1>11, <1>13, <2>2
  <2>4. GrammarRead'
    BY <1>1, <1>5, <2>1, <2>3, Entered
  <2> QED
    BY <2>1, <2>4 DEF GrammarStep
<1>14. CASE IsCrlf(Ch) /\ ~(line.status < HTTP_STATUS_MIN)
  <2>1. /\ state' = EndOfLine /\ i' = p + 1 /\ cursor' = c
        /\ ret' = 0 /\ failure' = "none"
    BY <1>2, <1>5, <1>9, <1>14 DEF ParseStatus, Continue
  <2>2. \A n \in Nat : HeadIs(n) <=> Shape!RestFromEnd(p, n)
    BY <1>5, <1>11, <1>14
  <2>3. GrammarRead'
    BY <1>1, <1>2, <1>14, <2>1, <2>2, LineEnded
  <2> QED
    BY <2>1, <2>3 DEF GrammarStep
<1>15. CASE ~IsCrlfOrSpace(Ch)
  <2>1. AppendToStatus /\ cursor' = c
    BY <1>2, <1>5, <1>15 DEF ParseStatus
  <2>2. CASE ~IsDigit(Ch)
    <3>1. ret' = -1 /\ failure' = "syntax"
      BY <2>1, <2>2 DEF AppendToStatus, Fail
    <3>2. \A n \in Nat : ~Shape!RestFromEnd(p, n)
      BY <1>2, <1>5, <1>15, Shape!EndSteps, BytesAgree
    <3>3. \A n \in Nat : ~HeadIs(n)
      BY <1>5, <1>11, <1>15, <2>2, <3>2
    <3> QED
      BY <3>1, <3>3 DEF GrammarStep
  <2>3. CASE IsDigit(Ch)
    <3>1. PICK v \in 0..9 : v = Ch - 48
      BY <2>3 DEF IsDigit
    <3>2. Appended(line.status, Ch) = 10 * line.status + v
      <4>1. line.status * 10 + v \in 0..(UINT32 - 1)
        BY <1>4, <1>5, <1>9, <3>1, Widths DEF HTTP_STATUS_MAX
      <4>2. Appended(line.status, Ch) = (line.status * 10 + v) % UINT32
        BY <3>1 DEF Appended
      <4> QED
        BY <1>5, <3>1, <4>1, <4>2, Widths
    <3>3. \A n \in Nat : HeadIs(n) <=> Shape!RestOfStatus(d, p + 1, n)
      BY <1>2, <1>5, <1>8, <2>3, Shape!StatusSteps, BytesAgree
    <3>4. CASE 10 * line.status + v > 999
      <4>1. ret' = -1 /\ failure' = "syntax"
        BY <1>9, <2>1, <2>3, <3>2, <3>4 DEF AppendToStatus, Fail
      <4>2. d + 3 <= p /\ At(p - 3) # 48
        BY <1>5, <1>6, <1>9, <3>1, <3>4
      <4>3. ASSUME NEW w \in Nat, p + 1 <= w, Shape!Over(d, w - 3, {48}) PROVE FALSE
        <5>1. p - 3 \in d..((w - 3) - 1)
          BY <1>5, <4>2, <4>3
        <5> QED
          BY <4>2, <4>3, <5>1, BytesAgree DEF Shape!Over
      <4>4. \A n \in Nat : ~HeadIs(n)
        BY <3>3, <4>3 DEF Shape!RestOfStatus
      <4> QED
        BY <4>1, <4>4 DEF GrammarStep
    <3>5. CASE ~(10 * line.status + v > 999)
      <4>1. /\ state' = "STATUS" /\ i' = p + 1
            /\ ret' = 0 /\ failure' = "none"
        BY <1>2, <1>9, <2>1, <2>3, <3>2, <3>5 DEF AppendToStatus, Continue
      <4>2. d + 3 <= p => At(p - 3) = 48
        BY <1>5, <1>6, <1>9, <3>1, <3>5
      <4>3. Shape!Over(d, (p + 1) - 3, {48})
        <5>1. \A k \in d..((p + 1) - 3 - 1) : k \in d..((p - 3) - 1) \/ (k = p - 3 /\ d + 3 <= p)
          BY <1>5
        <5> QED
          BY <1>7, <4>2, <5>1, BytesAgree DEF Shape!Over
      <4>4. LeadIs(a)'
        BY <1>2, <1>10, <4>1
      <4>5. GrammarRead'
        <5>1. Shape!Over(a + 9, (p + 1) - 3, {48}) /\ \A n \in Nat : HeadIs(n) <=> Shape!RestOfStatus(a + 9, p + 1, n)
          BY <3>3, <4>3 DEF d
        <5> QED
          BY <1>1, <1>5, <2>1, <4>1, <4>4, <5>1, Entered
      <4> QED
        BY <4>1, <4>5 DEF GrammarStep
    <3> QED
      BY <3>4, <3>5
  <2> QED
    BY <2>2, <2>3
<1> QED
  BY <1>5, <1>12, <1>13, <1>14, <1>15

\* STATE_MESSAGE
LEMMA MessageGrammar ==
  ASSUME IInv, ret = 0, GrammarRead, ParseMessage
  PROVE  GrammarStep
<1>1. /\ state = "MESSAGE" /\ pc = "loop" /\ BytesLeft
      /\ UNCHANGED <<stream, type>>
  BY DEF ParseMessage, Reading, Outside, peer
<1>2. PICK p, c \in Nat : /\ p = i /\ c = cursor /\ c <= p /\ p < Len(stream)
                          /\ Ch = Shape!At(p) /\ GrammarAt(p, c)
  BY <1>1, AtByte
<1>3. \A n \in Nat : HeadIs(n) <=> Shape!RestOfMessage(p, n)
  BY <1>1, <1>2 DEF GrammarAt
<1>4. /\ p + 1 \in Nat
      /\ IsCrlf(Ch) <=> Shape!At(p) \in Shape!CrlfBytes
      /\ IsIso8859_1(Ch) <=> Shape!At(p) \in Shape!TextBytes
  BY <1>2, BytesAgree
<1>5. CASE IsCrlf(Ch)
  <2>1. /\ state' = EndOfLine /\ i' = p + 1 /\ cursor' = c
        /\ ret' = 0 /\ failure' = "none"
    BY <1>2, <1>5 DEF ParseMessage, Continue
  <2>2. \A n \in Nat : HeadIs(n) <=> Shape!RestFromEnd(p, n)
    BY <1>2, <1>3, <1>4, <1>5, Shape!MessageSteps, BytesAgree
  <2>3. GrammarRead'
    BY <1>1, <1>2, <1>5, <2>1, <2>2, LineEnded
  <2> QED
    BY <2>1, <2>3 DEF GrammarStep
<1>6. CASE ~IsCrlf(Ch) /\ IsIso8859_1(Ch)
  <2>1. /\ state' = "MESSAGE" /\ i' = p + 1 /\ cursor' = c
        /\ ret' = 0 /\ failure' = "none"
    BY <1>2, <1>6 DEF ParseMessage, Continue
  <2>2. \A n \in Nat : HeadIs(n) <=> Shape!RestOfMessage(p + 1, n)
    BY <1>2, <1>3, <1>4, <1>6, Shape!MessageSteps, BytesAgree
  <2>3. GrammarRead'
    BY <1>1, <1>4, <2>1, <2>2, Entered
  <2> QED
    BY <2>1, <2>3 DEF GrammarStep
<1>7. CASE ~IsCrlf(Ch) /\ ~IsIso8859_1(Ch)
  <2>1. ret' = -1 /\ failure' = "syntax"
    BY <1>7 DEF ParseMessage, Fail
  <2>2. \A n \in Nat : ~HeadIs(n)
    BY <1>2, <1>3, <1>4, <1>7, Shape!MessageSteps, BytesAgree
  <2> QED
    BY <2>1, <2>2 DEF GrammarStep
<1> QED
  BY <1>5, <1>6, <1>7

-----------------------------------------------------------------------------
(* The iterations of the header lines *)

\* STATE_CR
LEMMA CrGrammar ==
  ASSUME IInv, ret = 0, GrammarRead, ParseCr
  PROVE  GrammarStep
<1>1. /\ state = "CR" /\ pc = "loop" /\ BytesLeft
      /\ UNCHANGED <<stream, type, cursor>>
  BY DEF ParseCr, Reading, Outside, peer
<1>2. PICK p, c \in Nat : /\ p = i /\ c = cursor /\ c <= p /\ p < Len(stream)
                          /\ Ch = Shape!At(p) /\ GrammarAt(p, c)
  BY <1>1, AtByte
<1>3. \A n \in Nat : HeadIs(n) <=> Shape!RestFromCr(p, n)
  BY <1>1, <1>2 DEF GrammarAt
<1>4. p + 1 \in Nat
  OBVIOUS
<1>5. CASE Ch = LF
  <2>1. /\ state' = "LF1" /\ i' = p + 1 /\ cursor' = c
        /\ ret' = 0 /\ failure' = "none"
    BY <1>1, <1>2, <1>5 DEF ParseCr, Continue
  <2>2. \A n \in Nat : HeadIs(n) <=> Shape!HeadersTo(p + 1, n)
    BY <1>2, <1>3, <1>5, BytesAgree DEF Shape!RestFromCr
  <2>3. GrammarRead'
    BY <1>1, <1>4, <2>1, <2>2, Entered
  <2> QED
    BY <2>1, <2>3 DEF GrammarStep
<1>6. CASE Ch # LF
  <2>1. ret' = -1 /\ failure' = "syntax"
    BY <1>6 DEF ParseCr, Fail
  <2>2. \A n \in Nat : ~HeadIs(n)
    BY <1>2, <1>3, <1>6, BytesAgree DEF Shape!RestFromCr
  <2> QED
    BY <2>1, <2>2 DEF GrammarStep
<1> QED
  BY <1>5, <1>6

\* STATE_LF1
LEMMA Lf1Grammar ==
  ASSUME IInv, ret = 0, GrammarRead, ParseLf1
  PROVE  GrammarStep
<1>1. /\ state = "LF1" /\ pc = "loop" /\ BytesLeft
      /\ UNCHANGED <<stream, type, cursor>>
  BY DEF ParseLf1, Reading, Outside, peer
<1>2. PICK p, c \in Nat : /\ p = i /\ c = cursor /\ c <= p /\ p < Len(stream)
                          /\ Ch = Shape!At(p) /\ GrammarAt(p, c)
  BY <1>1, AtByte
<1>3. \A n \in Nat : HeadIs(n) <=> Shape!HeadersTo(p, n)
  BY <1>1, <1>2 DEF GrammarAt
<1>4. /\ p + 1 \in Nat
      /\ IsCrlf(Ch) <=> Ch = CR \/ Ch = LF
      /\ IsCrlf(Ch) <=> Shape!At(p) \in Shape!CrlfBytes
      /\ IsToken(Ch) <=> Shape!At(p) \in Shape!Tokens
  BY <1>2, BytesAgree DEF IsCrlf
<1>5. CASE Ch = CR
  <2>1. ~IsToken(Ch) /\ Ch # LF
    BY <1>4, <1>2, <1>5, Shape!ClassesApart, BytesAgree
  <2>2. /\ state' = "LF2" /\ i' = p + 1 /\ cursor' = c
        /\ ret' = 0 /\ failure' = "none"
    BY <1>1, <1>2, <1>4, <1>5, <2>1 DEF ParseLf1, Continue
  <2>3. \A n \in Nat : HeadIs(n) <=> Shape!RestFromLastCr(p + 1, n)
    BY <1>2, <1>3, <1>5, Shape!LineSteps, BytesAgree
  <2>4. GrammarRead'
    BY <1>1, <1>4, <2>2, <2>3, Entered
  <2> QED
    BY <2>2, <2>4 DEF GrammarStep
<1>6. CASE Ch = LF
  <2>1. ~IsToken(Ch) /\ Ch # CR
    BY <1>4, <1>2, <1>6, Shape!ClassesApart, BytesAgree
  <2>2. ret' = p + 1 /\ failure' = "none"
    BY <1>1, <1>2, <1>4, <1>6, <2>1 DEF ParseLf1, Succeed
  <2>3. HeadIs(p + 1)
    BY <1>2, <1>3, <1>4, <1>6, Shape!LineSteps, BytesAgree
  <2> QED
    BY <1>2, <2>2, <2>3 DEF GrammarStep
<1>7. CASE IsToken(Ch)
  <2>1. Ch # CR /\ Ch # LF
    BY <1>4, <1>2, <1>7, Shape!ClassesApart, BytesAgree
  <2>2. /\ state' = "NAME" /\ i' = p + 1 /\ cursor' = c
        /\ ret' = 0 /\ failure' = "none"
    BY <1>1, <1>2, <1>7, <2>1 DEF ParseLf1, Continue
  <2>3. \A n \in Nat : HeadIs(n) <=> Shape!RestOfName(p + 1, n)
    BY <1>2, <1>3, <1>4, <1>7, Shape!LineSteps, BytesAgree
  <2>4. GrammarRead'
    BY <1>1, <1>4, <2>2, <2>3, Entered
  <2> QED
    BY <2>2, <2>4 DEF GrammarStep
<1>8. CASE ~IsCrlf(Ch) /\ ~IsToken(Ch)
  <2>1. ret' = -1 /\ failure' = "syntax"
    BY <1>4, <1>8 DEF ParseLf1, Fail
  <2>2. \A n \in Nat : ~HeadIs(n)
    BY <1>2, <1>3, <1>4, <1>8, Shape!LineSteps, BytesAgree
  <2> QED
    BY <2>1, <2>2 DEF GrammarStep
<1> QED
  BY <1>4, <1>5, <1>6, <1>7, <1>8

\* STATE_NAME
LEMMA NameGrammar ==
  ASSUME IInv, ret = 0, GrammarRead, ParseName
  PROVE  GrammarStep
<1>1. /\ state = "NAME" /\ pc = "loop" /\ BytesLeft
      /\ UNCHANGED <<stream, type, cursor>>
  BY DEF ParseName, Reading, Outside, peer
<1>2. PICK p, c \in Nat : /\ p = i /\ c = cursor /\ c <= p /\ p < Len(stream)
                          /\ Ch = Shape!At(p) /\ GrammarAt(p, c)
  BY <1>1, AtByte
<1>3. \A n \in Nat : HeadIs(n) <=> Shape!RestOfName(p, n)
  BY <1>1, <1>2 DEF GrammarAt
<1>4. p + 1 \in Nat /\ (IsToken(Ch) <=> Shape!At(p) \in Shape!Tokens)
  BY <1>2, BytesAgree
<1>5. CASE Ch = COLON
  <2>1. /\ state' = "COLON" /\ i' = p + 1 /\ cursor' = c
        /\ ret' = 0 /\ failure' = "none"
    BY <1>1, <1>2, <1>5 DEF ParseName, Continue
  <2>2. \A n \in Nat : HeadIs(n) <=> Shape!RestOfValue(p + 1, n)
    BY <1>2, <1>3, <1>5, Shape!NameSteps, BytesAgree
  <2>3. GrammarRead'
    BY <1>1, <1>4, <2>1, <2>2, Entered
  <2> QED
    BY <2>1, <2>3 DEF GrammarStep
<1>6. CASE Ch # COLON /\ IsToken(Ch)
  <2>1. /\ state' = "NAME" /\ i' = p + 1 /\ cursor' = c
        /\ ret' = 0 /\ failure' = "none"
    BY <1>1, <1>2, <1>6 DEF ParseName, Continue
  <2>2. \A n \in Nat : HeadIs(n) <=> Shape!RestOfName(p + 1, n)
    BY <1>2, <1>3, <1>4, <1>6, Shape!NameSteps, BytesAgree
  <2>3. GrammarRead'
    BY <1>1, <1>4, <2>1, <2>2, Entered
  <2> QED
    BY <2>1, <2>3 DEF GrammarStep
<1>7. CASE Ch # COLON /\ ~IsToken(Ch)
  <2>1. ret' = -1 /\ failure' = "syntax"
    BY <1>7 DEF ParseName, Fail
  <2>2. \A n \in Nat : ~HeadIs(n)
    BY <1>2, <1>3, <1>4, <1>7, Shape!NameSteps, BytesAgree
  <2> QED
    BY <2>1, <2>2 DEF GrammarStep
<1> QED
  BY <1>5, <1>6, <1>7

\* STATE_VALUE, and the byte with which STATE_COLON falls through to it
LEMMA ValueByteGrammar ==
  ASSUME ret = 0, NEW p \in Nat, p = i, p < Len(stream), NEW c \in Nat, cursor' = c,
         UNCHANGED <<stream, type>>, NEW from, ValueByte(from),
         \A n \in Nat : HeadIs(n) <=> Shape!RestOfValue(p, n)
  PROVE  GrammarStep
<1>1. /\ p + 1 \in Nat /\ Ch = Shape!At(p)
      /\ IsCrlf(Ch) <=> Shape!At(p) \in Shape!CrlfBytes
      /\ Ch = HTAB \/ IsIso8859_1(Ch) <=> Shape!At(p) \in Shape!ValueBytes
  BY BytesAgree DEF Ch, At
<1>2. CASE IsCrlf(Ch)
  <2>1. Continue(EndOfLine) \/ Fail("VALUE", "memory")
    BY <1>2 DEF ValueByte, StoreHeader
  <2>2. CASE Continue(EndOfLine)
    <3>1. state' = EndOfLine /\ i' = p + 1 /\ ret' = 0 /\ failure' = "none"
      BY <2>2 DEF Continue
    <3>2. \A n \in Nat : HeadIs(n) <=> Shape!RestFromEnd(p, n)
      BY <1>1, <1>2, Shape!ValueSteps, BytesAgree
    <3>3. GrammarRead'
      BY <1>2, <3>1, <3>2, LineEnded
    <3> QED
      BY <3>1, <3>3 DEF GrammarStep
  <2>3. CASE Fail("VALUE", "memory")
    <3>1. state' = "VALUE" /\ i' = p /\ ret' = -1 /\ failure' = "memory"
      BY <2>3 DEF Fail
    <3>2. GrammarRead'
      BY <3>1, Entered
    <3> QED
      BY <3>1, <3>2 DEF GrammarStep
  <2> QED
    BY <2>1, <2>2, <2>3
<1>3. CASE ~IsCrlf(Ch) /\ (Ch = HTAB \/ IsIso8859_1(Ch))
  <2>1. state' = "VALUE" /\ i' = p + 1 /\ ret' = 0 /\ failure' = "none"
    BY <1>3 DEF ValueByte, Continue
  <2>2. \A n \in Nat : HeadIs(n) <=> Shape!RestOfValue(p + 1, n)
    BY <1>1, <1>3, Shape!ValueSteps, BytesAgree
  <2>3. GrammarRead'
    BY <1>1, <2>1, <2>2, Entered
  <2> QED
    BY <2>1, <2>3 DEF GrammarStep
<1>4. CASE ~IsCrlf(Ch) /\ ~(Ch = HTAB \/ IsIso8859_1(Ch))
  <2>1. ret' = -1 /\ failure' = "syntax"
    BY <1>4 DEF ValueByte, Fail
  <2>2. \A n \in Nat : ~HeadIs(n)
    BY <1>1, <1>4, Shape!ValueSteps, BytesAgree
  <2> QED
    BY <2>1, <2>2 DEF GrammarStep
<1> QED
  BY <1>2, <1>3, <1>4

\* STATE_COLON
LEMMA ColonGrammar ==
  ASSUME IInv, ret = 0, GrammarRead, ParseColon
  PROVE  GrammarStep
<1>1. /\ state = "COLON" /\ pc = "loop" /\ BytesLeft
      /\ UNCHANGED <<stream, type>>
  BY DEF ParseColon, Reading, Outside, peer
<1>2. PICK p, c \in Nat : /\ p = i /\ c = cursor /\ c <= p /\ p < Len(stream)
                          /\ Ch = Shape!At(p) /\ GrammarAt(p, c)
  BY <1>1, AtByte
<1>3. \A n \in Nat : HeadIs(n) <=> Shape!RestOfValue(p, n)
  BY <1>1, <1>2 DEF GrammarAt
<1>4. CASE IsHtabOrSpace(Ch)
  <2>1. /\ state' = "COLON" /\ i' = p + 1 /\ cursor' = c
        /\ ret' = 0 /\ failure' = "none"
    BY <1>2, <1>4 DEF ParseColon, Continue
  <2>2. Shape!At(p) \in Shape!ValueBytes /\ p + 1 \in Nat
    BY <1>2, <1>4, BytesAgree DEF IsHtabOrSpace, IsIso8859_1, HTAB, SP
  <2>3. \A n \in Nat : HeadIs(n) <=> Shape!RestOfValue(p + 1, n)
    BY <1>2, <1>3, <2>2, Shape!ValueSteps, BytesAgree
  <2>4. GrammarRead'
    BY <1>1, <2>1, <2>2, <2>3, Entered
  <2> QED
    BY <2>1, <2>4 DEF GrammarStep
<1>5. CASE ~IsHtabOrSpace(Ch)
  <2>1. cursor' = p /\ ValueByte(i)
    BY <1>2, <1>5 DEF ParseColon
  <2> QED
    BY <1>1, <1>2, <1>3, <2>1, ValueByteGrammar
<1> QED
  BY <1>4, <1>5

\* STATE_VALUE
LEMMA ValueGrammar ==
  ASSUME IInv, ret = 0, GrammarRead, ParseValue
  PROVE  GrammarStep
<1>1. /\ state = "VALUE" /\ pc = "loop" /\ BytesLeft
      /\ UNCHANGED <<stream, type, cursor>> /\ ValueByte(cursor)
  BY DEF ParseValue, Reading, Outside, peer
<1>2. PICK p, c \in Nat : /\ p = i /\ c = cursor /\ c <= p /\ p < Len(stream)
                          /\ Ch = Shape!At(p) /\ GrammarAt(p, c)
  BY <1>1, AtByte
<1>3. \A n \in Nat : HeadIs(n) <=> Shape!RestOfValue(p, n)
  BY <1>1, <1>2 DEF GrammarAt
<1>4. cursor' = c
  BY <1>1, <1>2
<1> QED
  BY <1>1, <1>2, <1>3, <1>4, ValueByteGrammar

\* STATE_LF2
LEMMA Lf2Grammar ==
  ASSUME IInv, ret = 0, GrammarRead, ParseLf2
  PROVE  GrammarStep
<1>1. state = "LF2" /\ pc = "loop" /\ BytesLeft
  BY DEF ParseLf2, Reading
<1>2. PICK p, c \in Nat : /\ p = i /\ c = cursor /\ c <= p /\ p < Len(stream)
                          /\ Ch = Shape!At(p) /\ GrammarAt(p, c)
  BY <1>1, AtByte
<1>3. \A n \in Nat : HeadIs(n) <=> Shape!RestFromLastCr(p, n)
  BY <1>1, <1>2 DEF GrammarAt
<1>4. CASE Ch = LF
  <2>1. ret' = p + 1 /\ failure' = "none"
    BY <1>2, <1>4 DEF ParseLf2, Succeed
  <2>2. p + 1 \in Nat /\ HeadIs(p + 1)
    BY <1>2, <1>3, <1>4, BytesAgree DEF Shape!RestFromLastCr
  <2> QED
    BY <1>2, <2>1, <2>2 DEF GrammarStep
<1>5. CASE Ch # LF
  <2>1. ret' = -1 /\ failure' = "syntax"
    BY <1>5 DEF ParseLf2, Fail
  <2>2. \A n \in Nat : ~HeadIs(n)
    BY <1>2, <1>3, <1>5, BytesAgree DEF Shape!RestFromLastCr
  <2> QED
    BY <2>1, <2>2 DEF GrammarStep
<1> QED
  BY <1>4, <1>5

\* Every iteration does what it owes.
LEMMA ByteGrammar ==
  ASSUME IInv, ret = 0, GrammarRead, FirstLineRead(TRUE), ParseByte
  PROVE  GrammarStep /\ UNCHANGED <<stream, type>>
<1>1. GrammarStep
  BY StartGrammar, MethodGrammar, UriGrammar, VersionGrammar, StatusGrammar,
     MessageGrammar, CrGrammar, Lf1Grammar, NameGrammar, ColonGrammar, ValueGrammar,
     Lf2Grammar DEF ParseByte
<1>2. UNCHANGED <<stream, type>>
  BY DEF ParseByte, ParseStart, ParseMethod, ParseUri, ParseVersion, ParseStatus,
     ParseMessage, ParseCr, ParseLf1, ParseName, ParseColon, ParseValue, ParseLf2,
     Outside, peer
<1> QED
  BY <1>1, <1>2

\* What each of them leaves in ret and failure
LEMMA ByteAnswers ==
  ASSUME ParseByte, ret = 0
  PROVE  /\ BytesLeft /\ pc = "loop" /\ pc' # "freed"
         /\ pc' = "loop" => ret' = 0
         /\ failure' = "syntax" => ret' = -1
  BY DEF ParseByte, ParseStart, ParseMethod, ParseUri, ParseVersion, ParseStatus,
     ParseMessage, ParseCr, ParseLf1, ParseName, ParseColon, ParseValue, ParseLf2,
     InsertMethodChar, AppendToStatus, ValueByte, StoreHeader, Reading, Continue, Fail,
     Succeed

\* A caller that leaves a malformed message be has each iteration do so.
LEMMA OwedByte ==
  ASSUME "syntax" \notin Retryable, IInv, FirstLineInv, GrammarInv, ParseByte
  PROVE  GrammarStep /\ UNCHANGED <<stream, type>> /\ ret = 0 /\ failure # "syntax"
<1>1. pc = "loop" /\ ret = 0 /\ failure # "syntax"
  BY ByteEnds DEF GrammarInv
<1>2. GrammarRead
  BY <1>1 DEF GrammarInv
<1>3. FirstLineRead(TRUE)
  BY <1>1 DEF FirstLineInv, StatusIsKept
<1> QED
  BY <1>1, <1>2, <1>3, ByteGrammar

-----------------------------------------------------------------------------
(* The invariant holds *)

\* A message that nothing has been read of
NothingReadYet == state = "START" /\ i = 0 /\ cursor = 0 => GrammarRead

LEMMA NewGrammar == IInv => NothingReadYet
<1> SUFFICES ASSUME IInv, state = "START", i = 0, cursor = 0 PROVE GrammarRead
  BY DEF NothingReadYet
<1>1. GrammarAt(0, 0)
  BY ShapeGiven, HeadAgrees, Shape!HeadIsRest DEF GrammarAt
<1> QED
  BY <1>1 DEF GrammarRead

\* A step that reads nothing leaves what there is to be read.
LEMMA NothingReadGrammar ==
  ASSUME GrammarRead, UNCHANGED <<stream, type, state, i, cursor, method>>
  PROVE  GrammarRead'
<1>1. PICK p, c \in Nat : p = i /\ c = cursor /\ GrammarAt(p, c)
  BY DEF GrammarRead
<1>2. /\ \A n : HeadIs(n)' <=> HeadIs(n)
      /\ \A a : LeadIs(a)' <=> LeadIs(a)
      /\ \A a, q, bytes : Shape!Over(a, q, bytes)' <=> Shape!Over(a, q, bytes)
  BY Shape!RestsStay DEF HeadIs, LeadIs, At
<1>3. GrammarAt(p, c)'
  <2>1. state' = state /\ method' = method
    OBVIOUS
  <2>2. ASSUME state = "METHOD"
        PROVE  \E a \in Nat : /\ a < p /\ p = a + Len(method')
                              /\ \A n \in Nat : HeadIs(n)' <=> Shape!RestOfMethod(a, p, n)'
    <3>1. PICK a \in Nat : /\ a < p /\ p = a + Len(method)
                           /\ \A n \in Nat : HeadIs(n) <=> Shape!RestOfMethod(a, p, n)
      BY <1>1, <2>2 DEF GrammarAt
    <3>2. \A n \in Nat : HeadIs(n)' <=> Shape!RestOfMethod(a, p, n)'
      BY <1>2, <3>1, Shape!RestsStay
    <3> QED
      BY <2>1, <3>1, <3>2
  <2>3. ASSUME state = "STATUS"
        PROVE  \E a \in Nat : /\ LeadIs(a)' /\ Shape!Over(a + 9, p - 3, {48})'
                              /\ \A n \in Nat : HeadIs(n)' <=> Shape!RestOfStatus(a + 9, p, n)'
    <3>1. PICK a \in Nat : /\ LeadIs(a) /\ Shape!Over(a + 9, p - 3, {48})
                           /\ \A n \in Nat : HeadIs(n) <=> Shape!RestOfStatus(a + 9, p, n)
      BY <1>1, <2>3 DEF GrammarAt
    <3>2. \A n \in Nat : HeadIs(n)' <=> Shape!RestOfStatus(a + 9, p, n)'
      BY <1>2, <3>1, Shape!RestsStay
    <3> QED
      BY <1>2, <3>1, <3>2
  <2>4. /\ state = "START"   => \A n \in Nat : HeadIs(n)' <=> Shape!RestFromStart(p, n)'
        /\ state = "URI"     => \A n \in Nat : HeadIs(n)' <=> Shape!RestOfUri(c, p, n)'
        /\ state = "VERSION" => \A n \in Nat : HeadIs(n)' <=> Shape!RestOfVersion(c, p, n)'
        /\ state = "MESSAGE" => \A n \in Nat : HeadIs(n)' <=> Shape!RestOfMessage(p, n)'
        /\ state = "CR"      => \A n \in Nat : HeadIs(n)' <=> Shape!RestFromCr(p, n)'
    BY <1>1, <1>2, Shape!RestsStay DEF GrammarAt
  <2>5. /\ state = "LF1"     => \A n \in Nat : HeadIs(n)' <=> Shape!HeadersTo(p, n)'
        /\ state = "NAME"    => \A n \in Nat : HeadIs(n)' <=> Shape!RestOfName(p, n)'
        /\ state \in {"COLON", "VALUE"} => \A n \in Nat : HeadIs(n)' <=> Shape!RestOfValue(p, n)'
        /\ state = "LF2"     => \A n \in Nat : HeadIs(n)' <=> Shape!RestFromLastCr(p, n)'
    BY <1>1, <1>2, Shape!RestsStay DEF GrammarAt
  <2> QED
    BY <2>1, <2>2, <2>3, <2>4, <2>5 DEF GrammarAt
<1> QED
  BY <1>1, <1>3 DEF GrammarRead

\* A caller that goes on has no verdict yet.
LEMMA CallerGoesOn ==
  ASSUME "syntax" \notin Retryable, "none" \notin Retryable,
         IInv, GrammarInv, MayCall
  PROVE  ret <= 0 /\ failure # "syntax"
<1>1. ret \in Int
  BY Widths DEF IInv, TypeOK
<1> QED
  BY <1>1 DEF MayCall, GrammarInv

\* The beginning, and every step
LEMMA InitGrammar == Init => GrammarInv
<1> SUFFICES ASSUME Init PROVE GrammarInv
  OBVIOUS
<1>1. GrammarRead
  BY InitIInv, NewGrammar DEF Init, NothingReadYet
<1> QED
  BY <1>1 DEF Init, GrammarInv

LEMMA NextGrammar ==
  ASSUME "syntax" \notin Retryable, "none" \notin Retryable
  PROVE  IInv /\ FirstLineInv /\ GrammarInv /\ [Next]_vars /\ NothingReadYet' => GrammarInv'
<1> SUFFICES ASSUME IInv, FirstLineInv, GrammarInv, [Next]_vars, NothingReadYet'
             PROVE  GrammarInv'
  OBVIOUS
<1>1. CASE ParseByte
  <2>1. GrammarStep /\ ret = 0
    BY <1>1, OwedByte
  <2>2. (pc' = "loop" => ret' = 0) /\ (failure' = "syntax" => ret' = -1)
    BY <1>1, <2>1, ByteAnswers
  <2> QED
    BY <2>1, <2>2 DEF GrammarStep, GrammarInv
<1>2. ASSUME NEW capacity, Call(capacity) PROVE GrammarInv'
  <2>1. ret <= 0 /\ failure # "syntax" /\ pc # "freed"
    BY <1>2, CallerGoesOn DEF Call, MayCall
  <2>2. GrammarRead'
    BY <1>2, <2>1, NothingReadGrammar DEF GrammarInv, Call, peer, parser
  <2>3. /\ ret' \in {-1, 0} /\ (pc' = "loop" => ret' = 0)
        /\ failure' \in {failure, "arguments"}
    BY <1>2 DEF Call, MayCall
  <2> QED
    BY <2>1, <2>2, <2>3 DEF GrammarInv
<1>3. CASE ReturnUsedUp
  <2>1. ret = 0 /\ failure # "syntax" /\ pc # "freed"
    BY <1>3 DEF ReturnUsedUp, GrammarInv
  <2>2. GrammarRead'
    BY <1>3, <2>1, NothingReadGrammar DEF GrammarInv, ReturnUsedUp, peer, parser
  <2>3. ret' \in {-1, 0} /\ pc' = "idle" /\ failure' # "syntax"
    BY <1>3 DEF ReturnUsedUp
  <2> QED
    BY <2>2, <2>3 DEF GrammarInv
<1>4. CASE (\E n \in Chunks : Receive(n)) \/ UNCHANGED vars
  <2>1. UNCHANGED <<stream, type, state, i, cursor, method, pc, ret, failure>>
    BY <1>4 DEF Receive, vars, peer, parser
  <2> QED
    BY <2>1, NothingReadGrammar DEF GrammarInv
<1>5. CASE Free
  BY <1>5 DEF Free, GrammarInv
<1>6. ASSUME NEW t, NEW s, MsgInit(t, s) PROVE GrammarInv'
  BY <1>6 DEF MsgInit, NothingReadYet, GrammarInv
<1> QED
  BY <1>1, <1>2, <1>3, <1>4, <1>5, <1>6 DEF Next, MessageNext

\* Under every step the verdict does what the abstract specification allows.
LEMMA NextVerdict ==
  ASSUME "syntax" \notin Retryable, "none" \notin Retryable,
         IInv, IInv', FirstLineInv, GrammarInv, [Next]_vars
  PROVE  [Message!Next]_<<stream, type, Verdict>>
<1> USE DEF Message!OPEN, Message!BAD
<1>1. CASE ParseByte
  <2>1. GrammarStep /\ UNCHANGED <<stream, type>> /\ ret = 0 /\ failure # "syntax"
    BY <1>1, OwedByte
  <2>2. BytesLeft /\ pc = "loop" /\ pc' # "freed"
    BY <1>1, <2>1, ByteAnswers
  <2>3. Verdict = 0
    BY <2>1, <2>2 DEF Verdict
  <2>4. i + 1 \in 1..Len(stream)
    <3>1. i \in Nat /\ i < Len(stream) /\ Len(stream) \in Nat
      BY <2>2, ByteThere, FieldTypes, StreamsAssumption DEF IInv, TypeOK
    <3> QED
      BY <3>1
  <2>5. CASE failure' = "syntax"
    <3>1. Verdict' = -1
      BY <1>1, <2>2, <2>5, ByteEnds DEF Verdict
    <3>2. \A n \in 1..Len(stream) : ~Message!IsHead(stream, type, n)
      BY <2>1, <2>5 DEF GrammarStep, HeadIs
    <3>3. Message!Reject
      BY <2>1, <2>3, <3>1, <3>2 DEF Message!Reject
    <3> QED
      BY <3>3 DEF Message!Next
  <2>6. CASE ret' > 0 /\ failure' # "syntax"
    <3>1. Verdict' = i + 1 /\ Message!IsHead(stream, type, i + 1)
      BY <2>1, <2>2, <2>6 DEF Verdict, GrammarStep, HeadIs
    <3>2. Message!Accept
      BY <2>1, <2>3, <2>4, <3>1 DEF Message!Accept
    <3> QED
      BY <3>2 DEF Message!Next
  <2>7. CASE ~(ret' > 0) /\ failure' # "syntax"
    <3>1. Verdict' = 0
      BY <2>7 DEF Verdict
    <3> QED
      BY <2>1, <2>3, <3>1
  <2> QED
    BY <2>5, <2>6, <2>7
<1>2. CASE ReturnUsedUp \/ \E capacity \in Capacities : Call(capacity)
  <2>1. ~(ret > 0) /\ failure # "syntax"
    <3>1. CASE ReturnUsedUp
      BY <3>1 DEF ReturnUsedUp, GrammarInv
    <3>2. ASSUME NEW capacity, Call(capacity) PROVE ~(ret > 0) /\ failure # "syntax"
      <4>1. ret <= 0 /\ failure # "syntax" /\ ret \in Int
        BY <3>2, CallerGoesOn, Widths DEF Call, IInv, TypeOK
      <4> QED
        BY <4>1
    <3> QED
      BY <1>2, <3>1, <3>2
  <2>2. /\ ret' \in {-1, 0} /\ failure' \in {failure, "none", "full", "arguments"}
        /\ UNCHANGED <<stream, type>>
    BY <1>2 DEF ReturnUsedUp, Call, peer
  <2>3. Verdict = 0 /\ Verdict' = 0
    BY <2>1, <2>2 DEF Verdict
  <2> QED
    BY <2>2, <2>3
<1>3. CASE (\E n \in Chunks : Receive(n)) \/ UNCHANGED vars
  <2>1. UNCHANGED <<stream, type, pc, ret, failure>>
    BY <1>3 DEF Receive, vars, peer
  <2> QED
    BY <2>1 DEF Verdict
<1>4. CASE Free \/ \E t \in Types, s \in Streams : MsgInit(t, s)
  <2>1. Verdict' = 0
    BY <1>4 DEF Free, MsgInit, Verdict
  <2>2. stream' \in Streams /\ type' \in Types
    BY DEF IInv, TypeOK
  <2> QED
    BY <2>1, <2>2 DEF Message!Next, Message!NextMessage
<1> QED
  BY <1>1, <1>2, <1>3, <1>4 DEF Next, MessageNext

\* http_msg_parse accepts exactly the head of a message, and rejects a stream
\* only if no message begins it, however the bytes are cut into arrivals and
\* calls, and whichever calls fail for lack of room or memory and are made
\* again: it implements HttpMessage, for any streams, chunks and capacities,
\* if the caller calls again neither after a syntax error nor after a head.
THEOREM ParserImplementsMessage ==
  ASSUME "syntax" \notin Retryable, "none" \notin Retryable
  PROVE  Spec => ImplementsMessage
<1>1. Init => Message!Init
  BY DEF Init, Message!Init, Verdict, Message!OPEN
<1>2. IInv /\ IInv' /\ FirstLineInv /\ GrammarInv /\ [Next]_vars
        => [Message!Next]_<<stream, type, Verdict>>
  BY NextVerdict
<1>3. Init => FirstLineInv
  BY NewMessage DEF Init
<1>4. Spec => []IInv
  BY InitIInv, NextIInv, PTL DEF Spec
<1>5. Spec => [](NotYetRecorded /\ FirstLineInv)
  BY <1>3, <1>4, InitNotYet, NextNotYet, NextFirstLine, PTL DEF Spec
<1>6. Spec => []NothingReadYet
  BY <1>4, NewGrammar, PTL
<1>7. Spec => []GrammarInv
  BY <1>4, <1>5, <1>6, InitGrammar, NextGrammar, PTL DEF Spec
<1> QED
  BY <1>1, <1>2, <1>4, <1>5, <1>7, PTL DEF Spec, ImplementsMessage, Message!Spec

-----------------------------------------------------------------------------
(* Behind a head that ended in CR LF *)

\* The first n bytes are a head, and CR LF ends it.
ClosedHead(n) == n >= 2 /\ At(n - 2) = CR /\ HeadIs(n)

\* If the stream has such a head, the parser is on the way to its end, without
\* having met a malformed byte, or has taken it and is where its last LF was.
ClosedInv ==
  /\ pc = "loop" => ret = 0
  /\ state = "LF1" => \A l \in Nat : i = l + 1 => At(l) # CR
  /\ pc # "freed" => \A n \in Nat : ClosedHead(n) =>
       \/ failure # "syntax" /\ GrammarRead /\ FirstLineRead(TRUE)
       \/ state = "LF2" /\ n <= i

\* As long as the rest of the head is left to be read, its end is ahead.
LEMMA EndIsAhead ==
  ASSUME IInv, GrammarRead, NEW n \in Nat, HeadIs(n)
  PROVE  i < n
<1>1. PICK p, c \in Nat : p = i /\ GrammarAt(p, c)
  BY DEF GrammarRead
<1>2. \/ Shape!RestFromStart(p, n) \/ (\E a \in Nat : Shape!RestOfMethod(a, p, n))
      \/ Shape!RestOfUri(c, p, n) \/ Shape!RestOfVersion(c, p, n)
      \/ (\E a \in Nat : Shape!RestOfStatus(a + 9, p, n))
      \/ Shape!RestOfMessage(p, n) \/ Shape!RestFromCr(p, n) \/ Shape!HeadersTo(p, n)
      \/ Shape!RestOfName(p, n) \/ Shape!RestOfValue(p, n) \/ Shape!RestFromLastCr(p, n)
  BY <1>1 DEF GrammarAt, IInv, TypeOK, States
<1>3. \A a \in Nat : a + 9 \in Nat
  OBVIOUS
<1>4. p < n
  BY <1>2, <1>3, Shape!RestsBeyond
<1> QED
  BY <1>1, <1>4

\* An iteration accepts at the LF of an empty line, and stays in its state.
LEMMA ByteAccepts ==
  ASSUME ParseByte, ret = 0
  PROVE  /\ ret' = -1 \/ ret' = 0 \/ ret' = i + 1
         /\ ret' = i + 1 /\ i \in Nat => /\ Ch = LF /\ i' = i + 1 /\ UNCHANGED state
                                         /\ state \in {"LF1", "LF2"}
<1>1. CASE ParseLf1
  BY <1>1 DEF ParseLf1, Reading, Continue, Fail, Succeed, IsCrlf
<1>2. CASE ParseLf2
  BY <1>2 DEF ParseLf2, Reading, Continue, Fail, Succeed
<1>3. CASE ~ParseLf1 /\ ~ParseLf2
  BY <1>3 DEF ParseByte, ParseStart, ParseMethod, ParseUri, ParseVersion, ParseStatus,
     ParseMessage, ParseCr, ParseName, ParseColon, ParseValue, InsertMethodChar,
     AppendToStatus, ValueByte, StoreHeader, Reading, Continue, Fail
<1> QED
  BY <1>1, <1>2, <1>3

\* No CR is read on the way into the state behind a line's end.
LEMMA ByteLf1 ==
  ASSUME IInv, ParseByte, state = "LF1" => \A l \in Nat : i = l + 1 => At(l) # CR
  PROVE  state' = "LF1" => \A l \in Nat : i' = l + 1 => At(l)' # CR
<1> SUFFICES ASSUME state' = "LF1", NEW l \in Nat, i' = l + 1 PROVE At(l)' # CR
  OBVIOUS
<1>1. i \in Nat /\ At(l)' = At(l)
  BY FieldTypes, ByteMovesIndex DEF At
<1>2. \/ Ch # CR /\ i' = i + 1
      \/ state = "LF1" /\ i' = i
  <2>1. CASE ParseCr \/ ParseLf1 \/ ParseLf2
    BY <2>1 DEF ParseCr, ParseLf1, ParseLf2, Reading, Continue, Fail, Succeed, CR, LF
  <2>2. CASE ParseStart \/ ParseMethod \/ ParseName
    BY <2>2 DEF ParseStart, ParseMethod, ParseName, InsertMethodChar, Reading, Continue, Fail
  <2>3. CASE ParseUri \/ ParseVersion
    BY <2>3 DEF ParseUri, ParseVersion, EndOfLine, Reading, Continue, Fail
  <2>4. CASE ParseStatus \/ ParseMessage
    BY <2>4 DEF ParseStatus, AppendToStatus, ParseMessage, EndOfLine, Reading, Continue, Fail
  <2>5. CASE ParseColon \/ ParseValue
    BY <2>5 DEF ParseColon, ParseValue, ValueByte, StoreHeader, EndOfLine, Reading, Continue, Fail
  <2> QED
    BY <2>1, <2>2, <2>3, <2>4, <2>5 DEF ParseByte
<1>3. CASE Ch # CR /\ i' = i + 1
  <2>1. l = i
    BY <1>1, <1>3
  <2> QED
    BY <1>1, <1>3, <2>1 DEF Ch
<1>4. CASE state = "LF1" /\ i' = i
  BY <1>1, <1>4
<1> QED
  BY <1>2, <1>3, <1>4

\* An iteration on the way to the head's end does not leave it but at the end.
LEMMA ByteOnTheWay ==
  ASSUME IInv, NotYetRecorded, ClosedInv, ParseByte, NEW n \in Nat, ClosedHead(n),
         failure # "syntax", GrammarRead, FirstLineRead(TRUE)
  PROVE  \/ failure' # "syntax" /\ GrammarRead' /\ FirstLineRead(TRUE)'
         \/ state' = "LF2" /\ n <= i'
<1>1. ret = 0 /\ GrammarStep /\ HeadIs(n) /\ i \in Nat
  BY ByteEnds, ByteGrammar, FieldTypes DEF ClosedInv, ClosedHead
<1>2. failure' # "syntax"
  BY <1>1 DEF GrammarStep
<1>3. CASE ret' = -1 \/ ret' = 0
  <2>1. ret' <= 0
    BY <1>3
  <2>2. GrammarRead'
    BY <1>1, <1>2, <2>1 DEF GrammarStep
  <2>3. TRUE \in BOOLEAN
    OBVIOUS
  <2>4. FirstLineRead(TRUE)'
    BY <1>2, <2>3, ByteReadOn
  <2> QED
    BY <1>2, <2>2, <2>4
<1>4. CASE ret' = i + 1
  <2>1. /\ Ch = LF /\ i' = i + 1 /\ state' = state /\ state \in {"LF1", "LF2"}
        /\ pc = "loop" /\ BytesLeft
    BY <1>1, <1>4, ByteAccepts, ByteAnswers
  <2>2. PICK p, c \in Nat : /\ p = i /\ p < Len(stream)
                            /\ Ch = Shape!At(p) /\ GrammarAt(p, c)
    BY <2>1, AtByte
  <2>3. CASE state = "LF1"
    <3>1. n = p + 1
      BY <1>1, <2>1, <2>2, <2>3, Shape!LineSteps, BytesAgree DEF GrammarAt
    <3>2. n - 2 \in Nat /\ i = (n - 2) + 1 /\ At(n - 2) = CR
      BY <2>2, <3>1 DEF ClosedHead
    <3> QED
      BY <2>3, <3>2 DEF ClosedInv
  <2>4. CASE state = "LF2"
    <3>1. n = p + 1
      BY <1>1, <2>2, <2>4 DEF GrammarAt, Shape!RestFromLastCr
    <3> QED
      BY <2>1, <2>2, <2>4, <3>1
  <2> QED
    BY <2>1, <2>3, <2>4
<1> QED
  BY <1>1, <1>3, <1>4, ByteAccepts

\* Every iteration keeps the invariant.
LEMMA ByteClosed ==
  ASSUME IInv, NotYetRecorded, ClosedInv, ParseByte
  PROVE  ClosedInv'
<1>1. /\ ret = 0 /\ pc = "loop" /\ UNCHANGED <<stream, type>>
      /\ i \in Nat /\ i' \in {i, i + 1}
  BY ByteEnds, ByteMovesIndex, FieldTypes DEF ClosedInv
<1>2. pc' = "loop" => ret' = 0
  BY <1>1, ByteAnswers
<1>3. state' = "LF1" => \A l \in Nat : i' = l + 1 => At(l)' # CR
  BY ByteLf1 DEF ClosedInv
<1>4. ASSUME NEW n \in Nat, ClosedHead(n)'
      PROVE  \/ failure' # "syntax" /\ GrammarRead' /\ FirstLineRead(TRUE)'
             \/ state' = "LF2" /\ n <= i'
  <2>1. ClosedHead(n)
    BY <1>1, <1>4 DEF ClosedHead, HeadIs, At
  <2>2. CASE state = "LF2" /\ n <= i
    <3>1. state' = "LF2"
      BY <2>2, ByteState DEF ParseByte, ParseStart, ParseMethod, ParseUri, ParseVersion,
         ParseStatus, ParseMessage, ParseCr, ParseLf1, ParseName, ParseColon, ParseValue,
         ParseLf2, Reading, Fail, Succeed
    <3>2. n <= i'
      BY <1>1, <2>2
    <3> QED
      BY <3>1, <3>2
  <2>3. CASE ~(state = "LF2" /\ n <= i)
    BY <1>1, <2>1, <2>3, ByteOnTheWay DEF ClosedInv
  <2> QED
    BY <2>2, <2>3
<1> QED
  BY <1>2, <1>3, <1>4 DEF ClosedInv

\* The beginning, and every step
LEMMA InitClosed == Init => ClosedInv
<1> SUFFICES ASSUME Init PROVE ClosedInv
  OBVIOUS
<1>1. GrammarRead
  BY InitIInv, NewGrammar DEF Init, NothingReadYet
<1>2. FirstLineRead(TRUE)
  BY DEF Init, FirstLineRead, StartOfLine, PastFirstLine
<1> QED
  BY <1>1, <1>2 DEF Init, ClosedInv

LEMMA NextClosed ==
  IInv /\ NotYetRecorded /\ ClosedInv /\ [Next]_vars /\ NothingReadYet' => ClosedInv'
<1> SUFFICES ASSUME IInv, NotYetRecorded, ClosedInv, [Next]_vars, NothingReadYet'
             PROVE  ClosedInv'
  OBVIOUS
<1>1. CASE ParseByte
  BY <1>1, ByteClosed
<1>2. CASE \/ ReturnUsedUp
           \/ \E capacity \in Capacities : Call(capacity)
           \/ \E n \in Chunks : Receive(n)
           \/ Free
           \/ UNCHANGED vars
  <2>1. UNCHANGED <<stream, type, state, i, cursor, method, line>>
    BY <1>2 DEF ReturnUsedUp, Call, Receive, Free, vars, peer, parser
  <2>2. /\ pc' = "loop" => ret' = 0
        /\ pc' # "freed" => pc # "freed"
        /\ failure # "syntax" => failure' # "syntax"
    BY <1>2 DEF ClosedInv, ReturnUsedUp, Call, MayCall, Receive, Free, vars
  <2>3. \A l : At(l)' = At(l)
    BY <2>1 DEF At
  <2>4. \A n : ClosedHead(n)' <=> ClosedHead(n)
    BY <2>1, <2>3 DEF ClosedHead, HeadIs
  <2>5. (GrammarRead => GrammarRead') /\ (FirstLineRead(TRUE) => FirstLineRead(TRUE)')
    BY <2>1, NothingRead, NothingReadGrammar
  <2> QED
    BY <2>1, <2>2, <2>3, <2>4, <2>5 DEF ClosedInv
<1>3. ASSUME NEW t, NEW s, MsgInit(t, s) PROVE ClosedInv'
  <2>1. GrammarRead'
    BY <1>3 DEF MsgInit, NothingReadYet
  <2>2. FirstLineRead(TRUE)'
    BY <1>3 DEF MsgInit, FirstLineRead, StartOfLine, PastFirstLine
  <2> QED
    BY <1>3, <2>1, <2>2 DEF MsgInit, ClosedInv
<1> QED
  BY <1>1, <1>2, <1>3 DEF Next, MessageNext

\* A head that ended in CR LF is the last thing that gets into the message's
\* fields: whatever follows it, a body or the next message, and however often
\* the caller calls again, for whichever reason, nothing of it is recorded.
THEOREM ClosedHeadStays == Spec => ClosedHeadIsFinal
<1>1. ASSUME IInv, ClosedInv, [Next]_vars, pc # "freed", pc' # "freed",
             NEW n \in {k \in 2..i : At(k - 2) = CR}, Message!IsHead(stream, type, n)
      PROVE  UNCHANGED <<method, line, store>>
  <2>1. n \in Nat /\ n <= i /\ i \in Nat /\ ClosedHead(n)
    BY <1>1, FieldTypes DEF ClosedHead, HeadIs
  <2>2. ~GrammarRead
    <3>1. GrammarRead => i < n
      BY <1>1, <2>1, EndIsAhead DEF ClosedHead
    <3> QED
      BY <2>1, <3>1
  <2>3. state = "LF2"
    BY <1>1, <2>1, <2>2 DEF ClosedInv
  <2>4. CASE ParseByte
    BY <2>3, <2>4 DEF ParseByte, ParseStart, ParseMethod, ParseUri, ParseVersion,
       ParseStatus, ParseMessage, ParseCr, ParseLf1, ParseName, ParseColon, ParseValue,
       ParseLf2, Reading
  <2>5. CASE \/ ReturnUsedUp
             \/ \E capacity \in Capacities : Call(capacity)
             \/ \E m \in Chunks : Receive(m)
             \/ UNCHANGED vars
    BY <2>5 DEF ReturnUsedUp, Call, Receive, vars, parser
  <2> QED
    BY <1>1, <2>4, <2>5 DEF Next, MessageNext, Free, MsgInit
<1>2. IInv /\ ClosedInv /\ [Next]_vars =>
        [/\ pc # "freed"
         /\ pc' # "freed"
         /\ \E n \in {k \in 2..i : At(k - 2) = CR} : Message!IsHead(stream, type, n)
         => UNCHANGED <<method, line, store>>]_vars
  BY <1>1
<1>3. Spec => [](IInv /\ NotYetRecorded)
  BY InitIInv, NextIInv, InitNotYet, NextNotYet, PTL DEF Spec
<1>4. Spec => []NothingReadYet
  BY <1>3, NewGrammar, PTL
<1>5. Spec => []ClosedInv
  BY <1>3, <1>4, InitClosed, NextClosed, PTL DEF Spec
<1> QED
  BY <1>2, <1>3, <1>5, PTL DEF Spec, ClosedHeadIsFinal

=============================================================================
