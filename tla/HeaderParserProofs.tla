------------------------- MODULE HeaderParserProofs -------------------------
(***************************************************************************)
(* Proofs about the response-header callback model HeaderParser.          *)
(***************************************************************************)
EXTENDS HeaderParser, SequenceTheorems, TLAPS

\* The fields of a status line, bare or not.
LEMMA StatusLineFields ==
  ASSUME NEW l \in StatusLines
  PROVE  /\ l.kind = "status" /\ l.proto \in Protos
         /\ l.code \in Codes \cup {NoCode} /\ l.words \in Seq(STRING)
<1> DEFINE Full == [kind : {"status"}, proto : Protos, code : Codes, words : Msgs]
           Bare == [kind : {"status"}, proto : Protos, code : {NoCode}, words : {<<>>}]
<1>1. StatusLines = Full \cup (IF BareStatus THEN Bare ELSE {})
  BY DEF StatusLines
<1>2. l \in Full \/ l \in Bare
  BY <1>1, Zenon
<1>3. CASE l \in Full
  BY <1>3, ConstAssumption
<1>4. CASE l \in Bare
  <2>1. l.kind = "status" /\ l.proto \in Protos /\ l.code = NoCode
    BY <1>4, Zenon
  <2>2. l.words = << >>
    BY <1>4, Zenon
  <2>3. << >> \in Seq(STRING)
    BY EmptySeq
  <2>4. QED BY <2>1, <2>2, <2>3
<1>5. QED BY <1>2, <1>3, <1>4

\* The message g_strjoinv(" ", split_result + 2) rebuilds from the split
\* status line is exactly the words after the code.
LEMMA MessageIsWords ==
  ASSUME NEW l \in StatusLines
  PROVE  StatusMessage(Tokens(l)) = l.words
<1>1. l.words \in Seq(STRING)
  BY StatusLineFields
<1> DEFINE Tok == STRING \cup Codes \cup {NoCode}
<1>2. <<l.proto, l.code>> \o l.words \in Seq(Tok)
  <2>0. l.proto \in STRING /\ l.code \in Codes \cup {NoCode}
    BY StatusLineFields, ConstAssumption
  <2>1. <<l.proto, l.code>> \in Seq(Tok)
    BY <2>0
  <2>2. l.words \in Seq(Tok)
    BY <1>1, SeqMonotonic
  <2>3. QED BY <2>1, <2>2, ConcatProperties
<1>3. QED
  BY <1>1, <1>2 DEF StatusMessage, Tokens

\* What libcurl may hand the callback, by the transport's phase.
LEMMA OfferedLines ==
  ASSUME TypeOK, NEW l \in Offered
  PROVE  \/ /\ tphase = "status" /\ l \in StatusLines /\ l.kind = "status"
             /\ l.code \in AllowedCodes
         \/ /\ tphase = "fields" /\ l \in BlankLines /\ l.kind = "blank"
         \/ /\ tphase = "fields" /\ l \in FieldLines /\ l.kind = "field"
            /\ nfields < MaxFields
            /\ (InterimFields \/ cur.code \notin InterimCodes)
<1>1. CASE tphase = "status"
  BY <1>1, StatusLineFields DEF Offered
<1>2. CASE tphase = "fields"
  BY <1>2 DEF Offered, BlankLines, FieldLines
<1>3. CASE tphase = "body"
  BY <1>3 DEF Offered
<1>4. QED BY <1>1, <1>2, <1>3 DEF TypeOK

\* The transport's own variables keep their types across a delivery.
LEMMA DeliverTypes ==
  ASSUME TypeOK, NEW l \in Offered, Deliver(l)
  PROVE  /\ tphase' \in {"status", "fields", "body"}
         /\ cur' \in StatusLines \cup {NoLine}
         /\ nfields' \in 0..MaxFields
         /\ interims' \in 0..MaxInterims
         /\ redirects' \in 0..MaxRedirs
         /\ sent' \in [Names -> Values \cup {NoValue}]
<1>1. CASE tphase = "status" /\ l \in StatusLines /\ l.kind = "status"
           /\ l.code \in AllowedCodes
  <2>1. /\ tphase' = "fields" /\ cur' = l /\ nfields' = 0
        /\ sent' = [n \in Names |-> NoValue]
        /\ interims' = interims + (IF l.code \in InterimCodes THEN 1 ELSE 0)
        /\ redirects' = redirects + (IF l.code \in RedirectCodes THEN 1 ELSE 0)
    BY <1>1 DEF Deliver
  <2>2. l.code \in InterimCodes => interims < MaxInterims
    BY <1>1 DEF AllowedCodes
  <2>3. l.code \in RedirectCodes => redirects < MaxRedirs
    BY <1>1 DEF AllowedCodes
  <2>4. interims' \in 0..MaxInterims
    BY <2>1, <2>2, ConstAssumption DEF TypeOK
  <2>5. redirects' \in 0..MaxRedirs
    BY <2>1, <2>3, ConstAssumption DEF TypeOK
  <2>6. sent' \in [Names -> Values \cup {NoValue}]
    BY <2>1
  <2>7. nfields' \in 0..MaxFields
    BY <2>1, ConstAssumption
  <2>8. QED BY <1>1, <2>1, <2>4, <2>5, <2>6, <2>7
<1>2. CASE tphase = "fields" /\ l \in BlankLines /\ l.kind = "blank"
  <2>1. /\ tphase' \in {"status", "body"}
        /\ UNCHANGED <<cur, nfields, interims, redirects, sent>>
    BY <1>2 DEF Deliver
  <2>2. QED BY <2>1 DEF TypeOK
<1>3. CASE tphase = "fields" /\ l \in FieldLines /\ l.kind = "field"
           /\ nfields < MaxFields
           /\ (InterimFields \/ cur.code \notin InterimCodes)
  <2>1. /\ nfields' = nfields + 1 /\ sent' = [sent EXCEPT ![l.name] = l.value]
        /\ UNCHANGED <<tphase, cur, interims, redirects>>
    BY <1>3 DEF Deliver
  <2>2. l.name \in Names /\ l.value \in Values
    BY <1>3 DEF FieldLines
  <2>3. QED BY <1>3, <2>1, <2>2, ConstAssumption DEF TypeOK
<1>4. QED BY <1>1, <1>2, <1>3, OfferedLines

\* Every table InsertHeader may leave is again a set of entries.
LEMMA InsertHeaderType ==
  ASSUME NEW tbl \in SUBSET Entry, NEW name \in Names, NEW v \in Values,
         NEW t \in InsertHeader(tbl, name, v)
  PROVE  t \subseteq Entry
<1> DEFINE hit(e) == (tbl \ {e}) \cup {[key |-> name, value |-> v, live |-> FALSE]}
           miss == tbl \cup {[key |-> name, value |-> v, live |-> TRUE]}
<1>1. t \in {hit(e) : e \in tbl} \cup {miss}
  BY DEF InsertHeader
<1>2. [key |-> name, value |-> v, live |-> FALSE] \in Entry
  BY Zenon DEF Entry
<1>3. [key |-> name, value |-> v, live |-> TRUE] \in Entry
  BY Zenon DEF Entry
<1>4. \A e \in tbl : hit(e) \subseteq Entry
  BY <1>2, Zenon
<1>5. miss \subseteq Entry
  BY <1>3, Zenon
<1>6. QED BY <1>1, <1>4, <1>5, Zenon

-----------------------------------------------------------------------------
(* The status-line invariant.  While a response's fields are being read,  *)
(* cur is that response's status line, and either no status has been      *)
(* recorded (cur is an interim response, skipped) or the recorded status  *)
(* is cur's.  A recorded status is never 0 or 100.                        *)

StatusInv ==
  outcome = "reading" /\ tphase = "fields" =>
    /\ cur \in StatusLines
    /\ IF header_count = 0 THEN cur.code \in InterimCodes
       ELSE status_code = cur.code /\ status_message = cur.words

CodeInv == header_count >= 1 => status_code \notin {0, 100}

IInv == TypeOK /\ CodeInv /\ StatusInv

\* One step keeps the state well typed.
LEMMA TypeStep == TypeOK /\ [Next]_vars => TypeOK'
<1> SUFFICES ASSUME TypeOK, [Next]_vars PROVE TypeOK'
  OBVIOUS
<1>1. CASE ProcessHeaderLine
  <2>1. PICK l \in Offered :
          /\ Deliver(l)
          /\ \/ ShortLine(l) \/ EmptyLine(l) \/ StatusLine(l) \/ FieldLine(l)
    BY <1>1 DEF ProcessHeaderLine
  <2>2. /\ tphase' \in {"status", "fields", "body"}
        /\ cur' \in StatusLines \cup {NoLine}
        /\ nfields' \in 0..MaxFields
        /\ interims' \in 0..MaxInterims
        /\ redirects' \in 0..MaxRedirs
        /\ sent' \in [Names -> Values \cup {NoValue}]
    BY <2>1, DeliverTypes
  <2>3. outcome' \in {"reading", "done", "aborted", "crashed"}
    BY <2>1 DEF ShortLine, EmptyLine, StatusLine, FieldLine, Accepted
  <2>8. leaked_splits' \in Nat
    BY <2>1 DEF ShortLine, EmptyLine, StatusLine, FieldLine, TypeOK
  <2>4. CASE ShortLine(l) \/ EmptyLine(l)
    BY <2>2, <2>3, <2>8, <2>4 DEF ShortLine, EmptyLine, TypeOK
  <2>5. CASE StatusLine(l)
    <3>1. CASE UNCHANGED <<header_count, status_code, status_message>>
      BY <2>2, <2>3, <2>8, <2>5, <3>1 DEF StatusLine, TypeOK
    <3>2. CASE /\ HasHttp11Prefix(l) /\ HasCodeToken(l)
               /\ l.code # 0 /\ ~IsIgnoredStatus(l.code)
               /\ status_code' = l.code
               /\ status_message' = StatusMessage(Tokens(l))
               /\ header_count' = header_count + 1
      <4>1. l \in StatusLines
        <5>1. l.kind = "status"
          BY <3>2 DEF HasHttp11Prefix
        <5>2. QED BY <2>1, <5>1, OfferedLines DEF TypeOK
      <4>2. l.words \in Seq(STRING)
        BY <4>1, StatusLineFields
      <4>3. status_message' \in Seq(STRING)
        BY <3>2, <4>1, <4>2, MessageIsWords
      <4>4. status_code' \in Codes \cup {0}
        BY <3>2, <4>1, StatusLineFields DEF HasCodeToken
      <4>5. QED
        BY <2>2, <2>3, <2>8, <2>5, <3>2, <4>3, <4>4 DEF StatusLine, TypeOK
    <3>3. QED BY <2>5, <3>1, <3>2 DEF StatusLine
  <2>6. CASE FieldLine(l)
    <3>1. CASE HasFieldSep(l)
      <4>1. l \in FieldLines
        BY <3>1, OfferedLines DEF HasFieldSep
      <4>2. headers' \subseteq Entry
        BY <2>6, <3>1, <4>1, InsertHeaderType DEF FieldLine, FieldLines, TypeOK
      <4>3. QED BY <2>2, <2>3, <2>8, <2>6, <3>1, <4>2 DEF FieldLine, TypeOK
    <3>2. CASE ~HasFieldSep(l)
      BY <2>2, <2>3, <2>8, <2>6, <3>2 DEF FieldLine, TypeOK
    <3>3. QED BY <3>1, <3>2
  <2>7. QED BY <2>1, <2>4, <2>5, <2>6
<1>2. CASE Finished \/ UNCHANGED vars
  BY <1>2 DEF Finished, vars, parser, transport, TypeOK
<1>3. QED BY <1>1, <1>2 DEF Next

\* What one delivery does to the transport, by the line delivered.
LEMMA DeliverCases ==
  ASSUME TypeOK, NEW l \in Offered, Deliver(l)
  PROVE  \/ /\ tphase = "status" /\ l \in StatusLines /\ l.kind = "status"
            /\ tphase' = "fields" /\ cur' = l
         \/ /\ tphase = "fields" /\ l \in BlankLines /\ l.kind = "blank"
            /\ tphase' = IF cur.code \in InterimCodes \cup RedirectCodes
                           THEN "status" ELSE "body"
            /\ cur' = cur
         \/ /\ tphase = "fields" /\ l \in FieldLines /\ l.kind = "field"
            /\ (InterimFields \/ cur.code \notin InterimCodes)
            /\ tphase' = "fields" /\ cur' = cur
<1>1. CASE tphase = "status" /\ l \in StatusLines /\ l.kind = "status"
  BY <1>1 DEF Deliver
<1>2. CASE tphase = "fields" /\ l \in BlankLines /\ l.kind = "blank"
  BY <1>2 DEF Deliver
<1>3. CASE tphase = "fields" /\ l \in FieldLines /\ l.kind = "field"
           /\ nfields < MaxFields
           /\ (InterimFields \/ cur.code \notin InterimCodes)
  BY <1>3 DEF Deliver
<1>4. QED BY <1>1, <1>2, <1>3, OfferedLines

\* A status or field line is never short and never empty.
LEMMA LineLength ==
  ASSUME NEW l, l.kind \in {"status", "field"}
  PROVE  ~ShortLine(l) /\ ~EmptyLine(l)
<1>1. ToRead(l) = 3
  BY DEF ToRead
<1>2. ~IsEmptyLine(l)
  BY DEF IsEmptyLine
<1>3. QED BY <1>1, <1>2 DEF ShortLine, EmptyLine

\* The status-line invariant is inductive.
LEMMA IInvStep == IInv /\ [Next]_vars => IInv'
<1> SUFFICES ASSUME IInv, [Next]_vars PROVE IInv'
  OBVIOUS
<1>1. TypeOK'
  BY TypeStep DEF IInv
<1>2. CASE ProcessHeaderLine
  <2>1. PICK l \in Offered :
          /\ Deliver(l)
          /\ \/ ShortLine(l) \/ EmptyLine(l) \/ StatusLine(l) \/ FieldLine(l)
    BY <1>2 DEF ProcessHeaderLine
  <2>2. outcome = "reading"
    BY <1>2 DEF ProcessHeaderLine
  <2>3. CASE tphase = "status" /\ l \in StatusLines /\ l.kind = "status"
             /\ tphase' = "fields" /\ cur' = l
    <3>1. ~ShortLine(l) /\ ~EmptyLine(l)
      BY <2>3, LineLength
    <3>2. l.code \in Codes \cup {NoCode}
      BY <2>3, StatusLineFields
    <3>3. CASE StatusLine(l)
      <4>1. header_count = 0
        BY <3>3 DEF StatusLine, AwaitingStatus, IInv, TypeOK
      <4>2. CASE outcome' \in {"aborted", "crashed"}
                 /\ UNCHANGED <<header_count, status_code>>
        BY <4>2, <1>1 DEF IInv, CodeInv, StatusInv
      <4>3. CASE /\ HasHttp11Prefix(l) /\ HasCodeToken(l)
                 /\ l.code # 0 /\ IsIgnoredStatus(l.code)
                 /\ Accepted
                 /\ UNCHANGED <<header_count, status_code, status_message>>
        <5>1. l.code = 100 /\ 100 \in Codes
          BY <4>3, <3>2 DEF IsIgnoredStatus, HasCodeToken
        <5>2. cur'.code \in InterimCodes
          BY <5>1, <2>3, ContinueAssumption
        <5>3. outcome' = "reading"
          BY <4>3, <2>3 DEF Accepted
        <5>4. QED BY <5>2, <5>3, <4>1, <4>3, <2>3, <1>1 DEF IInv, CodeInv, StatusInv
      <4>4. CASE /\ HasHttp11Prefix(l) /\ HasCodeToken(l)
                 /\ l.code # 0 /\ ~IsIgnoredStatus(l.code)
                 /\ status_code' = l.code
                 /\ status_message' = StatusMessage(Tokens(l))
                 /\ header_count' = header_count + 1
        <5>1. status_message' = cur'.words
          BY <4>4, <2>3, MessageIsWords
        <5>2. status_code' \notin {0, 100}
          BY <4>4 DEF IsIgnoredStatus
        <5>3. header_count' = 1
          BY <4>4, <4>1
        <5>4. QED BY <5>1, <5>2, <5>3, <4>4, <2>3, <1>1 DEF IInv, CodeInv, StatusInv
      <4>5. QED BY <3>3, <4>2, <4>3, <4>4 DEF StatusLine
    <3>4. CASE FieldLine(l)
      <4>1. ~HasFieldSep(l)
        BY <2>3 DEF HasFieldSep
      <4>2. outcome' = "crashed" /\ UNCHANGED <<header_count, status_code>>
        BY <3>4, <4>1 DEF FieldLine
      <4>3. QED BY <4>2, <1>1 DEF IInv, CodeInv, StatusInv
    <3>5. QED BY <2>1, <3>1, <3>3, <3>4
  <2>4. CASE tphase = "fields" /\ l \in BlankLines /\ l.kind = "blank"
             /\ tphase' = (IF cur.code \in InterimCodes \cup RedirectCodes
                             THEN "status" ELSE "body")
             /\ cur' = cur
    <3>1. tphase' # "fields"
      <4>1. CASE cur.code \in InterimCodes \cup RedirectCodes
        BY <2>4, <4>1
      <4>2. CASE cur.code \notin InterimCodes \cup RedirectCodes
        BY <2>4, <4>2
      <4>3. QED BY <4>1, <4>2
    <3>2. IsEmptyLine(l)
      BY <2>4 DEF IsEmptyLine
    <3>3. UNCHANGED <<header_count, status_code>>
      BY <2>1, <3>2 DEF ShortLine, EmptyLine, StatusLine, FieldLine
    <3>4. QED BY <3>1, <3>3, <1>1 DEF IInv, CodeInv, StatusInv
  <2>5. CASE tphase = "fields" /\ l \in FieldLines /\ l.kind = "field"
             /\ (InterimFields \/ cur.code \notin InterimCodes)
             /\ tphase' = "fields" /\ cur' = cur
    <3>1. ~ShortLine(l) /\ ~EmptyLine(l)
      BY <2>5, LineLength
    <3>2. CASE header_count = 0
      \* a field of a skipped interim response reaches the status branch
      <4>1. StatusLine(l)
        BY <2>1, <3>1, <3>2 DEF FieldLine, AwaitingStatus
      <4>2. outcome' = "aborted" /\ UNCHANGED <<header_count, status_code>>
        BY <4>1, <2>5 DEF StatusLine, HasHttp11Prefix
      <4>3. QED BY <4>2, <1>1 DEF IInv, CodeInv, StatusInv
    <3>3. CASE header_count # 0
      <4>1. cur \in StatusLines
            /\ status_code = cur.code /\ status_message = cur.words
        BY <2>2, <2>5, <3>3 DEF IInv, StatusInv
      <4>2. ~StatusLine(l)
        BY <3>3 DEF StatusLine, AwaitingStatus, IInv, TypeOK
      <4>3. FieldLine(l)
        BY <2>1, <3>1, <4>2
      <4>4. UNCHANGED <<status_code, status_message>>
            /\ header_count' \in {header_count, header_count + 1}
        BY <4>3 DEF FieldLine
      <4>5. header_count' # 0
        BY <3>3, <4>4 DEF IInv, TypeOK
      <4>6. CodeInv'
        BY <3>3, <4>4 DEF IInv, CodeInv, TypeOK
      <4>7. QED BY <4>1, <4>4, <4>5, <4>6, <2>5, <1>1 DEF IInv, StatusInv
    <3>4. QED BY <3>2, <3>3
  <2>6. TypeOK
    BY DEF IInv
  <2>7. \/ /\ tphase = "status" /\ l \in StatusLines /\ l.kind = "status"
           /\ tphase' = "fields" /\ cur' = l
        \/ /\ tphase = "fields" /\ l \in BlankLines /\ l.kind = "blank"
           /\ tphase' = IF cur.code \in InterimCodes \cup RedirectCodes
                          THEN "status" ELSE "body"
           /\ cur' = cur
        \/ /\ tphase = "fields" /\ l \in FieldLines /\ l.kind = "field"
           /\ (InterimFields \/ cur.code \notin InterimCodes)
           /\ tphase' = "fields" /\ cur' = cur
    BY <2>1, <2>6, DeliverCases
  <2>8. QED BY <2>3, <2>4, <2>5, <2>7
<1>3. CASE Finished \/ UNCHANGED vars
  <2>1. UNCHANGED vars
    BY <1>3 DEF Finished
  <2>2. QED BY <2>1, <1>1 DEF vars, parser, transport, IInv, CodeInv, StatusInv
<1>4. QED BY <1>2, <1>3 DEF Next

\* Type correctness: every reachable state satisfies TypeOK.
THEOREM TypeCorrect == Spec => []TypeOK
<1>1. Init => TypeOK
  BY ConstAssumption DEF Init, TypeOK
<1>2. TypeOK /\ [Next]_vars => TypeOK'
  BY TypeStep
<1>3. QED BY <1>1, <1>2, PTL DEF Spec

-----------------------------------------------------------------------------
(* The recorded status.                                                    *)

\* What the callback's branches may set outcome to.
LEMMA FieldLineOutcome ==
  ASSUME NEW l, FieldLine(l)
  PROVE  outcome' \in {"reading", "done", "crashed"}
BY DEF FieldLine, Accepted

LEMMA StatusLineOutcome ==
  ASSUME NEW l, StatusLine(l), HasCodeToken(l)
  PROVE  \/ outcome' \in {"reading", "done"}
         \/ outcome' = "aborted" /\ (~HasHttp11Prefix(l) \/ l.code = 0)
BY DEF StatusLine, Accepted

\* No branch ends the header block unless the final response's empty line
\* is through.
LEMMA DoneOnlyInBody ==
  ASSUME NEW l,
         \/ ShortLine(l) \/ EmptyLine(l) \/ StatusLine(l) \/ FieldLine(l),
         tphase' # "body"
  PROVE  outcome' # "done"
BY DEF ShortLine, EmptyLine, StatusLine, FieldLine, Accepted

\* A step that ends the header block leaves the final status recorded.
LEMMA DoneStep ==
  IInv /\ FinalStatusRecorded /\ [Next]_vars => FinalStatusRecorded'
<1> SUFFICES ASSUME IInv, FinalStatusRecorded, [Next]_vars, outcome' = "done"
             PROVE  /\ header_count' >= 1
                    /\ status_code' = cur'.code
                    /\ status_message' = cur'.words
  BY DEF FinalStatusRecorded
<1>1. CASE ProcessHeaderLine
  <2>1. PICK l \in Offered :
          /\ Deliver(l)
          /\ \/ ShortLine(l) \/ EmptyLine(l) \/ StatusLine(l) \/ FieldLine(l)
    BY <1>1 DEF ProcessHeaderLine
  <2>2. outcome = "reading"
    BY <1>1 DEF ProcessHeaderLine
  <2>3. TypeOK
    BY DEF IInv
  <2>4. tphase' = "body"
    BY <2>1, DoneOnlyInBody
  <2>5. /\ tphase = "fields" /\ l \in BlankLines /\ l.kind = "blank"
        /\ cur.code \notin InterimCodes \cup RedirectCodes
        /\ cur' = cur
    <3>1. \/ /\ tphase = "status" /\ tphase' = "fields"
          \/ /\ tphase = "fields" /\ l \in BlankLines /\ l.kind = "blank"
             /\ tphase' = (IF cur.code \in InterimCodes \cup RedirectCodes
                             THEN "status" ELSE "body")
             /\ cur' = cur
          \/ /\ tphase = "fields" /\ tphase' = "fields"
      BY <2>1, <2>3, DeliverCases
    <3>2. QED BY <3>1, <2>4
  <2>6. cur \in StatusLines /\ header_count # 0
        /\ status_code = cur.code /\ status_message = cur.words
    BY <2>2, <2>5 DEF IInv, StatusInv
  <2>7. UNCHANGED <<header_count, status_code, status_message>>
    <3>1. IsEmptyLine(l)
      BY <2>5 DEF IsEmptyLine
    <3>2. QED BY <2>1, <3>1 DEF ShortLine, EmptyLine, StatusLine, FieldLine
  <2>8. QED BY <2>3, <2>5, <2>6, <2>7 DEF TypeOK
<1>2. CASE Finished \/ UNCHANGED vars
  <2>1. UNCHANGED vars
    BY <1>2 DEF Finished
  <2>2. QED BY <2>1 DEF vars, parser, transport, FinalStatusRecorded
<1>3. QED BY <1>1, <1>2 DEF Next

\* The callback records the status line of the final response: once libcurl
\* has read the whole header block, status_code and status_message are
\* those of its last status line, never of a skipped 100 Continue, for
\* every server alphabet and every bound.
THEOREM FinalStatusCorrect == Spec => []FinalStatusRecorded
<1>1. Init => IInv /\ FinalStatusRecorded
  BY ConstAssumption DEF Init, IInv, TypeOK, CodeInv, StatusInv, FinalStatusRecorded
<1>2. IInv /\ FinalStatusRecorded /\ [Next]_vars => (IInv /\ FinalStatusRecorded)'
  BY IInvStep, DoneStep
<1>3. QED BY <1>1, <1>2, PTL DEF Spec

-----------------------------------------------------------------------------
(* Crashes and aborts.                                                     *)

\* A server that sends no redirect (or a client that follows none), no
\* interim response but 100 Continue, every field as "Name: value" with a
\* non-empty value, and a status code on every status line.
WellBehavedServer ==
  /\ RedirectCodes = {} /\ InterimCodes \subseteq {100}
  /\ Seps = {"colon_space"} /\ EmptyValue \notin Values
  /\ ~BareStatus

\* Whenever libcurl is about to hand over a status line, the callback is
\* still waiting for one.
NextStatusFresh == outcome = "reading" /\ tphase = "status" => header_count = 0

\* Without bare status lines, every status line carries a code token.
LEMMA NoBareCode ==
  ASSUME ~BareStatus, NEW l \in StatusLines
  PROVE  l.code \in Codes /\ HasCodeToken(l)
<1> DEFINE Full == [kind : {"status"}, proto : Protos, code : Codes, words : Msgs]
           Bare == [kind : {"status"}, proto : Protos, code : {NoCode}, words : {<<>>}]
<1>1. StatusLines = Full \cup (IF BareStatus THEN Bare ELSE {})
  BY DEF StatusLines
<1>2. l \in Full
  BY <1>1, Zenon
<1>3. l.code \in Codes
  BY <1>2, Zenon
<1>4. QED BY <1>3, ConstAssumption DEF HasCodeToken

\* Against a well-behaved server the callback never crashes.
LEMMA NoCrashStep ==
  ASSUME WellBehavedServer, IInv, NoCrash, NextStatusFresh, [Next]_vars
  PROVE  NoCrash' /\ NextStatusFresh'
<1>1. CASE ProcessHeaderLine
  <2>1. PICK l \in Offered :
          /\ Deliver(l)
          /\ \/ ShortLine(l) \/ EmptyLine(l) \/ StatusLine(l) \/ FieldLine(l)
    BY <1>1 DEF ProcessHeaderLine
  <2>2. outcome = "reading"
    BY <1>1 DEF ProcessHeaderLine
  <2>3. TypeOK
    BY DEF IInv
  <2>4. CASE tphase = "status" /\ l \in StatusLines /\ l.kind = "status"
             /\ tphase' = "fields" /\ cur' = l
    <3>1. header_count = 0
      BY <2>2, <2>4 DEF NextStatusFresh
    <3>2. ~FieldLine(l)
      BY <3>1 DEF FieldLine, AwaitingStatus
    <3>3. ~ShortLine(l) /\ ~EmptyLine(l)
      BY <2>4, LineLength
    <3>4. HasCodeToken(l)
      BY <2>4, NoBareCode DEF WellBehavedServer
    <3>5. outcome' # "crashed"
      BY <2>1, <3>2, <3>3, <3>4, StatusLineOutcome
    <3>6. QED BY <3>5, <2>4 DEF NoCrash, NextStatusFresh
  <2>5. CASE tphase = "fields" /\ l \in BlankLines /\ l.kind = "blank"
             /\ tphase' = (IF cur.code \in InterimCodes \cup RedirectCodes
                             THEN "status" ELSE "body")
             /\ cur' = cur
    <3>1. IsEmptyLine(l)
      BY <2>5 DEF IsEmptyLine
    <3>2. /\ outcome' # "crashed"
          /\ UNCHANGED header_count
      BY <2>1, <3>1 DEF ShortLine, EmptyLine, StatusLine, FieldLine, Accepted
    <3>3. ASSUME tphase' = "status" PROVE header_count = 0
      <4>1. cur.code = 100
        BY <3>3, <2>5 DEF WellBehavedServer
      <4>2. cur \in StatusLines
        BY <2>2, <2>5 DEF IInv, StatusInv
      <4>3. header_count # 0 => status_code = 100
        BY <2>2, <2>5, <4>1 DEF IInv, StatusInv
      <4>4. header_count # 0 => status_code \notin {0, 100}
        BY <2>3 DEF IInv, CodeInv, TypeOK
      <4>5. QED BY <4>3, <4>4
    <3>4. QED BY <3>2, <3>3 DEF NoCrash, NextStatusFresh
  <2>6. CASE tphase = "fields" /\ l \in FieldLines /\ l.kind = "field"
             /\ (InterimFields \/ cur.code \notin InterimCodes)
             /\ tphase' = "fields" /\ cur' = cur
    <3>1. ~ShortLine(l) /\ ~EmptyLine(l)
      BY <2>6, LineLength
    <3>2. CASE header_count = 0
      \* a field of a skipped interim response is rejected, not parsed
      <4>1. StatusLine(l)
        BY <2>1, <3>1, <3>2 DEF FieldLine, AwaitingStatus
      <4>2. outcome' = "aborted"
        BY <4>1, <2>6 DEF StatusLine, HasHttp11Prefix
      <4>3. QED BY <4>2, <2>6 DEF NoCrash, NextStatusFresh
    <3>3. CASE header_count # 0
      <4>1. ~StatusLine(l)
        BY <3>3, <2>3 DEF StatusLine, AwaitingStatus, TypeOK
      <4>2. HasFieldSep(l)
        BY <2>6 DEF HasFieldSep, FieldLines, WellBehavedServer
      <4>3. outcome' # "crashed"
        BY <2>1, <3>1, <4>1, <4>2 DEF FieldLine, Accepted
      <4>4. QED BY <4>3, <2>6 DEF NoCrash, NextStatusFresh
    <3>4. QED BY <3>2, <3>3
  <2>7. \/ /\ tphase = "status" /\ l \in StatusLines /\ l.kind = "status"
           /\ tphase' = "fields" /\ cur' = l
        \/ /\ tphase = "fields" /\ l \in BlankLines /\ l.kind = "blank"
           /\ tphase' = IF cur.code \in InterimCodes \cup RedirectCodes
                          THEN "status" ELSE "body"
           /\ cur' = cur
        \/ /\ tphase = "fields" /\ l \in FieldLines /\ l.kind = "field"
           /\ (InterimFields \/ cur.code \notin InterimCodes)
           /\ tphase' = "fields" /\ cur' = cur
    BY <2>1, <2>3, DeliverCases
  <2>8. QED BY <2>4, <2>5, <2>6, <2>7
<1>2. CASE Finished \/ UNCHANGED vars
  <2>1. UNCHANGED vars
    BY <1>2 DEF Finished
  <2>2. QED BY <2>1 DEF vars, parser, transport, NoCrash, NextStatusFresh
<1>3. QED BY <1>1, <1>2 DEF Next

\* The callback never faults on a well-behaved server: with no redirect to
\* follow, no interim response other than 100 Continue, no status line
\* without a code and no field without ": value", no line makes it call
\* strlen or g_ascii_strtoll on NULL, whether or not a 100 Continue
\* carries fields.  Each hypothesis is needed: the header_redirect_crash
\* run breaks the first; a 103 Early Hints response, a bare ":", an empty
\* value or a bare "HTTP/1.1" (ds3.c:135) the others.
THEOREM NoCrashWellBehaved == WellBehavedServer => (Spec => []NoCrash)
<1> SUFFICES ASSUME WellBehavedServer PROVE Spec => []NoCrash
  OBVIOUS
<1> DEFINE NInv == IInv /\ NoCrash /\ NextStatusFresh
<1>1. Init => NInv
  BY ConstAssumption
     DEF Init, IInv, TypeOK, CodeInv, StatusInv, NoCrash, NextStatusFresh
<1>2. NInv /\ [Next]_vars => NInv'
  BY IInvStep, NoCrashStep
<1>3. NInv => NoCrash
  OBVIOUS
<1>4. QED BY <1>1, <1>2, <1>3, PTL DEF Spec

\* A server that ends every line with CRLF, puts a code on every status
\* line and sends its interim responses without header fields.
PlainHeaderServer == Eols = {"CRLF"} /\ ~BareStatus /\ ~InterimFields

\* A step that aborts does so on a bad status line.
LEMMA AbortStep ==
  ASSUME PlainHeaderServer, IInv, AbortOnlyOnBadStatus, [Next]_vars
  PROVE  AbortOnlyOnBadStatus'
<1> SUFFICES ASSUME outcome' = "aborted"
             PROVE  cur'.proto # "HTTP/1.1" \/ cur'.code = 0
  BY DEF AbortOnlyOnBadStatus
<1>1. CASE ProcessHeaderLine
  <2>1. PICK l \in Offered :
          /\ Deliver(l)
          /\ \/ ShortLine(l) \/ EmptyLine(l) \/ StatusLine(l) \/ FieldLine(l)
    BY <1>1 DEF ProcessHeaderLine
  <2>2. outcome = "reading"
    BY <1>1 DEF ProcessHeaderLine
  <2>3. TypeOK
    BY DEF IInv
  <2>4. ~FieldLine(l)
    BY FieldLineOutcome
  <2>5. CASE tphase = "status" /\ l \in StatusLines /\ l.kind = "status"
             /\ tphase' = "fields" /\ cur' = l
    <3>1. ~ShortLine(l) /\ ~EmptyLine(l)
      BY <2>5, LineLength
    <3>2. HasCodeToken(l)
      BY <2>5, NoBareCode DEF PlainHeaderServer
    <3>3. ~HasHttp11Prefix(l) \/ l.code = 0
      BY <2>1, <2>4, <3>1, <3>2, StatusLineOutcome
    <3>4. QED BY <3>3, <2>5 DEF HasHttp11Prefix
  <2>6. CASE tphase = "fields" /\ l \in BlankLines /\ l.kind = "blank"
    <3>1. IsEmptyLine(l)
      BY <2>6 DEF IsEmptyLine
    <3>2. ToRead(l) = 3
      BY <2>6 DEF BlankLines, PlainHeaderServer, ToRead
    <3>3. QED BY <2>1, <2>4, <3>1, <3>2 DEF ShortLine, EmptyLine, StatusLine, Accepted
  <2>7. CASE tphase = "fields" /\ l \in FieldLines /\ l.kind = "field"
             /\ (InterimFields \/ cur.code \notin InterimCodes)
    <3>0. cur.code \notin InterimCodes
      BY <2>7 DEF PlainHeaderServer
    <3>1. header_count # 0
      BY <2>2, <2>7, <3>0 DEF IInv, StatusInv
    <3>2. ~StatusLine(l)
      BY <3>1, <2>3 DEF StatusLine, AwaitingStatus, TypeOK
    <3>3. QED BY <2>1, <2>4, <2>7, <3>2, LineLength
  <2>8. QED BY <2>1, <2>3, <2>5, <2>6, <2>7, DeliverCases
<1>2. CASE Finished \/ UNCHANGED vars
  <2>1. UNCHANGED vars
    BY <1>2 DEF Finished
  <2>2. outcome = "aborted"
    BY <2>1 DEF vars, parser
  <2>3. QED BY <2>1, <2>2 DEF vars, transport, AbortOnlyOnBadStatus
<1>3. QED BY <1>1, <1>2 DEF Next

\* The callback cuts a transfer short only on a status line that is not
\* HTTP/1.1 or whose code reads as 0, whenever the server ends its lines
\* with CRLF, puts a code on every status line and sends bare interim
\* responses: a bare 100 Continue, a redirect or a field of a final
\* response never makes it return a short count.  Each hypothesis is
\* needed: a bare LF line end makes to_read 1 and ds3.c:111 aborts; a
\* bare "HTTP/1.1" may abort at ds3.c:139; and a field of a 100 Continue
\* arrives while header_count is still 0 and aborts at ds3.c:155-158
\* (the header_interim_fields run).
THEOREM AbortOnlyCorrect == PlainHeaderServer => (Spec => []AbortOnlyOnBadStatus)
<1> SUFFICES ASSUME PlainHeaderServer PROVE Spec => []AbortOnlyOnBadStatus
  OBVIOUS
<1> DEFINE AInv == IInv /\ AbortOnlyOnBadStatus
<1>1. Init => AInv
  BY ConstAssumption
     DEF Init, IInv, TypeOK, CodeInv, StatusInv, AbortOnlyOnBadStatus
<1>2. AInv /\ [Next]_vars => AInv'
  BY IInvStep, AbortStep
<1>3. QED BY <1>1, <1>2, PTL DEF Spec

-----------------------------------------------------------------------------
(* The status line is written once.                                        *)

\* A step that changes the recorded status code or message is the one
\* that records the first final status line: header_count goes from 0 to
\* 1 with it (ds3.c:128, 148-151, 174), so no later line of the same or a
\* further response (a field, a redirect's or an interim's status line)
\* overwrites the status.
StatusWrite ==
  <<status_code, status_message>>' # <<status_code, status_message>> =>
    header_count = 0 /\ header_count' = 1

LEMMA StatusWriteStep == TypeOK /\ [Next]_vars => [StatusWrite]_vars
<1> SUFFICES ASSUME TypeOK, [Next]_vars,
                    <<status_code, status_message>>' # <<status_code, status_message>>
             PROVE  header_count = 0 /\ header_count' = 1
  BY DEF StatusWrite, vars, parser
<1>1. CASE ProcessHeaderLine
  <2>1. PICK l \in Offered :
          \/ ShortLine(l) \/ EmptyLine(l) \/ StatusLine(l) \/ FieldLine(l)
    BY <1>1 DEF ProcessHeaderLine
  <2>2. ~ShortLine(l) /\ ~EmptyLine(l) /\ ~FieldLine(l)
    BY DEF ShortLine, EmptyLine, FieldLine
  <2>3. StatusLine(l)
    BY <2>1, <2>2
  <2>4. AwaitingStatus(header_count) /\ header_count' = header_count + 1
    BY <2>3 DEF StatusLine
  <2>. QED  BY <2>4 DEF AwaitingStatus, TypeOK
<1>2. CASE Finished \/ UNCHANGED vars
  BY <1>2 DEF Finished, vars, parser
<1>. QED  BY <1>1, <1>2 DEF Next

\* Once recorded, the status of the exchange is never overwritten: every
\* step either leaves code and message alone or is the single step that
\* takes header_count from 0 to 1.
THEOREM StatusRecordedOnce == Spec => [][StatusWrite]_vars
BY TypeCorrect, StatusWriteStep, PTL DEF Spec


=============================================================================
