------------------------ MODULE HeaderParserRefinement ------------------------
(***************************************************************************)
(* Proof that the response-header callback, driven by libcurl, implements *)
(* HeaderResponse under the refinement mapping of HeaderParser: every     *)
(* step of _process_header_line is a step of the abstract response data   *)
(* or leaves it unchanged; and that the header table never loses the     *)
(* last value sent for a name, however the freed key of a repeated name  *)
(* compares.                                                               *)
(***************************************************************************)
EXTENDS HeaderParserProofs

\* The abstract header table the mapping reads off the callback's table.
Tbl == [n \in Names |-> TableValue(n)]

\* What the mapping makes of outcome and header_count.
LEMMA ResponseStateCases ==
  /\ outcome = "done" => ResponseState = "complete"
  /\ outcome \in {"aborted", "crashed"} => ResponseState = "failed"
  /\ outcome = "reading" /\ header_count = 0 => ResponseState = "await_status"
  /\ outcome = "reading" /\ header_count # 0 => ResponseState = "fields"
BY DEF ResponseState

\* g_hash_table_insert touches only the entries under the name inserted.
LEMMA InsertKeepsOthers ==
  ASSUME NEW tbl, NEW name, NEW v, NEW t \in InsertHeader(tbl, name, v),
         NEW m, m # name
  PROVE  {x \in t : x.key = m} = {x \in tbl : x.key = m}
<1> DEFINE hit(e) == (tbl \ {e}) \cup {[key |-> name, value |-> v, live |-> FALSE]}
           miss == tbl \cup {[key |-> name, value |-> v, live |-> TRUE]}
<1>1. t \in {hit(e) : e \in {x \in tbl : x.key = name}} \cup {miss}
  BY DEF InsertHeader
<1>2. ASSUME NEW e \in tbl, e.key = name
      PROVE  {x \in hit(e) : x.key = m} = {x \in tbl : x.key = m}
  BY <1>2
<1>3. {x \in miss : x.key = m} = {x \in tbl : x.key = m}
  OBVIOUS
<1>4. QED BY <1>1, <1>2, <1>3

\* After the insert the name has a value, and it is one the server sent.
LEMMA InsertFindsName ==
  ASSUME NEW tbl \in SUBSET Entry, NEW name \in Names, NEW v \in Values,
         NEW t \in InsertHeader(tbl, name, v)
  PROVE  LET found == {e.value : e \in {x \in t : x.key = name}}
         IN  v \in found /\ found # {} /\ found \subseteq Values
<1> DEFINE hit(e) == (tbl \ {e}) \cup {[key |-> name, value |-> v, live |-> FALSE]}
           miss == tbl \cup {[key |-> name, value |-> v, live |-> TRUE]}
<1>1. t \in {hit(e) : e \in {x \in tbl : x.key = name}} \cup {miss}
  BY DEF InsertHeader
<1>2. \E b \in BOOLEAN : [key |-> name, value |-> v, live |-> b] \in t
  BY <1>1
<1>3. t \subseteq Entry
  BY InsertHeaderType
<1>4. QED BY <1>2, <1>3 DEF Entry

\* When the server sends no interim code but 100, every status code the
\* callback records is one HeaderResponse may record.
LEMMA RecordedIsFinal ==
  ASSUME InterimCodes \subseteq {100}, NEW l \in StatusLines,
         HasCodeToken(l), l.code # 0, ~IsIgnoredStatus(l.code)
  PROVE  l.code \in Codes \ ({0} \cup InterimCodes)
<1>1. l.code \in Codes \cup {NoCode}
  BY StatusLineFields
<1>2. QED BY <1>1 DEF HasCodeToken, IsIgnoredStatus

\* A step that only ends the transfer early is the abstract Fail.
LEMMA FailStep ==
  ASSUME outcome = "reading", outcome' \in {"aborted", "crashed"},
         UNCHANGED <<header_count, status_code, headers>>
  PROVE  HR!Fail
<1>1. ResponseState \in {"await_status", "fields"}
  BY ResponseStateCases
<1>2. ResponseState' = "failed"
  BY DEF ResponseState
<1>3. Tbl' = Tbl
  BY DEF Tbl, TableValue, Lookup
<1>4. QED BY <1>1, <1>2, <1>3 DEF HR!Fail, Tbl

\* A step that changes none of the mapped state is an abstract stutter.
LEMMA StutterStep ==
  ASSUME outcome = "reading", outcome' = "reading",
         UNCHANGED <<header_count, status_code, headers>>
  PROVE  UNCHANGED HR!vars
<1>1. ResponseState' = ResponseState
  BY DEF ResponseState
<1>2. Tbl' = Tbl
  BY DEF Tbl, TableValue, Lookup
<1>3. QED BY <1>1, <1>2 DEF HR!vars, Tbl

\* Every step of the callback under libcurl is a HeaderResponse step or
\* leaves the mapped state alone.
LEMMA RefinementStep ==
  ASSUME InterimCodes \subseteq {100}, IInv, [Next]_vars
  PROVE  [HR!Next]_HR!vars
<1>1. CASE ProcessHeaderLine
  <2>1. PICK l \in Offered :
          /\ Deliver(l)
          /\ \/ ShortLine(l) \/ EmptyLine(l) \/ StatusLine(l) \/ FieldLine(l)
    BY <1>1 DEF ProcessHeaderLine
  <2>2. outcome = "reading" /\ TypeOK
    BY <1>1 DEF ProcessHeaderLine, IInv
  <2>3. CASE ShortLine(l)
    <3>1. HR!Fail
      BY <2>2, <2>3, FailStep DEF ShortLine
    <3>2. QED BY <3>1 DEF HR!Next
  <2>4. CASE EmptyLine(l)
    <3>1. UNCHANGED <<header_count, status_code, headers>>
      BY <2>4 DEF EmptyLine
    <3>2. outcome' \in {"reading", "done"}
      BY <2>4 DEF EmptyLine, Accepted
    <3>3. CASE outcome' = "reading"
      BY <2>2, <3>1, <3>3, StutterStep
    <3>4. CASE outcome' = "done"
      <4>1. FinalStatusRecorded'
        BY <2>2, DoneStep DEF FinalStatusRecorded
      <4>2. header_count # 0
        BY <4>1, <3>1, <3>4, <2>2 DEF FinalStatusRecorded, TypeOK
      <4>3. ResponseState = "fields"
        BY <2>2, <4>2, ResponseStateCases
      <4>4. ResponseState' = "complete"
        BY <3>4 DEF ResponseState
      <4>5. Tbl' = Tbl
        BY <3>1 DEF Tbl, TableValue, Lookup
      <4>6. HR!Complete
        BY <3>1, <4>3, <4>4, <4>5 DEF HR!Complete, Tbl
      <4>7. QED BY <4>6 DEF HR!Next
    <3>5. QED BY <3>2, <3>3, <3>4
  <2>5. CASE StatusLine(l)
    <3>0. header_count = 0 /\ UNCHANGED headers
      BY <2>2, <2>5 DEF StatusLine, AwaitingStatus, TypeOK
    <3>1. CASE ~HasHttp11Prefix(l) \/ ~HasCodeToken(l) \/ l.code = 0
      <4>1. outcome' \in {"aborted", "crashed"}
            /\ UNCHANGED <<header_count, status_code>>
        BY <2>5, <3>1 DEF StatusLine
      <4>2. HR!Fail
        BY <2>2, <3>0, <4>1, FailStep
      <4>3. QED BY <4>2 DEF HR!Next
    <3>2. CASE HasHttp11Prefix(l) /\ HasCodeToken(l) /\ l.code # 0
      <4>1. tphase' = "fields" /\ l \in StatusLines
        <5>1. l.kind = "status"
          BY <3>2 DEF HasHttp11Prefix
        <5>2. QED BY <5>1, <2>1, <2>2, DeliverCases
      <4>2. outcome' = "reading"
        BY <2>5, <3>2, <4>1 DEF StatusLine, Accepted
      <4>3. CASE IsIgnoredStatus(l.code)
        <5>1. UNCHANGED <<header_count, status_code>>
          BY <2>5, <3>2, <4>3 DEF StatusLine
        <5>2. QED BY <2>2, <3>0, <4>2, <5>1, StutterStep
      <4>4. CASE ~IsIgnoredStatus(l.code)
        <5>1. status_code' = l.code /\ header_count' = header_count + 1
          BY <2>5, <3>2, <4>4 DEF StatusLine
        <5>2. l.code \in Codes \ ({0} \cup InterimCodes)
          BY <3>2, <4>1, <4>4, RecordedIsFinal
        <5>3. ResponseState = "await_status" /\ ResponseState' = "fields"
          <6>1. ResponseState = "await_status"
            BY <2>2, <3>0, ResponseStateCases
          <6>2. header_count' # 0
            BY <3>0, <5>1
          <6>3. ResponseState' = "fields"
            BY <4>2, <6>2 DEF ResponseState
          <6>4. QED BY <6>1, <6>3
        <5>4. Tbl' = Tbl
          BY <3>0 DEF Tbl, TableValue, Lookup
        <5>5. HR!RecordStatus(l.code)
          BY <5>1, <5>3, <5>4 DEF HR!RecordStatus, Tbl
        <5>6. QED BY <5>2, <5>5 DEF HR!Next
      <4>5. QED BY <4>3, <4>4
    <3>3. QED BY <3>1, <3>2
  <2>6. CASE FieldLine(l)
    <3>0. header_count # 0 /\ UNCHANGED status_code
      BY <2>2, <2>6 DEF FieldLine, AwaitingStatus, TypeOK
    <3>1. CASE ~HasFieldSep(l)
      <4>1. outcome' = "crashed" /\ UNCHANGED <<header_count, headers>>
        BY <2>6, <3>1 DEF FieldLine
      <4>2. HR!Fail
        BY <2>2, <3>0, <4>1, FailStep
      <4>3. QED BY <4>2 DEF HR!Next
    <3>2. CASE HasFieldSep(l)
      <4>1. headers' \in InsertHeader(headers, l.name, l.value)
            /\ header_count' = header_count + 1
        BY <2>6, <3>2 DEF FieldLine
      <4>2. tphase' = "fields" /\ l \in FieldLines
        <5>1. l.kind = "field"
          BY <3>2 DEF HasFieldSep
        <5>2. QED BY <5>1, <2>1, <2>2, DeliverCases
      <4>3. outcome' = "reading"
        BY <2>6, <3>2, <4>2 DEF FieldLine, Accepted
      <4>4. l.name \in Names /\ l.value \in Values /\ headers \subseteq Entry
        BY <4>2, <2>2 DEF FieldLines, TypeOK
      <4>5. ResponseState = "fields" /\ ResponseState' = "fields"
        <5>1. ResponseState = "fields"
          BY <2>2, <3>0, ResponseStateCases
        <5>2. header_count' # 0
          BY <2>2, <3>0, <4>1 DEF TypeOK
        <5>3. ResponseState' = "fields"
          BY <4>3, <5>2 DEF ResponseState
        <5>4. QED BY <5>1, <5>3
      <4>6. \A m \in Names \ {l.name} : Tbl'[m] = Tbl[m]
        <5>1. \A m \in Names \ {l.name} :
                {x \in headers' : x.key = m} = {x \in headers : x.key = m}
          BY <4>1, InsertKeepsOthers
        <5>2. \A m \in Names \ {l.name} : Lookup(m)' = Lookup(m)
          BY <5>1 DEF Lookup
        <5>3. \A m \in Names \ {l.name} : TableValue(m)' = TableValue(m)
          <6> SUFFICES ASSUME NEW m \in Names \ {l.name}
                       PROVE  TableValue(m)' = TableValue(m)
            OBVIOUS
          <6>1. Lookup(m)' = Lookup(m)
            BY <5>2
          <6>2. QED BY <6>1 DEF TableValue
        <5>4. QED BY <5>3 DEF Tbl
      <4>7. Tbl'[l.name] \in Values
        <5> DEFINE found == {e.value : e \in {x \in headers' : x.key = l.name}}
        <5>1. found # {} /\ found \subseteq Values
          BY <4>1, <4>4, InsertFindsName
        <5>2. Tbl'[l.name] = CHOOSE v \in found : TRUE
          BY <4>4, <5>1 DEF Tbl, TableValue, Lookup
        <5>3. QED BY <5>1, <5>2
      <4>8. Tbl' = [Tbl EXCEPT ![l.name] = Tbl'[l.name]]
        BY <4>4, <4>6 DEF Tbl
      <4>9. HR!RecordField(l.name, Tbl'[l.name])
        BY <3>0, <4>5, <4>8 DEF HR!RecordField, Tbl
      <4>10. QED BY <4>4, <4>7, <4>9 DEF HR!Next
    <3>3. QED BY <3>1, <3>2
  <2>7. QED BY <2>1, <2>3, <2>4, <2>5, <2>6
<1>2. CASE Finished \/ UNCHANGED vars
  <2>1. UNCHANGED vars
    BY <1>2 DEF Finished
  <2>2. QED BY <2>1 DEF vars, parser, HR!vars, ResponseState, TableValue, Lookup
<1>3. QED BY <1>1, <1>2 DEF Next

\* The callback implements HeaderResponse: it records one final status
\* code before any field, each accepted field changes the value of its
\* own name only, and the response data is frozen once the header block is
\* complete or the transfer fails.  This holds for every bound, a name
\* sent three times included (the abstract table only asks for some value
\* the server sent).  The hypothesis is needed: a 101 or 103 interim
\* response is recorded as the status (ds3.c:142 skips only 100).
THEOREM ImplementsHeaderResponseCorrect ==
  InterimCodes \subseteq {100} => (Spec => ImplementsHeaderResponse)
<1> SUFFICES ASSUME InterimCodes \subseteq {100}
             PROVE  Spec => HR!Spec
  BY DEF ImplementsHeaderResponse
<1>1. Init => HR!Init
  <2> SUFFICES ASSUME Init PROVE HR!Init
    OBVIOUS
  <2>1. ResponseState = "await_status"
    BY DEF Init, ResponseState
  <2>2. Tbl = [n \in Names |-> NoValue]
    BY DEF Init, Tbl, TableValue, Lookup
  <2>3. QED BY <2>1, <2>2 DEF Init, HR!Init, Tbl
<1>2. Init => IInv
  BY ConstAssumption DEF Init, IInv, TypeOK, CodeInv, StatusInv
<1>3. IInv /\ [Next]_vars => IInv'
  BY IInvStep
<1>4. IInv /\ [Next]_vars => [HR!Next]_HR!vars
  BY RefinementStep
<1>5. QED BY <1>1, <1>2, <1>3, <1>4, PTL DEF Spec, HR!Spec

-----------------------------------------------------------------------------
(* The last value of each name survives the dangling key.                *)

\* One step keeps the last value the current response sent for each name
\* in the table.
LEMMA LatestValueStep ==
  ASSUME TypeOK, LatestValueKept, [Next]_vars
  PROVE  LatestValueKept'
<1> SUFFICES ASSUME outcome' \in {"reading", "done"}, NEW n \in Names,
                    sent'[n] # NoValue
             PROVE  sent'[n] \in Lookup(n)'
  BY DEF LatestValueKept
<1>1. CASE ProcessHeaderLine
  <2>1. PICK l \in Offered :
          /\ Deliver(l)
          /\ \/ ShortLine(l) \/ EmptyLine(l) \/ StatusLine(l) \/ FieldLine(l)
    BY <1>1 DEF ProcessHeaderLine
  <2>2. outcome = "reading"
    BY <1>1 DEF ProcessHeaderLine
  <2>3. CASE l.kind = "status"
    <3>1. sent' = [x \in Names |-> NoValue]
      BY <2>1, <2>3 DEF Deliver
    <3>. QED  BY <3>1
  <2>4. CASE l.kind = "blank"
    <3>1. sent' = sent
      BY <2>1, <2>4 DEF Deliver
    <3>2. IsEmptyLine(l)
      BY <2>4 DEF IsEmptyLine
    <3>3. ShortLine(l) \/ EmptyLine(l)
      BY <2>1, <3>2 DEF StatusLine, FieldLine
    <3>4. outcome' \in {"reading", "done"} => UNCHANGED headers
      BY <3>3 DEF ShortLine, EmptyLine
    <3>. QED  BY <2>2, <3>1, <3>4 DEF LatestValueKept, Lookup
  <2>5. CASE l.kind = "field"
    <3>1. l \in FieldLines /\ sent' = [sent EXCEPT ![l.name] = l.value]
      <4>1. l \in FieldLines
        BY <2>1, <2>5, OfferedLines
      <4>2. QED BY <2>1, <2>5, <4>1 DEF Deliver
    <3>2. l.name \in Names /\ l.value \in Values /\ headers \subseteq Entry
      BY <3>1 DEF FieldLines, TypeOK
    <3>3. ~ShortLine(l) /\ ~EmptyLine(l)
      BY <2>5, LineLength
    <3>4. ~StatusLine(l)
      BY <2>5 DEF StatusLine, HasHttp11Prefix
    <3>5. FieldLine(l) /\ HasFieldSep(l)
      BY <2>1, <3>3, <3>4 DEF FieldLine
    <3>6. headers' \in InsertHeader(headers, l.name, l.value)
      BY <3>5 DEF FieldLine
    <3>7. CASE n = l.name
      <4>1. sent'[n] = l.value
        BY <3>1, <3>2, <3>7 DEF TypeOK
      <4>2. l.value \in Lookup(l.name)'
        BY <3>2, <3>6, InsertFindsName DEF Lookup
      <4>. QED  BY <3>7, <4>1, <4>2
    <3>8. CASE n # l.name
      <4>1. sent'[n] = sent[n]
        BY <3>1, <3>8 DEF TypeOK
      <4>2. Lookup(n)' = Lookup(n)
        <5>1. {x \in headers' : x.key = n} = {x \in headers : x.key = n}
          BY <3>6, <3>8, InsertKeepsOthers
        <5>. QED  BY <5>1 DEF Lookup
      <4>. QED  BY <2>2, <4>1, <4>2 DEF LatestValueKept
    <3>. QED  BY <3>7, <3>8
  <2>. QED  BY <2>1, <2>3, <2>4, <2>5, OfferedLines, StatusLineFields
<1>2. CASE Finished \/ UNCHANGED vars
  <2>1. UNCHANGED vars
    BY <1>2 DEF Finished
  <2>. QED  BY <2>1 DEF vars, parser, transport, LatestValueKept, Lookup
<1>. QED  BY <1>1, <1>2 DEF Next

\* g_hash_table_insert with the header destructor never loses the value
\* of the latest "Name: value" line: for every bound, a name repeated any
\* number of times included, the table holds the value last sent for each
\* name (beside, after a miss on the freed key, a stale one).
THEOREM LatestValueKeptCorrect == Spec => []LatestValueKept
<1>1. Init => TypeOK /\ LatestValueKept
  BY ConstAssumption DEF Init, TypeOK, LatestValueKept
<1>2. TypeOK /\ LatestValueKept /\ [Next]_vars => (TypeOK /\ LatestValueKept)'
  BY TypeStep, LatestValueStep
<1>. QED  BY <1>1, <1>2, PTL DEF Spec
=============================================================================
