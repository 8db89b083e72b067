--------------------------- MODULE ExecutorProofs ---------------------------
(***************************************************************************)
(* Proofs about the request-executor model Executor.                      *)
(***************************************************************************)
EXTENDS Executor, SequenceTheorems, TLAPS

\* What one read callback returns is a piece of the manifest.
LEMMA SendXmlBuffType ==
  ASSUME NEW m \in Seq(STRING), NEW n \in Nat
  PROVE  SendXmlBuff(m, 0, n) \in Seq(STRING)
BY SubSeqProperties DEF SendXmlBuff

\* The initial state is well typed.
LEMMA InitType == Init => TypeOK
<1> SUFFICES ASSUME Init PROVE TypeOK
  OBVIOUS
<1>1. pc \in {"idle", "bulk_args", "dispatch", "net", "upload", "perform", "after"}
      /\ op \in Ops \cup {"none"}
  BY DEF Init
<1>2. args_ok \in BOOLEAN /\ list_ok \in BOOLEAN /\ initialized \in BOOLEAN
  BY DEF Init
<1>3. manifest \in Seq(STRING) /\ sent \in Seq(STRING)
  BY DEF Init
<1>4. body \in Bodies /\ cause \in Errors /\ result \in Errors
  BY DEF Init, Bodies, Errors
<1>5. calls \in 0..MaxCalls
  BY ExecutorAssumption DEF Init
<1>6. QED BY <1>1, <1>2, <1>3, <1>4, <1>5, Zenon DEF TypeOK

\* Every step keeps the types.
LEMMA TypeStep == TypeOK /\ [Next]_vars => TypeOK'
<1> SUFFICES ASSUME TypeOK, [Next]_vars PROVE TypeOK'
  OBVIOUS
<1>1. CASE Call
  BY <1>1, ExecutorAssumption DEF Call, TypeOK, Errors, Bodies
<1>2. CASE BulkArgs
  BY <1>2, ExecutorAssumption DEF BulkArgs, TypeOK, Errors
<1>3. CASE Dispatch
  BY <1>3 DEF Dispatch, TypeOK, Errors
<1>4. CASE Net
  BY <1>4 DEF Net, TypeOK, Errors
<1>5. CASE Upload
  <2>1. CASE Len(sent) < Len(manifest)
    <3> DEFINE chunk == SendXmlBuff(manifest, 0, BufSize)
               want == Len(manifest) - Len(sent)
               k == IF Len(chunk) < want THEN Len(chunk) ELSE want
    <3>1. chunk \in Seq(STRING)
      BY SendXmlBuffType, ExecutorAssumption DEF TypeOK
    <3>2. k \in 0..Len(chunk)
      BY <3>1, <2>1 DEF TypeOK
    <3>3. SubSeq(chunk, 1, k) \in Seq(STRING)
      BY <3>1, <3>2, SubSeqProperties
    <3>4. sent' = sent \o SubSeq(chunk, 1, k) /\ UNCHANGED pc
      BY <1>5, <2>1 DEF Upload
    <3>5. sent' \in Seq(STRING)
      BY <3>3, <3>4, ConcatProperties DEF TypeOK
    <3>6. QED BY <1>5, <3>4, <3>5 DEF Upload, TypeOK
  <2>2. CASE ~(Len(sent) < Len(manifest))
    BY <1>5, <2>2 DEF Upload, TypeOK
  <2>3. QED BY <2>1, <2>2
<1>6. CASE Perform
  BY <1>6 DEF Perform, TypeOK, Errors, Bodies
<1>7. CASE After
  <2>1. DecodeResult(body) \in Errors
    BY DEF DecodeResult, Errors
  <2>2. QED BY <1>7, <2>1 DEF After, TypeOK, BulkNetResult
<1>8. CASE Quiet \/ UNCHANGED vars
  BY <1>8 DEF Quiet, vars, TypeOK
<1>9. QED BY <1>1, <1>2, <1>3, <1>4, <1>5, <1>6, <1>7, <1>8 DEF Next

\* Type correctness of every reachable state.
THEOREM TypeCorrect == Spec => []TypeOK
<1>1. QED BY InitType, TypeStep, PTL DEF Spec

-----------------------------------------------------------------------------

\* The operations that hand the exchange's error back to the caller.
PropagatingOps == AllOps \ {"get_service", "get_bucket"}

\* The inductive invariant behind ErrorReportsCause: a call in progress is
\* one of Ops, and a returned call's error is the cause it met.
IInv ==
  /\ TypeOK
  /\ pc # "idle" => op \in Ops
  /\ ErrorReportsCause

\* When callers use only operations that pass the exchange's error back
\* (not ds3_get_service or ds3_get_bucket), every returned call reports
\* the error it met: missing arguments, no handle, a failed transfer.
THEOREM ErrorsPropagate ==
  Ops \subseteq PropagatingOps => (Spec => []ErrorReportsCause)
<1> SUFFICES ASSUME Ops \subseteq PropagatingOps PROVE Spec => []ErrorReportsCause
  OBVIOUS
<1>1. Init => IInv
  BY InitType DEF Init, IInv, ErrorReportsCause
<1>2. IInv /\ [Next]_vars => IInv'
  <2> SUFFICES ASSUME IInv, [Next]_vars PROVE IInv'
    OBVIOUS
  <2>0. TypeOK'
    BY TypeStep DEF IInv
  <2>1. CASE Call
    BY <2>1, <2>0 DEF Call, IInv, ErrorReportsCause
  <2>2. CASE BulkArgs
    BY <2>2, <2>0 DEF BulkArgs, IInv, ErrorReportsCause
  <2>3. CASE Dispatch
    BY <2>3, <2>0 DEF Dispatch, IInv, ErrorReportsCause
  <2>4. CASE Net
    BY <2>4, <2>0 DEF Net, IInv, ErrorReportsCause
  <2>5. CASE Upload
    BY <2>5, <2>0 DEF Upload, IInv, ErrorReportsCause
  <2>6. CASE Perform
    BY <2>6, <2>0 DEF Perform, IInv, ErrorReportsCause
  <2>7. CASE After
    <3>1. op \in PropagatingOps
      BY <2>7 DEF After, IInv
    <3>2. cause # "none" => result' = cause
      BY <2>7, <3>1 DEF After, BulkNetResult, PropagatingOps, AllOps
    <3>3. QED BY <2>7, <2>0, <3>2 DEF After, IInv, ErrorReportsCause
  <2>8. CASE Quiet \/ UNCHANGED vars
    BY <2>8, <2>0 DEF Quiet, vars, IInv, ErrorReportsCause
  <2>9. QED BY <2>1, <2>2, <2>3, <2>4, <2>5, <2>6, <2>7, <2>8 DEF Next
<1>3. IInv => ErrorReportsCause
  BY DEF IInv
<1>4. QED BY <1>1, <1>2, <1>3, PTL DEF Spec

-----------------------------------------------------------------------------

\* Every manifest ds3_bulk may serialize fits in one read-callback call.
ManifestsFit == \A m \in Manifests : Len(m) <= BufSize

\* The inductive invariant behind UploadFaithful: a new call starts with
\* nothing sent; during ds3_bulk's exchange the manifest is one of
\* Manifests and the upload has sent nothing or all of it; and it has sent
\* all of it by the time curl_easy_perform's outcome is taken.
UInv ==
  /\ TypeOK
  /\ pc \in {"bulk_args", "dispatch"} => sent = << >>
  /\ pc = "dispatch" => op # "bulk"
  /\ pc = "upload" => op = "bulk"
  /\ op = "bulk" /\ pc \in {"net", "upload", "perform"} =>
       /\ manifest \in Manifests
       /\ sent \in {<< >>, manifest}
       /\ pc = "net" => sent = << >>
  /\ UploadFaithful

\* A manifest that fits the buffer is sent whole by the first read-callback
\* call.
LEMMA UploadAll ==
  ASSUME NEW m \in Seq(STRING), Len(m) <= BufSize, BufSize \in Nat
  PROVE  LET chunk == SendXmlBuff(m, 0, BufSize)
             want == Len(m) - Len(<< >>)
         IN  << >> \o SubSeq(chunk, 1, IF Len(chunk) < want
                                         THEN Len(chunk) ELSE want) = m
<1>1. SendXmlBuff(m, 0, BufSize) = SubSeq(m, 1, Len(m))
  BY DEF SendXmlBuff
<1>2. SubSeq(m, 1, Len(m)) = m
  BY SubSeqFull
<1>3. Len(m) - Len(<< >>) = Len(m)
  OBVIOUS
<1>4. SubSeq(m, 1, IF Len(m) < Len(m) THEN Len(m) ELSE Len(m)) = m
  BY <1>2
<1>5. << >> \o m = m
  BY ConcatEmptySeq
<1>6. QED BY <1>1, <1>2, <1>3, <1>4, <1>5

\* Each step keeps UInv when the manifests fit the buffer.
LEMMA UInvStep ==
  ASSUME ManifestsFit, UInv, [Next]_vars
  PROVE  UInv'
<1>0. TypeOK'
  BY TypeStep DEF UInv
<1>1. CASE Call
  BY <1>0, <1>1 DEF Call, UInv, UploadFaithful
<1>2. CASE BulkArgs
  BY <1>0, <1>2 DEF BulkArgs, UInv, UploadFaithful
<1>3. CASE Dispatch
  BY <1>0, <1>3 DEF Dispatch, UInv, UploadFaithful
<1>4. CASE Net
  BY <1>0, <1>4 DEF Net, UInv, UploadFaithful
<1>5. CASE Upload
  <2>1. op = "bulk" /\ manifest \in Manifests /\ sent \in {<< >>, manifest}
    BY <1>5 DEF Upload, UInv
  <2>2. manifest \in Seq(STRING) /\ Len(manifest) > 0
        /\ Len(manifest) <= BufSize
    BY <2>1, ExecutorAssumption DEF ManifestsFit
  <2>3. UNCHANGED <<op, manifest>>
    BY <1>5 DEF Upload
  <2>4. CASE Len(sent) < Len(manifest)
    <3>1. sent = << >>
      BY <2>1, <2>4
    <3>2. sent' = manifest /\ pc' = "upload"
      <4>1. sent' = << >> \o SubSeq(SendXmlBuff(manifest, 0, BufSize), 1,
                      IF Len(SendXmlBuff(manifest, 0, BufSize))
                           < Len(manifest) - Len(<< >>)
                        THEN Len(SendXmlBuff(manifest, 0, BufSize))
                        ELSE Len(manifest) - Len(<< >>))
        BY <1>5, <2>4, <3>1 DEF Upload
      <4>2. QED BY <4>1, <2>2, <1>5, <2>4, UploadAll, ExecutorAssumption
                DEF Upload
    <3>3. QED BY <1>0, <2>1, <2>3, <3>2 DEF UInv, UploadFaithful
  <2>5. CASE ~(Len(sent) < Len(manifest))
    <3>1. sent = manifest
      <4>1. sent # << >>
        BY <2>2, <2>5
      <4>2. QED BY <2>1, <4>1
    <3>2. pc' = "perform" /\ UNCHANGED sent
      BY <1>5, <2>5 DEF Upload
    <3>3. QED BY <1>0, <2>1, <2>3, <3>1, <3>2 DEF UInv, UploadFaithful
  <2>6. QED BY <2>4, <2>5
<1>6. CASE Perform
  BY <1>0, <1>6 DEF Perform, UInv, UploadFaithful
<1>7. CASE After
  BY <1>0, <1>7 DEF After, UInv, UploadFaithful
<1>8. CASE Quiet \/ UNCHANGED vars
  BY <1>0, <1>8 DEF Quiet, vars, UInv, UploadFaithful
<1>9. QED BY <1>1, <1>2, <1>3, <1>4, <1>5, <1>6, <1>7, <1>8 DEF Next

\* When every manifest fits libcurl's upload buffer, ds3_bulk uploads
\* exactly the serialized manifest, for every buffer size and number of
\* calls.  The executor_large_manifest run shows the hypothesis is needed:
\* a longer manifest is sent as repeated copies of its first bytes.
THEOREM UploadFaithfulWhenFits == ManifestsFit => (Spec => []UploadFaithful)
<1> SUFFICES ASSUME ManifestsFit PROVE Spec => []UploadFaithful
  OBVIOUS
<1>1. Init => UInv
  BY InitType DEF Init, UInv, UploadFaithful
<1>2. UInv /\ [Next]_vars => UInv'
  BY UInvStep
<1>3. UInv => UploadFaithful
  BY DEF UInv
<1>4. QED BY <1>1, <1>2, <1>3, PTL DEF Spec

=============================================================================
