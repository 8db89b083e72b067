------------------------------ MODULE XmlCodec ------------------------------
(***************************************************************************)
(* The XML codec of src/src/ds3.c: the decoders of ds3_get_service        *)
(* (_parse_buckets, _parse_owner), of ds3_get_bucket (_parse_object), of  *)
(* the bulk job manifest (_parse_bulk_objects, _parse_bulk_object), and    *)
(* the manifest encoder of ds3_bulk with its "%ld" / strtoul round trip.   *)
(*                                                                         *)
(* A document is the tree xmlParseMemory builds: an element has a name,   *)
(* attributes in document order and children in document order; a leaf   *)
(* element's text is what xmlNodeListGetString returns (NoText for NULL,   *)
(* an empty element).  Blank is the whitespace text node libxml2 keeps     *)
(* between the elements of an indented document (keepBlanks is on by      *)
(* default).  Numerals are sequences of characters and sizes are unsigned *)
(* integers of W bits.                                                     *)
(***************************************************************************)
EXTENDS Naturals, Sequences, SequencesExt

CONSTANTS
  NoText,      \* xmlNodeListGetString returned NULL
  Texts,       \* leaf texts of string fields
  Numerals,    \* leaf texts of numeric fields, as character sequences
  TruncTexts,  \* texts of IsTruncated, as character sequences
  ObjNames,    \* bulk object names
  AllowBlank,  \* whether documents are indented
  AllowEmpty,  \* whether leaf elements may be empty
  W,           \* bits of uint64_t / unsigned long, scaled down
  MaxKids      \* bound: children of an element

ASSUME CodecAssumption ==
  /\ NoText \notin Texts /\ AllowBlank \in BOOLEAN /\ AllowEmpty \in BOOLEAN
  /\ W \in Nat \ {0} /\ MaxKids \in Nat

Modulus == 2^W
ULongMax == Modulus - 1

-----------------------------------------------------------------------------
(* The document tree.                                                     *)

Leaf(n, t) == [name |-> n, text |-> t, attrs |-> <<>>, kids |-> <<>>]
El(n, as, ks) == [name |-> n, text |-> NoText, attrs |-> as, kids |-> ks]
Attr(n, v) == [name |-> n, value |-> v]
Blank == [name |-> "text", text |-> NoText, attrs |-> <<>>, kids |-> <<>>]

Blanks == IF AllowBlank THEN {Blank} ELSE {}
Opt(S) == IF AllowEmpty THEN S \cup {NoText} ELSE S

\* The children sequences of an element drawn from S, up to MaxKids long.
Kids(S) == SeqOf(S \cup Blanks, MaxKids)

\* The number of children of e named n.
CountNamed(e, n) == Len(SelectSeq(e.kids, LAMBDA k : k.name = n))

-----------------------------------------------------------------------------
(* Numerals.                                                              *)

Digits == <<"0", "1", "2", "3", "4", "5", "6", "7", "8", "9">>
DigitValue(c) == CHOOSE d \in 0..9 : Digits[d + 1] = c
IsDigit(c) == \E d \in 0..9 : Digits[d + 1] = c

\* The longest prefix of s made of digits.
RECURSIVE DigitPrefix(_)
DigitPrefix(s) ==
  IF s # <<>> /\ IsDigit(Head(s)) THEN <<Head(s)>> \o DigitPrefix(Tail(s))
  ELSE <<>>

-----------------------------------------------------------------------------
(* Plausible faults, each of which a property must catch: the minus sign  *)
(* not handled, the element name tests of the decoders' loops dropped.    *)

StrtoulNoSign(s) ==
  LET mag == FoldLeft(LAMBDA acc, c : acc * 10 + DigitValue(c), 0, DigitPrefix(s))
  IN IF mag > ULongMax THEN ULongMax ELSE mag
IsBulkObjectAny(k) == TRUE
IsContentsAny(k) == k.name # "text"

\* strtoul(text, NULL, 10) (glibc): an optional sign, then digits; no
\* digit gives 0; a magnitude past ULONG_MAX gives ULONG_MAX; a minus
\* sign negates modulo 2^W.
Strtoul(s) ==
  LET neg == s # <<>> /\ Head(s) = "-"
      rest == IF s # <<>> /\ Head(s) \in {"-", "+"} THEN Tail(s) ELSE s
      mag == FoldLeft(LAMBDA acc, c : acc * 10 + DigitValue(c), 0, DigitPrefix(rest))
  IN IF mag > ULongMax THEN ULongMax
     ELSE IF neg THEN (Modulus - mag) % Modulus
     ELSE mag

RECURSIVE Decimal(_)
Decimal(n) == IF n < 10 THEN <<Digits[n + 1]>>
              ELSE Decimal(n \div 10) \o <<Digits[(n % 10) + 1]>>

\* g_snprintf(size_buff, 21, "%ld", obj.size) (ds3.c:1022): the uint64_t
\* is printed as a signed long, so a size of 2^(W-1) or more comes out
\* negative.
FormatLd(v) ==
  IF v >= Modulus \div 2 THEN <<"-">> \o Decimal(Modulus - v) ELSE Decimal(v)

-----------------------------------------------------------------------------
(* Decoders, translated loop by loop.  A decoder's result is a record     *)
(* whose status is "none", "INVALID_XML" or "fault" (the code              *)
(* dereferences NULL: strlen(NULL) or strtoul(NULL)).                      *)

\* A child named in ns has no text, and the code calls strlen or strtoul
\* on the NULL without a check.
Faults(e, ns) == \E i \in DOMAIN e.kids : e.kids[i].name \in ns /\ e.kids[i].text = NoText

\* _parse_owner (ds3.c:599-623)
ParseOwner(o) ==
  FoldLeft(LAMBDA acc, k :
             CASE k.name = "DisplayName" -> [acc EXCEPT !.name = k.text]
               [] k.name = "ID" -> [acc EXCEPT !.id = k.text]
               [] OTHER -> acc,
           [name |-> NoText, id |-> NoText], o.kids)
OwnerFaults(o) == Faults(o, {"DisplayName", "ID"})

\* One iteration of the outer loop of _parse_buckets (ds3.c:570-591): EVERY
\* child of <Buckets> becomes a bucket, its name never checked.
ParseBucket(b) ==
  FoldLeft(LAMBDA acc, k :
             CASE k.name = "CreationDate" -> [acc EXCEPT !.creation_date = k.text]
               [] k.name = "Name" -> [acc EXCEPT !.name = k.text]
               [] OTHER -> acc,
           [name |-> NoText, creation_date |-> NoText], b.kids)

\* _parse_buckets (ds3.c:564-597)
ParseBuckets(bs) == [i \in DOMAIN bs.kids |-> ParseBucket(bs.kids[i])]
BucketsFault(bs) == \E i \in DOMAIN bs.kids : Faults(bs.kids[i], {"CreationDate", "Name"})

\* ds3_get_service after the exchange (ds3.c:634-676)
GetService(root) ==
  IF root.name # "ListAllMyBucketsResult" THEN [status |-> "INVALID_XML"]
  ELSE IF \E i \in DOMAIN root.kids :
            \/ root.kids[i].name = "Buckets" /\ BucketsFault(root.kids[i])
            \/ root.kids[i].name = "Owner" /\ OwnerFaults(root.kids[i])
  THEN [status |-> "fault"]
  ELSE FoldLeft(LAMBDA acc, k :
                  CASE k.name = "Buckets" -> [acc EXCEPT !.buckets = ParseBuckets(k)]
                    [] k.name = "Owner" -> [acc EXCEPT !.owner = ParseOwner(k)]
                    [] OTHER -> acc,
                [status |-> "none", buckets |-> <<>>, owner |-> NoText], root.kids)

\* _parse_object (ds3.c:678-735): Key and Size are read without a NULL
\* check; ETag, LastModified and StorageClass skip a NULL text.
ParseObject(c) ==
  FoldLeft(LAMBDA acc, k :
             CASE k.name = "Key" -> [acc EXCEPT !.name = k.text]
               [] k.name \in {"ETag", "LastModified", "StorageClass"} ->
                    IF k.text = NoText THEN acc ELSE [acc EXCEPT !.etc[k.name] = k.text]
               [] k.name = "Size" -> [acc EXCEPT !.size = Strtoul(k.text)]
               [] k.name = "Owner" -> [acc EXCEPT !.owner = ParseOwner(k)]
               [] OTHER -> acc,
           [name |-> NoText, size |-> 0, owner |-> NoText,
            etc |-> [f \in {"ETag", "LastModified", "StorageClass"} |-> NoText]],
           c.kids)
ObjectFaults(c) ==
  \/ Faults(c, {"Key", "Size"})
  \/ \E i \in DOMAIN c.kids : c.kids[i].name = "Owner" /\ OwnerFaults(c.kids[i])

\* The test of ds3_get_bucket's loop (ds3.c:770) for a listed object.
IsContents(k) == k.name = "Contents"

\* strncmp((char*) text, "true", 4) == 0 (ds3.c:788)
IsTrue(t) == Len(t) >= 4 /\ SubSeq(t, 1, 4) = <<"t", "r", "u", "e">>

StringFields == {"CreationDate", "Marker", "Name", "Delimiter", "NextMarker", "Prefix"}

\* ds3_get_bucket after the exchange (ds3.c:747-863); a NULL text of a
\* bucket-level field is skipped ("continue").
GetBucket(root) ==
  IF root.name # "ListBucketResult" THEN [status |-> "INVALID_XML"]
  ELSE IF \E i \in DOMAIN root.kids : IsContents(root.kids[i]) /\ ObjectFaults(root.kids[i])
  THEN [status |-> "fault"]
  ELSE FoldLeft(LAMBDA acc, k :
                  IF IsContents(k) THEN [acc EXCEPT !.objects = Append(@, ParseObject(k))]
                  ELSE IF k.text = NoText THEN acc
                  ELSE IF k.name = "IsTruncated" THEN [acc EXCEPT !.is_truncated = IsTrue(k.text)]
                  ELSE IF k.name = "MaxKeys" THEN [acc EXCEPT !.max_keys = Strtoul(k.text)]
                  ELSE IF k.name \in StringFields THEN [acc EXCEPT !.fields[k.name] = k.text]
                  ELSE acc,
                [status |-> "none", objects |-> <<>>, is_truncated |-> FALSE,
                 max_keys |-> 0, fields |-> [f \in StringFields |-> NoText]],
                root.kids)

\* _parse_bulk_object (ds3.c:885-923): Name and Size attributes, a NULL
\* value skipped.
ParseBulkObject(o) ==
  FoldLeft(LAMBDA acc, a :
             IF a.value = NoText THEN acc
             ELSE IF a.name = "Name" THEN [acc EXCEPT !.name = a.value]
             ELSE IF a.name = "Size" THEN [acc EXCEPT !.size = Strtoul(a.value)]
             ELSE acc,
           [name |-> NoText, size |-> 0], o.attrs)

\* The test of _parse_bulk_objects' child loop (ds3.c:960)
IsBulkObject(k) == k.name = "Object"

\* _parse_bulk_objects (ds3.c:925-973)
ParseBulkObjects(os) ==
  LET hdr == FoldLeft(LAMBDA acc, a :
                        IF a.value = NoText THEN acc
                        ELSE IF a.name = "ServerId" THEN [acc EXCEPT !.server_id = a.value]
                        ELSE IF a.name = "ChunkNumber"
                          THEN [acc EXCEPT !.chunk_number = Strtoul(a.value)]
                        ELSE acc,
                      [server_id |-> NoText, chunk_number |-> 0], os.attrs)
      objs == SelectSeq(os.kids, IsBulkObject)
  IN [server_id |-> hdr.server_id, chunk_number |-> hdr.chunk_number,
      list |-> [i \in DOMAIN objs |-> ParseBulkObject(objs[i])]]

\* ds3_bulk after a successful exchange (ds3.c:1052-1109)
DecodeBulk(root) ==
  IF root.name # "MasterObjectList" THEN [status |-> "INVALID_XML"]
  ELSE LET jobs == SelectSeq(root.attrs, LAMBDA a : a.name = "JobId" /\ a.value # NoText)
           chunks == SelectSeq(root.kids, LAMBDA k : k.name = "Objects")
       IN [status |-> "none",
           job_id |-> IF jobs = <<>> THEN NoText ELSE Last(jobs).value,
           list |-> [i \in DOMAIN chunks |-> ParseBulkObjects(chunks[i])]]

\* ds3_bulk's manifest (ds3.c:1012-1032): one <Objects> holding an
\* <Object Name=.. Size=..> per object in list order; dumped with
\* format = 1, so parsing it back yields a blank between elements.
Indent(ks) == FoldLeft(LAMBDA acc, k : acc \o <<k, Blank>>, <<Blank>>, ks)
EncodeBulk(objs) ==
  El("MasterObjectList", <<>>,
     Indent(<<El("Objects", <<>>,
                 Indent([i \in DOMAIN objs |->
                           El("Object", <<Attr("Name", objs[i].name),
                                          Attr("Size", FormatLd(objs[i].size))>>,
                              <<>>)]))>>))

-----------------------------------------------------------------------------
(* The documents a server may answer with, and the object lists a caller  *)
(* may hand ds3_bulk, within the bounds.                                   *)

CONSTANT Kinds  \* which decoders a run exercises

BucketEls ==
  {El("Bucket", <<>>, ks) :
     ks \in Kids({Leaf(n, t) : n \in {"Name", "CreationDate"}, t \in Opt(Texts)})}
BucketsEls == {El("Buckets", <<>>, ks) : ks \in Kids(BucketEls)}
OwnerEls ==
  {El("Owner", <<>>, ks) :
     ks \in SeqOf({Leaf(n, t) : n \in {"DisplayName", "ID"}, t \in Opt(Texts)}, 1)}
ServiceDocs ==
  {El(r, <<>>, ks) : r \in {"ListAllMyBucketsResult", "Error"},
                     ks \in {<<>>} \cup {<<b>> : b \in BucketsEls}
                            \cup {<<o, b>> : o \in OwnerEls, b \in BucketsEls}}

ContentsEls ==
  {El("Contents", <<>>, ks) :
     ks \in Kids({Leaf("Key", t) : t \in Opt(Texts)} \cup {Leaf("ETag", t) : t \in Opt(Texts)}
                 \cup {Leaf("Size", n) : n \in Opt(Numerals)})}
BucketDocs ==
  {El(r, <<>>, ks) : r \in {"ListBucketResult", "Error"},
                     ks \in Kids(ContentsEls \cup {Leaf("IsTruncated", t) : t \in Opt(TruncTexts)}
                                 \cup {Leaf("MaxKeys", n) : n \in Numerals})}

ObjectEls == {El("Object", <<Attr("Name", o), Attr("Size", n)>>, <<>>) :
                o \in ObjNames, n \in Numerals}
ObjectsEls == {El("Objects", as, ks) :
                 as \in {<<>>} \cup {<<Attr("ChunkNumber", n)>> : n \in Numerals},
                 ks \in Kids(ObjectEls)}
BulkDocs == {El("MasterObjectList", as, ks) :
               as \in {<<>>, <<Attr("JobId", "j1")>>}, ks \in Kids(ObjectsEls)}

ObjectLists == SeqOf([name : ObjNames, size : 0..ULongMax], MaxKids)

Inputs ==
  UNION {{[kind |-> k, doc |-> d] : d \in CASE k = "service" -> ServiceDocs
                                           [] k = "bucket" -> BucketDocs
                                           [] k = "bulk" -> BulkDocs
                                           [] OTHER -> ObjectLists} : k \in Kinds}

VARIABLES input, output
vars == <<input, output>>

Init == input \in Inputs /\ output = NoText

\* The decoder, or the encoder followed by the decoder, runs on the input.
Decode ==
  /\ output = NoText
  /\ output' = CASE input.kind = "service" -> GetService(input.doc)
                [] input.kind = "bucket" -> GetBucket(input.doc)
                [] input.kind = "bulk" -> DecodeBulk(input.doc)
                [] OTHER -> DecodeBulk(EncodeBulk(input.doc))
  /\ UNCHANGED input

Done == output # NoText /\ UNCHANGED vars

Next == Decode \/ Done

Spec == Init /\ [][Next]_vars

-----------------------------------------------------------------------------
(* Properties.                                                            *)

Decoded == output # NoText /\ output.status = "none"

\* Decoding never dereferences NULL: an empty element yields an absent
\* field and the rest of the document is still decoded (spec 4.5).
DecodeNoFault == output # NoText => output.status # "fault"

\* The buckets ds3_get_service reports are exactly the <Bucket> elements
\* of <Buckets>, in order, with their Name and CreationDate.
ServiceListingFaithful ==
  Decoded /\ input.kind = "service" =>
    LET bs == SelectSeq(input.doc.kids, LAMBDA k : k.name = "Buckets")
        ref == IF bs = <<>> THEN <<>>
               ELSE LET els == SelectSeq(Last(bs).kids, LAMBDA k : k.name = "Bucket")
                    IN [i \in DOMAIN els |-> ParseBucket(els[i])]
    IN output.buckets = ref

\* ds3_get_bucket reports one object per <Contents> element, whatever
\* other elements and whitespace surround them.
ObjectCountFaithful ==
  Decoded /\ input.kind = "bucket" =>
    Len(output.objects) = CountNamed(input.doc, "Contents")

\* The manifest's total object count across all chunks equals the number
\* of <Object> elements the server listed (spec 3), whitespace aside.
ChunkTotal ==
  Decoded /\ input.kind = "bulk" =>
    FoldLeft(LAMBDA acc, c : acc + Len(c.list), 0, output.list)
      = FoldLeft(LAMBDA acc, k : acc + CountNamed(k, "Object"), 0,
                 SelectSeq(input.doc.kids, LAMBDA k : k.name = "Objects"))

\* Encoding an object list with "%ld" and decoding the manifest with
\* strtoul gives back every name and size in order (spec 8), for every
\* uint64_t size, those printed negative included.
ManifestRoundTrip ==
  Decoded /\ input.kind = "roundtrip" =>
    output = [status |-> "none", job_id |-> NoText,
              list |-> <<[server_id |-> NoText, chunk_number |-> 0,
                          list |-> input.doc]>>]

=============================================================================
