--------------------------- MODULE JsonCanonical ---------------------------
(***************************************************************************)
(* The bytes that are hashed or verified for a scanned JSON object: the    *)
(* chain's canonical form (internal/canonical/canonical.go) of an entry    *)
(* without its hash and signature, and RFC 8785 (internal/jcs/jcs.go,      *)
(* number.go) of an envelope without its signature.  Written bytes are     *)
(* kept as the tree they spell; the escapes inside a string, the same in   *)
(* both writers, are left out.                                             *)
(***************************************************************************)
EXTENDS JsonScan

CONSTANTS
    EntryHashKey, SignatureKey, EngineVersionKey,   \* member names
    NoExponent      \* a number written without one

(* [-]int[.frac][e exp], the digits as sequences. *)
ASSUME LiteralsAreNumbers ==
    /\ NoExponent \notin Int
    /\ \A n \in Literal :
         /\ n.neg \in BOOLEAN
         /\ n.int \in Seq(0..9) \ {<<>>} /\ (n.int[1] = 0 => Len(n.int) = 1)
         /\ n.frac \in Seq(0..9)
         /\ n.exp \in Int \cup {NoExponent}

VARIABLE written    \* what the three forms come out as

vars == <<scanVars, written>>

Form == {"entry", "legacy", "envelope"}

Unwritten == [is |-> "unwritten"]   \* not reached yet
Refused   == [is |-> "refused"]     \* an error instead of bytes

Init ==
    /\ ScanInit
    /\ written = [f \in Form |-> Unwritten]

-----------------------------------------------------------------------------
(* Member order. *)

(* UTF-8 and UTF-16 of a code point. *)
Utf8(c) ==
    CASE c < 128              -> <<c>>
      [] 127 < c /\ c < 2048   -> <<192 + (c \div 64), 128 + (c % 64)>>
      [] 2047 < c /\ c < 65536 ->
           <<224 + (c \div 4096), 128 + ((c \div 64) % 64), 128 + (c % 64)>>
      [] OTHER ->
           <<240 + (c \div 262144), 128 + ((c \div 4096) % 64),
             128 + ((c \div 64) % 64), 128 + (c % 64)>>

Utf16(c) ==
    IF c < 65536 THEN <<c>>
    ELSE <<55296 + ((c - 65536) \div 1024), 56320 + ((c - 65536) % 1024)>>

(* A name as bytes, and as UTF-16 code units. *)
Bytes(name) == FlattenSeq([i \in DOMAIN name |-> Utf8(name[i])])
Units(name) == FlattenSeq([i \in DOMAIN name |-> Utf16(name[i])])

FirstDifference(a, b) ==
    {i \in DOMAIN a \cap DOMAIN b :
        a[i] # b[i] /\ \A j \in 1..(i - 1) : a[j] = b[j]}

UnitsLess(a, b) ==
    \/ \E i \in FirstDifference(a, b) : a[i] < b[i]
    \/ FirstDifference(a, b) = {} /\ Len(a) < Len(b)

(* Go's < on strings. *)
LessBytes(a, b) == UnitsLess(Bytes(a), Bytes(b))

(* Mutation: the common part decides, whichever is longer. *)
LessCommonUTF16(a, b) ==
    LET ua == Units(a)
        ub == Units(b)
    IN \E i \in FirstDifference(ua, ub) : ua[i] < ub[i]

(* Mutation: the order of the chain's canonical form. *)
LessAsBytes(a, b) == LessBytes(a, b)

LessUTF16(a, b) == UnitsLess(Units(a), Units(b))

(* The order of a writer: the chain's, or that of RFC 8785. *)
Less(order, a, b) == IF order = "utf8" THEN LessBytes(a, b) ELSE LessUTF16(a, b)

(* What sorting the keys of a Go map may return: the map is walked in any   *)
(* order, and only inversions are removed.                                  *)
Sorted(names, order) ==
    {s \in SetToSeqs(names) :
        \A i, j \in DOMAIN s : i < j => ~Less(order, s[j], s[i])}

-----------------------------------------------------------------------------
(* Numbers. *)

IsIntegerLiteral(n) == n.frac = <<>> /\ n.exp = NoExponent

Zeros(k) == [i \in 1..k |-> 0]

(* Digits without zeros at either end, 0.d1d2... times 10^point. *)
Decimal(n) ==
    LET all     == n.int \o n.frac
        nonzero == {i \in DOMAIN all : all[i] # 0}
        first   == CHOOSE i \in nonzero : \A j \in nonzero : i <= j
        last    == CHOOSE i \in nonzero : \A j \in nonzero : i >= j
        exp     == IF n.exp = NoExponent THEN 0 ELSE n.exp
    IN IF nonzero = {}
         THEN [neg |-> n.neg, digits |-> <<>>, point |-> 0]
         ELSE [neg    |-> n.neg,
               digits |-> SubSeq(all, first, last),
               point  |-> Len(n.int) + exp - first + 1]

(* Within these bounds a float64 is the decimal it was read from, and the   *)
(* shortest digits that FormatFloat finds for it are the literal's.         *)
ASSUME LiteralsFitFloats ==
    \A n \in Literal :
        LET x == Decimal(n) IN
        /\ Len(x.digits) <= 15
        /\ x.point < -323 \/ x.point \in -306..308 \/ x.point > 309

(* ParseFloat fails beyond 1e308 and makes a zero below 1e-324.             *)
Overflows(n)  == Decimal(n).point > 309
Underflows(n) == Decimal(n).point < -323

ParseFloat(n) ==
    IF Underflows(n) THEN [Decimal(n) EXCEPT !.digits = <<>>, !.point = 0] ELSE Decimal(n)

(* Mutation: one more zero is written out after the point. *)
PlainUpTo(n) == -7 < n /\ n <= 21

(* The magnitudes that are written without an exponent. *)
PlainMagnitude(n) == -6 < n /\ n <= 21

(* esNumber of a float that is finite. *)
EsNumber(f) ==
    LET n == f.point
        k == Len(f.digits)
        Text(int, frac, exp) == [neg |-> f.neg, int |-> int, frac |-> frac, exp |-> exp]
    IN IF k = 0
         THEN [neg |-> FALSE, int |-> <<0>>, frac |-> <<>>, exp |-> NoExponent]
       ELSE IF PlainMagnitude(n)
         THEN CASE k <= n         -> Text(f.digits \o Zeros(n - k), <<>>, NoExponent)
                [] n <= 0         -> Text(<<0>>, Zeros(-n) \o f.digits, NoExponent)
                [] OTHER          ->
                     Text(SubSeq(f.digits, 1, n), SubSeq(f.digits, n + 1, k), NoExponent)
       ELSE Text(SubSeq(f.digits, 1, 1), SubSeq(f.digits, 2, k), n - 1)

-----------------------------------------------------------------------------
(* The decoded value, by the tokens that open its parts. *)

KeysOf(i) == {j \in DOMAIN text : text[j].is = "key" /\ text[j].in = i}

(* The map of the object at i; a later member replaces an earlier one. *)
MapOf(i) ==
    [name \in {Unquote[text[j].what] : j \in KeysOf(i)} |->
        1 + CHOOSE j \in KeysOf(i) :
              /\ Unquote[text[j].what] = name
              /\ \A h \in KeysOf(i) : Unquote[text[h].what] = name => h <= j]

(* The elements of the array at i, in the order they are appended.          *)
ItemsOf(i) ==
    LET upto[n \in 0..Len(text)] ==
          IF n = 0 THEN <<>>
          ELSE IF text[n].in = i /\ text[n].is # "close"
            THEN Append(upto[n - 1], n)
            ELSE upto[n - 1]
    IN upto[Len(text)]

(* json.Unmarshal in ParseEntry or ParseEnvelope took the text: one object. *)
OneObject ==
    /\ scan = "ended" /\ open = <<>>
    /\ {i \in DOMAIN text : text[i].in = 0 /\ text[i].is # "close"} = {1}
    /\ text[1].is = "object"

-----------------------------------------------------------------------------
(* The writers.  Each value has the set of texts it may come out as, empty  *)
(* when writing it or a part of it fails.                                   *)

Picks(sets) ==
    {c \in [DOMAIN sets -> UNION {sets[x] : x \in DOMAIN sets}] :
        \A x \in DOMAIN sets : c[x] \in sets[x]}

ArrayTexts(sets) == {[is |-> "array", items |-> c] : c \in Picks(sets)}

ObjectTexts(sets, order) ==
    {[is      |-> "object",
      members |-> [d \in DOMAIN s |-> [name |-> s[d], value |-> c[s[d]]]]] :
        s \in Sorted(DOMAIN sets, order), c \in Picks(sets)}

Null        == {[is |-> "null"]}
String(s)   == {[is |-> "string", name |-> Unquote[s]]}
Number(n)   == {[is |-> "number", literal |-> n]}

ChainNumber(n) == IF IsIntegerLiteral(n) THEN Number(n) ELSE {}

JcsNumber(n) ==
    IF Overflows(n) THEN {} ELSE Number(EsNumber(ParseFloat(n)))

(* canonical.encode *)
Encode[i \in DOMAIN text] ==
    CASE text[i].is = "null"   -> Null
      [] text[i].is = "string" -> String(text[i].what)
      [] text[i].is = "number" -> ChainNumber(text[i].what)
      [] text[i].is = "array"  ->
           ArrayTexts([d \in DOMAIN ItemsOf(i) |-> Encode[ItemsOf(i)[d]]])
      [] text[i].is = "object" ->
           ObjectTexts([n \in DOMAIN MapOf(i) |-> Encode[MapOf(i)[n]]], "utf8")
      [] OTHER -> {}

(* jcs.encodeValue *)
EncodeValue[i \in DOMAIN text] ==
    CASE text[i].is = "null"   -> Null
      [] text[i].is = "string" -> String(text[i].what)
      [] text[i].is = "number" -> JcsNumber(text[i].what)
      [] text[i].is = "array"  ->
           ArrayTexts([d \in DOMAIN ItemsOf(i) |-> EncodeValue[ItemsOf(i)[d]]])
      [] text[i].is = "object" ->
           ObjectTexts([n \in DOMAIN MapOf(i) |-> EncodeValue[MapOf(i)[n]]], "utf16")
      [] OTHER -> {}

Kept(dropped) == DOMAIN MapOf(1) \ dropped

(* canonicalizeForHash *)
CanonicalizeForHash(keepEngineVersion) ==
    ObjectTexts(
        [n \in Kept({EntryHashKey, SignatureKey} \cup
                    (IF keepEngineVersion THEN {} ELSE {EngineVersionKey}))
            |-> Encode[MapOf(1)[n]]],
        "utf8")

(* Mutation: the members an entry is hashed without. *)
SignedBytesOfEntry ==
    ObjectTexts(
        [n \in Kept({EntryHashKey, SignatureKey}) |-> EncodeValue[MapOf(1)[n]]],
        "utf16")

(* The message of the outer signature, in verifyOuterSignature. *)
SignedBytes ==
    ObjectTexts([n \in Kept({SignatureKey}) |-> EncodeValue[MapOf(1)[n]]], "utf16")

FormTexts(f) ==
    CASE f = "entry"    -> CanonicalizeForHash(TRUE)
      [] f = "legacy"   -> CanonicalizeForHash(FALSE)
      [] f = "envelope" -> SignedBytes

Write ==
    /\ OneObject
    /\ written.entry = Unwritten
    /\ \E w \in [Form -> (UNION {FormTexts(f) : f \in Form}) \cup {Refused}] :
         /\ \A f \in Form :
              w[f] \in IF FormTexts(f) = {} THEN {Refused} ELSE FormTexts(f)
         /\ written' = w
    /\ UNCHANGED scanVars

RefuseDuplicate ==
    /\ scan = "duplicate"
    /\ written.entry = Unwritten
    /\ written' = [f \in Form |-> Refused]
    /\ UNCHANGED scanVars

Next ==
    \/ CheckNoDuplicateKeys /\ UNCHANGED written
    \/ Write
    \/ RefuseDuplicate

Spec == Init /\ [][Next]_vars
=============================================================================
