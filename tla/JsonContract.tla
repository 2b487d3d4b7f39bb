---------------------------- MODULE JsonContract ----------------------------
(***************************************************************************)
(* What the hashed and the signed bytes of an object promise about it,     *)
(* stated on the written text and the text it was read from.               *)
(***************************************************************************)
EXTENDS JsonScanContract, JsonCanonical

(* The value of a number in a form: a float, both zeros one, or itself. *)
Value(n, f) ==
    IF f = "envelope"
      THEN LET x == ParseFloat(n) IN [x EXCEPT !.neg = @ /\ x.digits # <<>>]
      ELSE n

(* The meaning of what was read: the members of an object are a set, so     *)
(* that two of one name and different values are two.                       *)
Meaning(dropped, f) ==
    LET Inner[i \in DOMAIN text] ==
          CASE text[i].is = "null"   -> <<"null">>
            [] text[i].is = "string" -> <<"string", Unquote[text[i].what]>>
            [] text[i].is = "number" -> <<"number", Value(text[i].what, f)>>
            [] text[i].is = "array"  ->
                 <<"array", [d \in DOMAIN ItemsOf(i) |-> Inner[ItemsOf(i)[d]]]>>
            [] OTHER ->
                 <<"object", {<<Unquote[text[j].what], Inner[j + 1]>> : j \in KeysOf(i)}>>
        Members == {j \in KeysOf(1) : Unquote[text[j].what] \notin dropped}
    IN <<"object", {<<Unquote[text[j].what], Inner[j + 1]>> : j \in Members}>>

(* The values written inside v. *)
Components(v) ==
    CASE v.is = "object" -> {m.value : m \in Range(v.members)}
      [] v.is = "array"  -> Range(v.items)
      [] OTHER           -> {}

(* t and the values in it, at every depth: one opening token for each.      *)
Parts(t) ==
    LET AtDepth[n \in 0..Len(text)] ==
          IF n = 0 THEN {t} ELSE UNION {Components(v) : v \in AtDepth[n - 1]}
    IN UNION {AtDepth[n] : n \in DOMAIN text \cup {0}}

(* The meaning of what was written. *)
ReadBack(t, f) ==
    LET Read[v \in Parts(t)] ==
          CASE v.is = "null"   -> <<"null">>
            [] v.is = "string" -> <<"string", v.name>>
            [] v.is = "number" -> <<"number", Value(v.literal, f)>>
            [] v.is = "array"  -> <<"array", [d \in DOMAIN v.items |-> Read[v.items[d]]]>>
            [] OTHER ->
                 <<"object", {<<m.name, Read[m.value]>> : m \in Range(v.members)}>>
    IN Read[t]

Written(f) == written[f] \notin {Unwritten, Refused}

(* What the bytes leave out of each form (docs/canonical-form-v5.md). *)
LeftOut(f) ==
    CASE f = "entry"    -> {EntryHashKey, SignatureKey}
      [] f = "legacy"   -> {EntryHashKey, SignatureKey, EngineVersionKey}
      [] f = "envelope" -> {SignatureKey}

(***************************************************************************)
(* Reading the hashed bytes back gives the object again, every member of   *)
(* it and in them every value, but for the fields that cannot be hashed:   *)
(* nothing in a signed export can change without changing these bytes, and *)
(* canonicalize(parse(canonicalize(x))) = canonicalize(x)                  *)
(* (docs/canonical-form-v5.md).                                            *)
(***************************************************************************)
NothingIsLost ==
    \A f \in Form :
        Written(f) => ReadBack(written[f], f) = Meaning(LeftOut(f), f)

(***************************************************************************)
(* One object has one canonical text: whatever order Go walks its maps in, *)
(* the sort leaves a single order of the keys.                             *)
(***************************************************************************)
OneCanonicalText ==
    OneObject /\ written.entry # Unwritten =>
        \A f \in Form : Cardinality(FormTexts(f)) <= 1

-----------------------------------------------------------------------------

ObjectsIn(t) == {v.members : v \in {w \in Parts(t) : w.is = "object"}}

(* The place of a code point: UTF-16 puts the supplementary planes before   *)
(* U+E000.                                                                  *)
Rank(order, c) ==
    IF order = "utf16" /\ 57343 < c /\ c < 65536 THEN c + 1114112 ELSE c

(* Name a comes before name b. *)
Before(order, a, b) ==
    \/ IsStrictPrefix(a, b)
    \/ \E i \in DOMAIN a \cap DOMAIN b :
         /\ SubSeq(a, 1, i - 1) = SubSeq(b, 1, i - 1)
         /\ Rank(order, a[i]) < Rank(order, b[i])

InOrder(t, order) ==
    \A m \in ObjectsIn(t) : \A d, e \in DOMAIN m :
        d < e => Before(order, m[d].name, m[e].name)

(***************************************************************************)
(* A producer in another language gets the same bytes: at every depth an   *)
(* entry's members are in the order of their code points                   *)
(* (docs/canonical-form-v5.md, rule 1), those of an envelope in the order  *)
(* of JavaScript's sort, and the two differ.                               *)
(***************************************************************************)
MembersAreInOrder ==
    /\ \A f \in {"entry", "legacy"} : Written(f) => InOrder(written[f], "utf8")
    /\ Written("envelope") => InOrder(written.envelope, "utf16")

-----------------------------------------------------------------------------

NumbersIn(t) == {v.literal : v \in {w \in Parts(t) : w.is = "number"}}

LeadingZeros(s) == Cardinality({i \in DOMAIN s : \A j \in 1..i : s[j] = 0})

(* JSON.stringify: no digit too many, and an exponent for the magnitudes    *)
(* from 1e21 on and below 1e-6 only.                                        *)
LikeJavaScript(n) ==
    /\ n.int # <<0>> => n.int[1] # 0
    /\ n.frac # <<>> => n.frac[Len(n.frac)] # 0
    /\ IF n.exp = NoExponent
         THEN Len(n.int) <= 21 /\ (n.int = <<0>> => LeadingZeros(n.frac) < 6)
         ELSE Len(n.int) = 1 /\ n.int # <<0>> /\ (n.exp >= 21 \/ n.exp < -6)
    /\ n.neg => n.int # <<0>> \/ n.frac # <<>>

(* Token i lies in a member of the object that form f leaves out. *)
InLeftOut(i, f) ==
    \E j \in KeysOf(1) :
        /\ Unquote[text[j].what] \in LeftOut(f)
        /\ j < i /\ \A h \in KeysOf(1) : h <= j \/ i < h

(* A number that is in the text of a form and that the form cannot write. *)
Unwritable(i, f) ==
    /\ text[i].is = "number"
    /\ ~InLeftOut(i, f)
    /\ IF f = "envelope"
         THEN Decimal(text[i].what).point > 309
         ELSE text[i].what.frac # <<>> \/ text[i].what.exp # NoExponent

(***************************************************************************)
(* The numbers of an envelope are written as its producer writes them; an  *)
(* object without duplicates is refused for a number that its form cannot  *)
(* write, a float in an entry or one beyond float64, and for nothing else. *)
(***************************************************************************)
NumbersAreCanonical ==
    /\ Written("envelope") => \A n \in NumbersIn(written.envelope) : LikeJavaScript(n)
    /\ scan # "duplicate" => \A f \in Form :
         written[f] = Refused <=>
             written[f] # Unwritten /\ \E i \in DOMAIN text : Unwritable(i, f)
=============================================================================
