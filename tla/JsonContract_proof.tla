------------------------- MODULE JsonContract_proof -------------------------
(***************************************************************************)
(* The hashed and the signed bytes of an object, for texts of any length    *)
(* and depth.  The scan leaves a tree (Structure: a key and its value stand *)
(* together, and what is read while a container is open lies inside it);    *)
(* what is written is what FormTexts allows for that text (WrittenInv).  On *)
(* such a text the recursive functions of the writers and of the contract   *)
(* are shown to exist, every part being opened after what it lies in, and   *)
(* the properties follow part by part from the last token to the first.     *)
(***************************************************************************)
EXTENDS JsonScan_proof, JsonCanonical_proof

(* The text as a tree. *)

IsValue(k) == text[k].is \notin {"key", "close"}

(* A key has been read and its value has not. *)
HalfMember == open # <<>> /\ Last(open).kind = "object" /\ Last(open).wants = "value"

(* Token k against the tokens before it. *)
WellPlaced(k) ==
    /\ text[k].in < k
    /\ text[k].in # 0 => text[text[k].in].is \in {"object", "array"}
    /\ text[k].is = "key" =>
         /\ text[k].what \in Spelling
         /\ text[k].in # 0 /\ text[text[k].in].is = "object"
    /\ text[k].is = "string" => text[k].what \in Spelling
    /\ text[k].is = "number" => text[k].what \in Literal
    /\ IsValue(k) /\ text[k].in # 0 /\ text[text[k].in].is = "object" =>
         k # 1 /\ text[k - 1].is = "key" /\ text[k - 1].in = text[k].in
    /\ k # 1 /\ text[k - 1].is = "key" => IsValue(k) /\ text[k].in = text[k - 1].in

Containers ==
    /\ \A d, e \in DOMAIN open : d < e => open[d].at < open[e].at
    /\ \A d \in DOMAIN open : text[open[d].at].is = open[d].kind
    /\ \A d \in DOMAIN open : \A h \in DOMAIN text :
         open[d].at < h => open[d].at <= text[h].in

Nested ==
    \A k, h \in DOMAIN text : text[k].in < h /\ h < k => text[k].in <= text[h].in

LastKey ==
    /\ HalfMember <=> text # <<>> /\ Last(text).is = "key"
    /\ HalfMember => Last(text).in = Owner

Structure ==
    /\ Containers
    /\ Nested
    /\ LastKey
    /\ \A k \in DOMAIN text : WellPlaced(k)

WrittenInv ==
    \/ \A f \in Form : written[f] = Unwritten
    \/ /\ written["entry"] # Unwritten
       /\ scan = "duplicate" /\ \A f \in Form : written[f] = Refused
    \/ /\ written["entry"] # Unwritten
       /\ OneObject
       /\ \A f \in Form :
            written[f] \in IF FormTexts(f) = {} THEN {Refused} ELSE FormTexts(f)

-----------------------------------------------------------------------------
(* The ways in which a token is added. *)

KeyRead(t) ==
    /\ Wants = "key" /\ t.is = "key" /\ t.what \in Spelling
    /\ open' = Wanting(open, "value")

ScalarRead(t) ==
    /\ Wants = "value" /\ t.is \in {"string", "number", "null"}
    /\ t.is = "string" => t.what \in Spelling
    /\ t.is = "number" => t.what \in Literal
    /\ open' = Wanting(open, "key")

Opened(t) ==
    /\ Wants = "value" /\ t.is \in {"object", "array"}
    /\ open' = Append(open, [at |-> Len(text) + 1, kind |-> t.is,
                             wants |-> IF t.is = "object" THEN "key" ELSE "value"])

Closed(t) ==
    /\ CloseAllowed /\ t.is = "close"
    /\ open' = Wanting(Front(open), "key")

Grows(t) ==
    /\ text' = Append(text, t) /\ t \in Token /\ t.in = Owner
    /\ KeyRead(t) \/ ScalarRead(t) \/ Opened(t) \/ Closed(t)

LEMMA StringToken ==
    ASSUME Inv, scan = "reading", NEW s \in Spelling, ReadsString(s)
    PROVE  \E t : Grows(t)
<1>1. Owner \in Nat
  BY NextInStep
<1>2. CASE ReadsKey(s)
  <2>1. Grows([is |-> "key", what |-> s, in |-> Owner])
    BY <1>1, <1>2 DEF ReadsKey, Reads, Grows, KeyRead, Token
  <2> QED BY <2>1
<1>3. CASE ReadsValue("string", s)
  <2>1. Grows([is |-> "string", what |-> s, in |-> Owner])
    BY <1>1, <1>3 DEF ReadsValue, Reads, Grows, ScalarRead, Token
  <2> QED BY <2>1
<1> QED BY <1>2, <1>3 DEF ReadsString

LEMMA OtherToken ==
    ASSUME Inv, scan = "reading", ReadsOther
    PROVE  \E t : Grows(t)
<1>1. Owner \in Nat
  BY NextInStep
<1>2. CASE ReadsValue("null", Nothing)
  <2>1. Grows([is |-> "null", what |-> Nothing, in |-> Owner])
    BY <1>1, <1>2 DEF ReadsValue, Reads, Grows, ScalarRead, Token
  <2> QED BY <2>1
<1>3. ASSUME NEW n \in Literal, ReadsValue("number", n) PROVE \E t : Grows(t)
  <2>1. Grows([is |-> "number", what |-> n, in |-> Owner])
    BY <1>1, <1>3 DEF ReadsValue, Reads, Grows, ScalarRead, Token
  <2> QED BY <2>1
<1> QED BY <1>2, <1>3 DEF ReadsOther

LEMMA TextSteps ==
    ASSUME Inv, [Next]_vars
    PROVE  \/ UNCHANGED <<text, open>>
           \/ scan = "reading" /\ \E t : Grows(t)
<1>1. ASSUME NEW kind \in {"object", "array"}, OpenContainer(kind)
      PROVE  scan = "reading" /\ \E t : Grows(t)
  <2>1. scan = "reading"
    BY <1>1 DEF OpenContainer, Reads
  <2>2. Owner \in Nat
    BY <2>1, NextInStep
  <2>3. Grows([is |-> kind, what |-> Nothing, in |-> Owner])
    BY <1>1, <2>2 DEF OpenContainer, Reads, Grows, Opened, Token
  <2> QED BY <2>1, <2>3
<1>2. ASSUME CloseContainer
      PROVE  scan = "reading" /\ \E t : Grows(t)
  <2>1. scan = "reading"
    BY <1>2 DEF CloseContainer, Reads
  <2>2. Owner \in Nat
    BY <2>1, NextInStep
  <2>3. Grows([is |-> "close", what |-> Nothing, in |-> Owner])
    BY <1>2, <2>2 DEF CloseContainer, Reads, Grows, Closed, Token
  <2> QED BY <2>1, <2>3
<1>3. ASSUME ScanKey \/ FindDuplicate \/ ScanValue
      PROVE  scan = "reading" /\ \E t : Grows(t)
  <2>1. scan = "reading"
    BY <1>3 DEF ScanKey, FindDuplicate, ScanValue, ReadsString, ReadsOther,
                ReadsKey, ReadsValue, Reads
  <2>2. ReadsOther \/ \E s \in Spelling : ReadsString(s)
    BY <1>3 DEF ScanKey, FindDuplicate, ScanValue
  <2> QED BY <2>1, <2>2, StringToken, OtherToken
<1>4. ASSUME StopMalformed \/ EndOfText \/ Write \/ RefuseDuplicate \/ UNCHANGED vars
      PROVE  UNCHANGED <<text, open>>
  BY <1>4 DEF StopMalformed, EndOfText, Write, RefuseDuplicate, vars, scanVars
<1> QED BY <1>1, <1>2, <1>3, <1>4 DEF Next, CheckNoDuplicateKeys

-----------------------------------------------------------------------------
(* What holds of the tokens, whatever becomes of the stacks. *)

LEMMA GrownText ==
    ASSUME Inv, Structure, scan = "reading", NEW t, Grows(t)
    PROVE  /\ Nested'
           /\ \A k \in DOMAIN text : WellPlaced(k)'
           /\ \A d \in DOMAIN open : \A h \in DOMAIN text' :
                open[d].at < h => open[d].at <= text'[h].in
<1>1. t \in Token /\ text' = Append(text, t) /\ t.in = Owner
  BY DEF Grows
<1>2. Owner \in Nat /\ Owner <= Len(text)
  BY NextInStep
<1>3. PICK n \in Nat : n = Len(text)
  BY DEF Inv, TypeOK
<1>4. /\ DOMAIN text' = DOMAIN text \cup {n + 1}
      /\ \A i \in DOMAIN text : text'[i] = text[i]
      /\ text'[n + 1] = t /\ DOMAIN text = 1..n
  BY <1>1, <1>3, AppendedText DEF Inv, TypeOK
<1>5. \A d \in DOMAIN open : open[d].at <= Owner /\ open[d].at \in Nat
  <2>1. SUFFICES ASSUME NEW d \in DOMAIN open
                 PROVE  open[d].at <= Owner /\ open[d].at \in Nat
    OBVIOUS
  <2>2. open \in Seq(Container) /\ open[d].at \in Nat
    BY Ranges DEF Inv, TypeOK
  <2>3. Owner = open[Len(open)].at /\ Len(open) \in DOMAIN open
    BY <2>2 DEF Owner, Last
  <2>4. d = Len(open) \/ d < Len(open)
    BY <2>2
  <2>5. d < Len(open) => open[d].at < open[Len(open)].at
    BY <2>3 DEF Structure, Containers
  <2> QED BY <1>2, <2>2, <2>3, <2>4, <2>5
<1>6. \A d \in DOMAIN open : \A h \in DOMAIN text' :
        open[d].at < h => open[d].at <= text'[h].in
  <2>1. SUFFICES ASSUME NEW d \in DOMAIN open, NEW h \in DOMAIN text', open[d].at < h
                 PROVE  open[d].at <= text'[h].in
    OBVIOUS
  <2>2. CASE h \in DOMAIN text
    <3>1. open[d].at <= text[h].in
      BY <2>1, <2>2 DEF Structure, Containers
    <3> QED BY <3>1, <1>4, <2>2
  <2>3. CASE h = n + 1
    BY <2>3, <1>1, <1>4, <1>5
  <2> QED BY <2>2, <2>3, <1>4
<1>7. Nested'
  <2>1. SUFFICES ASSUME NEW k \in DOMAIN text', NEW h \in DOMAIN text',
                        text'[k].in < h, h < k
                 PROVE  text'[k].in <= text'[h].in
    BY DEF Nested
  <2>2. h \in DOMAIN text /\ text'[h] = text[h]
    BY <2>1, <1>3, <1>4
  <2>3. CASE k \in DOMAIN text
    <3>1. text[k].in < h /\ text'[k] = text[k]
      BY <2>1, <2>3, <1>4
    <3> QED BY <2>1, <2>2, <2>3, <3>1 DEF Structure, Nested
  <2>4. CASE k = n + 1
    <3>1. text'[k].in = Owner
      BY <2>4, <1>1, <1>4
    <3>2. CASE open = <<>>
      <4>1. Owner = 0 /\ text[h].in \in Nat
        BY <3>2, <2>2, Ranges DEF Owner
      <4> QED BY <3>1, <4>1, <2>2
    <3>3. CASE open # <<>>
      <4>1. Len(open) \in DOMAIN open /\ Owner = open[Len(open)].at
        BY <3>3 DEF Owner, Last, Inv, TypeOK
      <4> QED BY <4>1, <3>1, <2>1, <1>6
    <3> QED BY <3>2, <3>3
  <2> QED BY <2>3, <2>4, <1>4
<1>8. ASSUME NEW k \in DOMAIN text PROVE WellPlaced(k)'
  <2>1. WellPlaced(k) /\ text'[k] = text[k] /\ k \in Nat
    BY <1>4 DEF Structure
  <2>2. text[k].in \in Nat /\ text[k].in < k
    BY <2>1, Ranges DEF WellPlaced
  <2>3. text[k].in # 0 => text'[text[k].in] = text[text[k].in]
    BY <2>1, <2>2, <1>3, <1>4
  <2>4. k # 1 => text'[k - 1] = text[k - 1]
    BY <2>1, <1>3, <1>4
  <2> QED BY <2>1, <2>2, <2>3, <2>4 DEF WellPlaced, IsValue
<1> QED BY <1>6, <1>7, <1>8

(* The new token is well placed. *)
LEMMA NewToken ==
    ASSUME Inv, Structure, scan = "reading", NEW t, Grows(t),
           NEW k \in Nat, k = Len(text) + 1
    PROVE  WellPlaced(k)'
<1>1. t \in Token /\ text' = Append(text, t) /\ t.in = Owner
  BY DEF Grows
<1>2. Owner \in Nat /\ Owner <= Len(text)
  BY NextInStep
<1>3. PICK n \in Nat : n = Len(text)
  BY DEF Inv, TypeOK
<1>4. /\ \A i \in 1..n : text'[i] = text[i]
      /\ text'[n + 1] = t /\ DOMAIN text = 1..n
  BY <1>1, <1>3, AppendedText DEF Inv, TypeOK
<1>5. k = n + 1
  BY <1>3
<1>6. text'[k] = t /\ k - 1 = n /\ Owner < k
  BY <1>2, <1>3, <1>4, <1>5
<1>7. Owner # 0 => /\ open # <<>> /\ text'[Owner] = text[Owner]
                   /\ text[Owner].is = Last(open).kind
                   /\ Last(open).kind \in {"object", "array"}
  <2>1. SUFFICES ASSUME Owner # 0
                 PROVE  /\ open # <<>> /\ text'[Owner] = text[Owner]
                        /\ text[Owner].is = Last(open).kind
                        /\ Last(open).kind \in {"object", "array"}
    OBVIOUS
  <2>2. open # <<>> /\ open \in Seq(Container) /\ Owner = Last(open).at
    BY <2>1 DEF Owner, Inv, TypeOK
  <2>3. Len(open) \in DOMAIN open /\ Last(open) = open[Len(open)]
    BY <2>2 DEF Last
  <2>4. Last(open) \in Container
    BY <2>2, <2>3
  <2>5. text[Owner].is = Last(open).kind
    BY <2>2, <2>3 DEF Structure, Containers
  <2> QED BY <2>1, <2>2, <2>4, <2>5, <1>2, <1>3, <1>4 DEF Container
<1>8. open # <<>> => Owner # 0
  <2>1. SUFFICES ASSUME open # <<>> PROVE Owner # 0
    OBVIOUS
  <2>2. open \in Seq(Container) /\ Len(open) \in DOMAIN open /\ Owner = open[Len(open)].at
    BY <2>1 DEF Owner, Last, Inv, TypeOK
  <2>3. open[Len(open)] \in Container
    BY <2>2
  <2> QED BY <2>2, <2>3 DEF Container
<1>9. Wants = "key" => open # <<>> /\ Last(open).kind = "object" /\ ~HalfMember
  <2>1. open # <<>> => open \in Seq(Container) /\ Len(open) \in DOMAIN open
    BY DEF Inv, TypeOK
  <2>2. open # <<>> => Last(open) \in Container /\ (Last(open).kind = "array" => Last(open).wants = "value")
    BY <2>1 DEF Last, Inv, Nesting
  <2> QED BY <2>2 DEF Wants, HalfMember, Container
<1>10. k # 1 => text'[k - 1] = text[n] /\ text # <<>> /\ Last(text) = text[n]
  BY <1>3, <1>4, <1>5, <1>6 DEF Last, Inv, TypeOK
<1>11. k = 1 => ~HalfMember
  BY <1>3, <1>5 DEF Structure, LastKey, Inv, TypeOK
<1>12. HalfMember <=> k # 1 /\ text'[k - 1].is = "key"
  BY <1>10, <1>11 DEF Structure, LastKey
<1>13. HalfMember => text'[k - 1].in = Owner
  BY <1>10, <1>12 DEF Structure, LastKey
<1>14. WellPlaced(k)'
  <2>1. CASE KeyRead(t)
    <3>1. /\ t.is = "key" /\ t.what \in Spelling
          /\ Owner # 0 /\ text'[Owner].is = "object" /\ ~HalfMember
      BY <2>1, <1>7, <1>8, <1>9 DEF KeyRead
    <3> QED BY <3>1, <1>1, <1>6, <1>12 DEF WellPlaced, IsValue
  <2>2. CASE ScalarRead(t) \/ Opened(t)
    <3>1. /\ t.is \notin {"key", "close"} /\ Wants = "value"
          /\ t.is = "string" => t.what \in Spelling
          /\ t.is = "number" => t.what \in Literal
      BY <2>2 DEF ScalarRead, Opened
    <3>2. Owner # 0 => text'[Owner].is \in {"object", "array"}
      BY <1>7
    <3>3. Owner # 0 /\ text'[Owner].is = "object" => HalfMember
      BY <3>1, <1>7 DEF HalfMember, Wants
    <3> QED BY <3>1, <3>2, <3>3, <1>1, <1>6, <1>12, <1>13 DEF WellPlaced, IsValue
  <2>3. CASE Closed(t)
    <3>1. t.is = "close" /\ ~HalfMember
      BY <2>3 DEF Closed, CloseAllowed, HalfMember, Wants
    <3>2. Owner # 0 => text'[Owner].is \in {"object", "array"}
      BY <1>7
    <3> QED BY <3>1, <3>2, <1>1, <1>6, <1>12 DEF WellPlaced, IsValue
  <2> QED BY <2>1, <2>2, <2>3 DEF Grows
<1> QED BY <1>14

(* What becomes of the decoder's stack. *)
LEMMA GrownStack ==
    ASSUME Inv, Structure, scan = "reading", NEW t, Grows(t)
    PROVE  Containers' /\ LastKey'
<1>1. t \in Token /\ text' = Append(text, t) /\ t.in = Owner
  BY DEF Grows
<1>2. Owner \in Nat /\ Owner <= Len(text)
  BY NextInStep
<1>3. PICK n \in Nat : n = Len(text)
  BY DEF Inv, TypeOK
<1>4. /\ DOMAIN text' = DOMAIN text \cup {n + 1}
      /\ \A i \in DOMAIN text : text'[i] = text[i]
      /\ text'[n + 1] = t /\ DOMAIN text = 1..n /\ text' \in Seq(Token) /\ Len(text') = n + 1
  BY <1>1, <1>3, AppendedText DEF Inv, TypeOK
<1>5. text' # <<>> /\ Last(text') = t
  BY <1>4 DEF Last
<1>6. open \in Seq(Container) /\ \A d \in DOMAIN open : open[d].at \in 1..n
  <2>1. open \in Seq(Container)
    BY DEF Inv, TypeOK
  <2>2. \A d \in DOMAIN open : open[d] \in Container /\ open[d].at <= n
    BY <2>1, <1>3, Ranges
  <2> QED BY <2>1, <2>2 DEF Container
<1>7. \A d \in DOMAIN open : \A h \in DOMAIN text' :
        open[d].at < h => open[d].at <= text'[h].in
  BY GrownText
<1>8. ASSUME NEW o \in Seq(Container),
             \A d \in DOMAIN o :
               d \in DOMAIN open /\ o[d].at = open[d].at /\ o[d].kind = open[d].kind,
             open' = o
      PROVE  Containers'
  <2>1. \A d, e \in DOMAIN o : d < e => o[d].at < o[e].at
    BY <1>8 DEF Structure, Containers
  <2>2. \A d \in DOMAIN o : text'[o[d].at].is = o[d].kind
    BY <1>4, <1>6, <1>8 DEF Structure, Containers
  <2>3. \A d \in DOMAIN o : \A h \in DOMAIN text' :
          o[d].at < h => o[d].at <= text'[h].in
    BY <1>7, <1>8
  <2> QED BY <2>1, <2>2, <2>3, <1>8 DEF Containers
<1>9. CASE KeyRead(t)
  <2>1. open' = Wanting(open, "value") /\ t.is = "key" /\ Wants = "key"
    BY <1>9 DEF KeyRead
  <2>2. open # <<>> /\ Len(open) \in DOMAIN open /\ Last(open) = open[Len(open)]
    BY <2>1, <1>6 DEF Wants, Last
  <2>3. Last(open).kind = "object" /\ Owner = Last(open).at
    <3>1. Last(open) \in Container /\ Last(open).wants = "key"
      BY <2>1, <2>2, <1>6 DEF Wants
    <3> QED BY <3>1, <2>2 DEF Inv, Nesting, Container, Owner
  <2>4. /\ open' \in Seq(Container) /\ Len(open') = Len(open) /\ DOMAIN open' = DOMAIN open
        /\ \A d \in DOMAIN open : open'[d].at = open[d].at /\ open'[d].kind = open[d].kind
        /\ open'[Len(open)].wants = "value"
    BY <2>1, <2>2, <2>3, <1>6, WantingProperties
  <2>5. Containers'
    BY <2>4, <1>8
  <2>6. open' # <<>> /\ Last(open') = open'[Len(open)]
    BY <2>2, <2>4 DEF Last
  <2>7. HalfMember' /\ Owner' = Owner
    BY <2>2, <2>3, <2>4, <2>6 DEF HalfMember, Owner
  <2> QED BY <2>1, <2>5, <2>7, <1>1, <1>5 DEF LastKey
<1>10. CASE ScalarRead(t)
  <2>1. open' = Wanting(open, "key") /\ t.is # "key"
    BY <1>10 DEF ScalarRead
  <2>2. /\ open' \in Seq(Container) /\ Len(open') = Len(open) /\ DOMAIN open' = DOMAIN open
        /\ \A d \in DOMAIN open :
             /\ open'[d].at = open[d].at /\ open'[d].kind = open[d].kind
             /\ d = Len(open) /\ open[d].kind = "object" => open'[d].wants = "key"
    BY <2>1, <1>6, WantingProperties
  <2>3. Containers'
    BY <2>2, <1>8
  <2>4. ~HalfMember'
    BY <2>2, <1>6 DEF HalfMember, Last
  <2> QED BY <2>1, <2>3, <2>4, <1>5 DEF LastKey
<1>11. CASE Closed(t)
  <2>1. open' = Wanting(Front(open), "key") /\ t.is # "key" /\ open # <<>>
    BY <1>11 DEF Closed, CloseAllowed
  <2>2. /\ Front(open) \in Seq(Container)
        /\ \A d \in DOMAIN Front(open) : d \in DOMAIN open /\ Front(open)[d] = open[d]
    BY <2>1, <1>6, FrontProperties
  <2> DEFINE o == Front(open)
  <2>3. o \in Seq(Container)
    BY <2>2
  <2> HIDE DEF o
  <2>4. /\ Wanting(o, "key") \in Seq(Container) /\ Len(Wanting(o, "key")) = Len(o)
        /\ DOMAIN Wanting(o, "key") = DOMAIN o
        /\ \A d \in DOMAIN o :
             /\ Wanting(o, "key")[d].at = o[d].at /\ Wanting(o, "key")[d].kind = o[d].kind
             /\ d = Len(o) /\ o[d].kind = "object" => Wanting(o, "key")[d].wants = "key"
    BY <2>3, WantingProperties
  <2>5. open' = Wanting(o, "key")
    BY <2>1 DEF o
  <2>6. Containers'
    <3>1. \A d \in DOMAIN o : d \in DOMAIN open /\ o[d] = open[d]
      BY <2>2 DEF o
    <3> QED BY <3>1, <2>4, <2>5, <1>8
  <2>7. ~HalfMember'
    BY <2>4, <2>5, <2>3 DEF HalfMember, Last
  <2> QED BY <2>1, <2>6, <2>7, <1>5 DEF LastKey
<1>12. CASE Opened(t)
  <2> DEFINE c == [at |-> Len(text) + 1, kind |-> t.is,
                   wants |-> IF t.is = "object" THEN "key" ELSE "value"]
  <2>1. t.is \in {"object", "array"} /\ open' = Append(open, c)
    BY <1>12 DEF Opened
  <2>2. c \in Container /\ c.at = n + 1 /\ c.kind = t.is
        /\ (t.is = "object" => c.wants = "key")
    BY <2>1, <1>3 DEF Container
  <2> HIDE DEF c
  <2>m. PICK m \in Nat : m = Len(open)
    BY <1>6
  <2>3. /\ open' \in Seq(Container) /\ Len(open') = m + 1
        /\ DOMAIN open = 1..m /\ DOMAIN open' = 1..(m + 1)
        /\ open'[m + 1] = c /\ \A d \in 1..m : open'[d] = open[d]
    BY <2>1, <2>2, <2>m, <1>6
  <2>4. \A d \in 1..(m + 1) : d \in 1..m \/ d = m + 1
    OBVIOUS
  <2>5. \A d, e \in DOMAIN open' : d < e => open'[d].at < open'[e].at
    <3>1. SUFFICES ASSUME NEW d \in 1..(m + 1), NEW e \in 1..(m + 1), d < e
                   PROVE  open'[d].at < open'[e].at
      BY <2>3
    <3>2. d \in 1..m
      BY <3>1
    <3>3. CASE e \in 1..m
      BY <3>1, <3>2, <3>3, <2>3 DEF Structure, Containers
    <3>4. CASE e = m + 1
      <4>1. open[d].at \in 1..n
        BY <3>2, <2>3, <1>6
      <4> QED BY <4>1, <3>2, <3>4, <2>2, <2>3
    <3> QED BY <3>3, <3>4, <2>4
  <2>6. \A d \in DOMAIN open' : text'[open'[d].at].is = open'[d].kind
    <3>1. \A d \in 1..m : text'[open'[d].at].is = open'[d].kind
      BY <2>3, <1>4, <1>6 DEF Structure, Containers
    <3>2. text'[open'[m + 1].at].is = open'[m + 1].kind
      BY <2>2, <2>3, <1>4
    <3> QED BY <3>1, <3>2, <2>3, <2>4
  <2>7. \A d \in DOMAIN open' : \A h \in DOMAIN text' :
          open'[d].at < h => open'[d].at <= text'[h].in
    <3>1. \A d \in 1..m : \A h \in DOMAIN text' :
            open'[d].at < h => open'[d].at <= text'[h].in
      BY <2>3, <1>7
    <3>2. \A h \in DOMAIN text' : ~(open'[m + 1].at < h)
      BY <2>2, <2>3, <1>4
    <3> QED BY <3>1, <3>2, <2>3, <2>4
  <2>8. Containers'
    BY <2>5, <2>6, <2>7 DEF Containers
  <2>9. ~HalfMember'
    BY <2>2, <2>3 DEF HalfMember, Last
  <2> QED BY <2>1, <2>8, <2>9, <1>5 DEF LastKey
<1> QED BY <1>9, <1>10, <1>11, <1>12 DEF Grows

LEMMA StructureStep ==
    ASSUME Inv, Structure, [Next]_vars
    PROVE  Structure'
<1>1. CASE UNCHANGED <<text, open>>
  BY <1>1 DEF Structure, Containers, Nested, LastKey, WellPlaced, IsValue, HalfMember, Owner
<1>2. ASSUME scan = "reading", NEW t, Grows(t) PROVE Structure'
  <2>1. Containers' /\ LastKey' /\ Nested' /\ \A k \in DOMAIN text : WellPlaced(k)'
    BY <1>2, GrownStack, GrownText
  <2>2. PICK k \in Nat : k = Len(text) + 1
    BY DEF Inv, TypeOK
  <2>3. WellPlaced(k)'
    BY <1>2, <2>2, NewToken
  <2>4. DOMAIN text' = DOMAIN text \cup {k}
    BY <1>2, <2>2, AppendedText DEF Grows, Inv
  <2>5. \A i \in DOMAIN text' : WellPlaced(i)'
    BY <2>1, <2>3, <2>4
  <2> QED BY <2>1, <2>5 DEF Structure
<1> QED BY <1>1, <1>2, TextSteps

LEMMA StructureInitially == Init => Structure
<1> SUFFICES ASSUME text = <<>>, open = <<>> PROVE Structure
  BY DEF Init, ScanInit
<1> QED BY DEF Structure, Containers, Nested, LastKey, HalfMember

-----------------------------------------------------------------------------
(* What is written. *)

LEMMA Entries == Form = {"entry", "legacy", "envelope"} /\ Refused # Unwritten
<1>1. Refused.is = "refused" /\ Unwritten.is = "unwritten"
  BY DEF Refused, Unwritten
<1>2. Refused # Unwritten
  BY <1>1
<1> QED BY <1>2 DEF Form

LEMMA ObjectTextsAreObjects ==
    ASSUME NEW sets, NEW order, NEW v \in ObjectTexts(sets, order)
    PROVE  v.is = "object" /\ v # Unwritten /\ v # Refused
<1>1. v.is = "object"
  BY DEF ObjectTexts
<1>2. Refused.is = "refused" /\ Unwritten.is = "unwritten"
  BY DEF Refused, Unwritten
<1> QED BY <1>1, <1>2

LEMMA FormTextsAreObjects ==
    ASSUME NEW f \in Form, NEW v \in FormTexts(f)
    PROVE  v.is = "object" /\ v # Unwritten /\ v # Refused
<1>1. CASE f = "entry"
  <2>1. FormTexts(f) = CanonicalizeForHash(TRUE)
    BY <1>1 DEF FormTexts
  <2> QED BY <2>1, ObjectTextsAreObjects DEF CanonicalizeForHash
<1>2. CASE f = "legacy"
  <2>1. FormTexts(f) = CanonicalizeForHash(FALSE)
    BY <1>2 DEF FormTexts
  <2> QED BY <2>1, ObjectTextsAreObjects DEF CanonicalizeForHash
<1>3. CASE f = "envelope"
  <2>1. FormTexts(f) = SignedBytes
    BY <1>3 DEF FormTexts
  <2> QED BY <2>1, ObjectTextsAreObjects DEF SignedBytes
<1> QED BY <1>1, <1>2, <1>3 DEF Form

LEMMA SameText ==
    ASSUME UNCHANGED text
    PROVE  \A f \in Form : FormTexts(f)' = FormTexts(f)
BY DEF FormTexts, CanonicalizeForHash, SignedBytes, Kept, MapOf, KeysOf,
       Encode, EncodeValue, ItemsOf

LEMMA WrittenStep ==
    ASSUME WrittenInv, [Next]_vars
    PROVE  WrittenInv'
<1>1. CASE UNCHANGED vars
  <2>1. /\ UNCHANGED text /\ UNCHANGED scan /\ UNCHANGED open /\ UNCHANGED written
    BY <1>1 DEF vars, scanVars
  <2>2. OneObject => OneObject'
    BY <2>1 DEF OneObject
  <2>3. \A f \in Form : FormTexts(f)' = FormTexts(f)
    BY <2>1, SameText
  <2> QED BY <2>1, <2>2, <2>3 DEF WrittenInv
<1>2. CASE CheckNoDuplicateKeys /\ UNCHANGED written
  <2>1. scan = "reading"
    BY <1>2 DEF CheckNoDuplicateKeys, OpenContainer, CloseContainer, ScanKey, FindDuplicate,
                ScanValue, StopMalformed, EndOfText, ReadsString, ReadsOther, ReadsKey,
                ReadsValue, Reads
  <2>2. \A f \in Form : written[f] = Unwritten
    BY <2>1 DEF WrittenInv, OneObject
  <2> QED BY <1>2, <2>2 DEF WrittenInv
<1>3. CASE Write
  <2>1. /\ UNCHANGED text /\ UNCHANGED scan /\ UNCHANGED open /\ OneObject
    BY <1>3 DEF Write, scanVars
  <2>2. OneObject'
    BY <2>1 DEF OneObject
  <2>3. \A f \in Form : FormTexts(f)' = FormTexts(f)
    BY <2>1, SameText
  <2>4. \A f \in Form :
          written'[f] \in IF FormTexts(f) = {} THEN {Refused} ELSE FormTexts(f)
    BY <1>3 DEF Write
  <2>5. written'["entry"] # Unwritten
    <3>1. "entry" \in Form
      BY Entries
    <3> QED BY <3>1, <2>4, Entries, FormTextsAreObjects
  <2> QED BY <2>2, <2>3, <2>4, <2>5 DEF WrittenInv
<1>4. CASE RefuseDuplicate
  <2>1. scan' = "duplicate" /\ \A f \in Form : written'[f] = Refused
    BY <1>4 DEF RefuseDuplicate, scanVars
  <2> QED BY <2>1, Entries DEF WrittenInv
<1> QED BY <1>1, <1>2, <1>3, <1>4 DEF Next

LEMMA InvariantsHold == Spec => [](Inv /\ Structure /\ WrittenInv)
<1>1. Init => WrittenInv
  BY DEF Init, WrittenInv
<1>2. Inv /\ Structure /\ WrittenInv /\ [Next]_vars => Structure' /\ WrittenInv'
  BY StructureStep, WrittenStep
<1> QED BY <1>1, <1>2, StructureInitially, Initially, Inductive, PTL DEF Spec

-----------------------------------------------------------------------------
(* A text that has been read to its end. *)

WellFormed ==
    /\ text \in Seq(Token)
    /\ 1 \in DOMAIN text /\ text[1].is = "object"
    /\ \A k \in DOMAIN text : WellPlaced(k) /\ text[k].in \in Nat
    /\ \A k \in DOMAIN text : IsValue(k) /\ k # 1 => text[k].in # 0
    /\ Nested
    /\ \A j \in DOMAIN text : text[j].is = "key" =>
         j + 1 \in DOMAIN text /\ IsValue(j + 1) /\ text[j + 1].in = text[j].in
    /\ \A i, j \in DOMAIN text : ~SameKey(i, j)

LEMMA EndIsWellFormed ==
    ASSUME Inv, Structure, OneObject
    PROVE  WellFormed
<1>1. /\ text \in Seq(Token) /\ 1 \in DOMAIN text /\ text[1].is = "object"
      /\ open = <<>> /\ scan = "ended"
      /\ \A i \in DOMAIN text : text[i].in = 0 /\ text[i].is # "close" => i = 1
  BY DEF Inv, TypeOK, OneObject
<1>2. \A k \in DOMAIN text : WellPlaced(k) /\ text[k].in \in Nat
  BY Ranges DEF Structure
<1>3. \A k \in DOMAIN text : IsValue(k) /\ k # 1 => text[k].in # 0
  BY <1>1 DEF IsValue
<1>4. ASSUME NEW j \in DOMAIN text, text[j].is = "key"
      PROVE  j + 1 \in DOMAIN text /\ IsValue(j + 1) /\ text[j + 1].in = text[j].in
  <2>1. PICK n \in Nat : n = Len(text)
    BY <1>1
  <2>2. j # n
    BY <1>1, <1>4, <2>1 DEF Structure, LastKey, HalfMember, Last
  <2>3. PICK k \in Nat : k = j + 1
    BY <1>1
  <2>4. k \in DOMAIN text /\ k # 1 /\ k - 1 = j
    BY <1>1, <2>1, <2>2, <2>3
  <2>5. WellPlaced(k)
    BY <1>2, <2>4
  <2> QED BY <1>4, <2>3, <2>4, <2>5 DEF WellPlaced
<1>5. \A i, j \in DOMAIN text : ~SameKey(i, j)
  BY <1>1 DEF Inv, DuplicatesAreFound
<1> QED BY <1>1, <1>2, <1>3, <1>4, <1>5 DEF WellFormed, Structure

-----------------------------------------------------------------------------
(* What the well-formed text says of its members. *)

LEMMA WellFormedText ==
    ASSUME WellFormed
    PROVE  /\ text \in Seq(Token) /\ Len(text) \in Nat /\ DOMAIN text = 1..Len(text)
           /\ 1 \in DOMAIN text /\ text[1].is = "object"
BY DEF WellFormed

LEMMA Inside ==
    ASSUME WellFormed, NEW k \in DOMAIN text
    PROVE  text[k].in < k /\ text[k].in \in Nat
BY DEF WellFormed, WellPlaced

(* The members of an object, none of which replaces another. *)
LEMMA KeyFacts ==
    ASSUME WellFormed, NEW i \in DOMAIN text, NEW j \in KeysOf(i)
    PROVE  /\ j \in DOMAIN text /\ j + 1 \in DOMAIN text /\ i < j /\ i < j + 1
           /\ text[j].is = "key" /\ text[j].in = i
           /\ text[i].is = "object"
           /\ IsValue(j + 1) /\ text[j + 1].in = i
           /\ text[j].what \in Spelling
<1>1. j \in DOMAIN text /\ text[j].is = "key" /\ text[j].in = i
  BY DEF KeysOf
<1>2. i < j /\ text[j].what \in Spelling
  BY <1>1 DEF WellFormed, WellPlaced
<1>3. j + 1 \in DOMAIN text /\ IsValue(j + 1) /\ text[j + 1].in = i
  BY <1>1 DEF WellFormed
<1>4. text[i].is = "object"
  BY <1>1 DEF WellFormed, WellPlaced
<1>5. i \in Nat /\ j \in Nat
  BY WellFormedText, <1>1
<1> QED BY <1>1, <1>2, <1>3, <1>4, <1>5

LEMMA SpellingsAreNames ==
    \A s \in Spelling : Unquote[s] \in Names
BY UnquoteAssumption DEF Names

LEMMA MapFacts ==
    ASSUME WellFormed, NEW i \in DOMAIN text
    PROVE  /\ DOMAIN MapOf(i) = {Unquote[text[j].what] : j \in KeysOf(i)}
           /\ \A j \in KeysOf(i) : MapOf(i)[Unquote[text[j].what]] = j + 1
           /\ DOMAIN MapOf(i) \in SUBSET Names
           /\ IsFiniteSet(DOMAIN MapOf(i))
<1> DEFINE N == {Unquote[text[j].what] : j \in KeysOf(i)}
<1>1. DOMAIN MapOf(i) = N
  BY DEF MapOf
<1>2. \A j, h \in KeysOf(i) : Unquote[text[j].what] = Unquote[text[h].what] => j = h
  BY DEF WellFormed, SameKey, KeysOf
<1>3. ASSUME NEW j \in KeysOf(i) PROVE MapOf(i)[Unquote[text[j].what]] = j + 1
  <2> DEFINE name == Unquote[text[j].what]
             Chosen(x) == /\ Unquote[text[x].what] = name
                          /\ \A h \in KeysOf(i) : Unquote[text[h].what] = name => h <= x
             chosen == CHOOSE x \in KeysOf(i) : Chosen(x)
  <2>1. MapOf(i)[name] = 1 + chosen
    BY DEF MapOf
  <2>2. j \in KeysOf(i) /\ j \in Nat /\ Unquote[text[j].what] = name
    BY KeyFacts, WellFormedText
  <2>3. \A h \in KeysOf(i) : Unquote[text[h].what] = name => h = j
    BY <1>2
  <2>4. Chosen(j)
    BY <2>2, <2>3
  <2>5. \A x \in KeysOf(i) : Chosen(x) => x = j
    BY <2>3
  <2> HIDE DEF Chosen
  <2>6. chosen = j
    BY <2>2, <2>4, <2>5
  <2> HIDE DEF chosen, name
  <2> QED BY <2>1, <2>2, <2>6
<1>4. N \in SUBSET Names
  BY KeyFacts, SpellingsAreNames
<1>5. IsFiniteSet(N)
  <2>1. KeysOf(i) \in SUBSET (1..Len(text)) /\ IsFiniteSet(1..Len(text))
    BY WellFormedText, FS_Interval DEF KeysOf
  <2>2. IsFiniteSet(KeysOf(i))
    BY <2>1, FS_Subset
  <2> DEFINE g == [j \in KeysOf(i) |-> Unquote[text[j].what]]
  <2>3. g \in Surjection(KeysOf(i), N)
    BY DEF Surjection
  <2> HIDE DEF g, N
  <2> QED BY <2>2, <2>3, FS_Surjection
<1> QED BY <1>1, <1>3, <1>4, <1>5

-----------------------------------------------------------------------------
(* The elements of an array. *)

IsItem(n, i) == text[n].in = i /\ text[n].is # "close"

ItemsStep(u, n, i) ==
    IF n = 0 THEN <<>> ELSE IF IsItem(n, i) THEN Append(u[n - 1], n) ELSE u[n - 1]

LEMMA ItemsExist ==
    ASSUME NEW L \in Nat, NEW i
    PROVE  \E u : u = [n \in 0..L |-> ItemsStep(u, n, i)]
<1> DEFINE Solves(u, m) == /\ u = [n \in 0..L |-> u[n]]
                           /\ \A n \in 0..L : n <= m => u[n] = ItemsStep(u, n, i)
           Good == {m \in Nat : \E u : Solves(u, m)}
<1>1. 0 \in Good
  <2>1. Solves([n \in 0..L |-> <<>>], 0)
    BY DEF ItemsStep
  <2> HIDE DEF Solves
  <2> QED BY <2>1
<1>2. ASSUME NEW m \in 1..L, m - 1 \in Good PROVE m \in Good
  <2>1. PICK u : Solves(u, m - 1)
    BY <1>2
  <2> DEFINE w == [n \in 0..L |-> IF n = m THEN ItemsStep(u, m, i) ELSE u[n]]
  <2>2. /\ w = [n \in 0..L |-> w[n]] /\ w[m] = ItemsStep(u, m, i)
        /\ \A n \in 0..L : n # m => w[n] = u[n]
    BY <2>1
  <2> HIDE DEF w
  <2>3. ASSUME NEW n \in 0..L, n <= m PROVE ItemsStep(w, n, i) = ItemsStep(u, n, i)
    <3>1. n # 0 => n - 1 \in 0..L /\ n - 1 # m
      BY <2>3
    <3> QED BY <3>1, <2>2 DEF ItemsStep
  <2>4. ASSUME NEW n \in 0..L, n <= m PROVE w[n] = ItemsStep(w, n, i)
    <3>1. CASE n = m
      BY <3>1, <2>2, <2>3
    <3>2. CASE n # m
      <4>1. u[n] = ItemsStep(u, n, i)
        BY <3>2, <2>1, <2>4
      <4> QED BY <4>1, <3>2, <2>2, <2>3, <2>4
    <3> QED BY <3>1, <3>2
  <2>5. Solves(w, m)
    BY <2>2, <2>4
  <2> HIDE DEF Solves
  <2> QED BY <2>5
<1>3. L \in Good
  <2> HIDE DEF Good
  <2>1. 0..L \subseteq Good
    BY <1>1, <1>2, UpwardInduction
  <2> QED BY <2>1
<1>4. PICK u : Solves(u, L)
  BY <1>3
<1>5. u = [n \in 0..L |-> ItemsStep(u, n, i)]
  BY <1>4
<1> QED BY <1>5

LEMMA ItemsEquation ==
    ASSUME WellFormed, NEW i
    PROVE  \E u : /\ ItemsOf(i) = u[Len(text)]
                  /\ u = [n \in 0..Len(text) |-> ItemsStep(u, n, i)]
<1> DEFINE upto[n \in 0..Len(text)] ==
             IF n = 0 THEN <<>>
             ELSE IF text[n].in = i /\ text[n].is # "close"
               THEN Append(upto[n - 1], n)
               ELSE upto[n - 1]
<1>1. ItemsOf(i) = upto[Len(text)]
  BY DEF ItemsOf
<1>2. \E u : u = [n \in 0..Len(text) |->
                   IF n = 0 THEN <<>>
                   ELSE IF text[n].in = i /\ text[n].is # "close"
                     THEN Append(u[n - 1], n)
                     ELSE u[n - 1]]
  <2>1. PICK u : u = [n \in 0..Len(text) |-> ItemsStep(u, n, i)]
    BY ItemsExist, WellFormedText
  <2>2. u = [n \in 0..Len(text) |->
               IF n = 0 THEN <<>>
               ELSE IF text[n].in = i /\ text[n].is # "close"
                 THEN Append(u[n - 1], n)
                 ELSE u[n - 1]]
    BY <2>1 DEF ItemsStep, IsItem
  <2> QED BY <2>2
<1>3. upto = [n \in 0..Len(text) |->
                   IF n = 0 THEN <<>>
                   ELSE IF text[n].in = i /\ text[n].is # "close"
                     THEN Append(upto[n - 1], n)
                     ELSE upto[n - 1]]
  BY <1>2
<1> HIDE DEF upto
<1>4. upto = [n \in 0..Len(text) |-> ItemsStep(upto, n, i)]
  BY <1>3 DEF ItemsStep, IsItem
<1> QED BY <1>1, <1>4

LEMMA ItemsFacts ==
    ASSUME WellFormed, NEW i \in DOMAIN text
    PROVE  /\ ItemsOf(i) \in Seq(DOMAIN text)
           /\ \A d \in DOMAIN ItemsOf(i) :
                /\ ItemsOf(i)[d] \in DOMAIN text /\ IsItem(ItemsOf(i)[d], i)
                /\ i < ItemsOf(i)[d]
           /\ \A n \in DOMAIN text : IsItem(n, i) =>
                \E d \in DOMAIN ItemsOf(i) : ItemsOf(i)[d] = n
<1>1. PICK L \in Nat : L = Len(text) /\ DOMAIN text = 1..L
  BY WellFormedText
<1>2. PICK u : ItemsOf(i) = u[L] /\ u = [n \in 0..L |-> ItemsStep(u, n, i)]
  BY <1>1, ItemsEquation
<1> DEFINE Right(s, m) == /\ s \in Seq(1..L)
                          /\ \A d \in 1..Len(s) : IsItem(s[d], i)
                          /\ \A n \in 1..L : n <= m /\ IsItem(n, i) =>
                               \E d \in 1..Len(s) : s[d] = n
           Good == {m \in 0..L : Right(u[m], m)}
<1>3. 0 \in Good
  <2>1. u[0] = <<>>
    BY <1>2 DEF ItemsStep
  <2>2. \A n \in 1..L : ~(n <= 0)
    OBVIOUS
  <2>3. Right(u[0], 0)
    BY <2>1, <2>2
  <2> QED BY <2>3
<1>4. ASSUME NEW m \in 1..L, m - 1 \in Good PROVE m \in Good
  <2> DEFINE s == u[m - 1]
  <2>1. Right(s, m - 1) /\ s \in Seq(1..L) /\ Len(s) \in Nat
    <3>1. Right(s, m - 1)
      BY <1>4
    <3> HIDE DEF s
    <3> QED BY <3>1
  <2>2. u[m] = IF IsItem(m, i) THEN Append(s, m) ELSE s
    <3>1. u[m] = ItemsStep(u, m, i) /\ m # 0
      BY <1>2
    <3> QED BY <3>1 DEF ItemsStep
  <2>3. \A n \in 1..L : n <= m => n = m \/ n <= m - 1
    OBVIOUS
  <2> HIDE DEF s
  <2>4. CASE ~IsItem(m, i)
    <3>1. \A n \in 1..L : n <= m /\ IsItem(n, i) => n <= m - 1
      BY <2>3, <2>4
    <3>2. Right(s, m)
      BY <2>1, <3>1
    <3>3. u[m] = s
      BY <2>2, <2>4
    <3> HIDE DEF Right
    <3> QED BY <3>2, <3>3
  <2>5. CASE IsItem(m, i)
    <3> DEFINE t == Append(s, m)
    <3>1. /\ t \in Seq(1..L) /\ Len(t) = Len(s) + 1 /\ t[Len(s) + 1] = m
          /\ \A d \in 1..Len(s) : t[d] = s[d]
      BY <2>1
    <3> HIDE DEF t
    <3>2. \A d \in 1..Len(t) : d \in 1..Len(s) \/ d = Len(s) + 1
      BY <2>1, <3>1
    <3>3. \A d \in 1..Len(t) : IsItem(t[d], i)
      BY <2>1, <2>5, <3>1, <3>2
    <3>4. Len(s) + 1 \in 1..Len(t) /\ \A d \in 1..Len(s) : d \in 1..Len(t)
      BY <2>1, <3>1
    <3>5. ASSUME NEW n \in 1..L, n <= m, IsItem(n, i) PROVE \E d \in 1..Len(t) : t[d] = n
      <4>1. CASE n = m
        BY <4>1, <3>1, <3>4
      <4>2. CASE n <= m - 1
        <5>1. PICK d \in 1..Len(s) : s[d] = n
          BY <2>1, <3>5, <4>2
        <5> QED BY <5>1, <3>1, <3>4
      <4> QED BY <2>3, <3>5, <4>1, <4>2
    <3>6. Right(t, m)
      BY <3>1, <3>3, <3>5
    <3>7. u[m] = t
      BY <2>2, <2>5 DEF t
    <3> QED BY <3>6, <3>7
  <2> QED BY <2>4, <2>5
<1>5. Right(ItemsOf(i), L)
  <2>1. L \in Good
    <3> HIDE DEF Good
    <3>1. 0..L \subseteq Good
      BY <1>3, <1>4, UpwardInduction
    <3> QED BY <3>1
  <2> QED BY <2>1, <1>2
<1>6. /\ ItemsOf(i) \in Seq(1..L) /\ DOMAIN ItemsOf(i) = 1..Len(ItemsOf(i))
      /\ \A d \in DOMAIN ItemsOf(i) : ItemsOf(i)[d] \in 1..L /\ IsItem(ItemsOf(i)[d], i)
      /\ \A n \in 1..L : IsItem(n, i) => \E d \in DOMAIN ItemsOf(i) : ItemsOf(i)[d] = n
  <2> DEFINE s == ItemsOf(i)
  <2>1. Right(s, L)
    BY <1>5
  <2> HIDE DEF s
  <2>2. /\ s \in Seq(1..L) /\ DOMAIN s = 1..Len(s)
        /\ \A d \in DOMAIN s : s[d] \in 1..L /\ IsItem(s[d], i)
        /\ \A n \in 1..L : n <= L /\ IsItem(n, i) => \E d \in DOMAIN s : s[d] = n
    BY <2>1
  <2>3. \A n \in 1..L : n <= L
    OBVIOUS
  <2> QED BY <2>2, <2>3 DEF s
<1>7. \A n \in 1..L : IsItem(n, i) => i < n
  BY <1>1, Inside DEF IsItem
<1> QED BY <1>1, <1>6, <1>7

-----------------------------------------------------------------------------
(* The two writers as one, for the form f; g has the texts of the parts. *)

OrderOf(f) == IF f = "envelope" THEN "utf16" ELSE "utf8"

NumberTexts(f, n) == IF f = "envelope" THEN JcsNumber(n) ELSE ChainNumber(n)

TextsOf(g, i, f) ==
    CASE text[i].is = "null"   -> Null
      [] text[i].is = "string" -> String(text[i].what)
      [] text[i].is = "number" -> NumberTexts(f, text[i].what)
      [] text[i].is = "array"  -> ArrayTexts([d \in DOMAIN ItemsOf(i) |-> g[ItemsOf(i)[d]]])
      [] text[i].is = "object" ->
           ObjectTexts([n \in DOMAIN MapOf(i) |-> g[MapOf(i)[n]]], OrderOf(f))
      [] OTHER -> {}

(* What token i may come out as. *)
Texts(f, i) == IF f = "envelope" THEN EncodeValue[i] ELSE Encode[i]

LEMMA MembersAreLater ==
    ASSUME WellFormed, NEW i \in DOMAIN text
    PROVE  \A n \in DOMAIN MapOf(i) : MapOf(i)[n] \in DOMAIN text /\ i < MapOf(i)[n]
<1>1. SUFFICES ASSUME NEW n \in DOMAIN MapOf(i)
               PROVE  MapOf(i)[n] \in DOMAIN text /\ i < MapOf(i)[n]
  OBVIOUS
<1>2. PICK j \in KeysOf(i) : n = Unquote[text[j].what]
  BY MapFacts
<1>3. MapOf(i)[n] = j + 1
  BY <1>2, MapFacts
<1> QED BY <1>3, KeyFacts

LEMMA TextsOfLater ==
    ASSUME WellFormed, NEW i \in DOMAIN text, NEW f, NEW g, NEW h,
           \A j \in DOMAIN text : i < j => g[j] = h[j]
    PROVE  TextsOf(g, i, f) = TextsOf(h, i, f)
<1>1. [d \in DOMAIN ItemsOf(i) |-> g[ItemsOf(i)[d]]]
        = [d \in DOMAIN ItemsOf(i) |-> h[ItemsOf(i)[d]]]
  BY ItemsFacts
<1>2. [n \in DOMAIN MapOf(i) |-> g[MapOf(i)[n]]] = [n \in DOMAIN MapOf(i) |-> h[MapOf(i)[n]]]
  BY MembersAreLater
<1> QED BY <1>1, <1>2 DEF TextsOf

LEMMA TextsExist ==
    ASSUME WellFormed, NEW f
    PROVE  \E g : g = [i \in DOMAIN text |-> TextsOf(g, i, f)]
<1>1. PICK L \in Nat : L = Len(text) /\ DOMAIN text = 1..L
  BY WellFormedText
<1> DEFINE Solves(g, k) == \A i \in 1..L : k < i => g[i] = TextsOf(g, i, f)
           Good == {m \in 0..L : \E g : Solves(g, L - m)}
<1>2. 0 \in Good
  <2>1. Solves(<<>>, L - 0)
    OBVIOUS
  <2> QED BY <2>1
<1>3. ASSUME NEW m \in 1..L, m - 1 \in Good PROVE m \in Good
  <2>1. PICK k \in 1..L : k = L - (m - 1)
    OBVIOUS
  <2>2. PICK g : Solves(g, k)
    BY <1>3, <2>1
  <2> DEFINE h == [i \in 1..L |-> IF i = k THEN TextsOf(g, k, f) ELSE g[i]]
  <2>3. ASSUME NEW i \in 1..L, k <= i PROVE TextsOf(h, i, f) = TextsOf(g, i, f)
    <3>1. \A j \in DOMAIN text : i < j => h[j] = g[j]
      BY <1>1, <2>3
    <3> HIDE DEF h
    <3> QED BY <3>1, <1>1, TextsOfLater
  <2>4. ASSUME NEW i \in 1..L, k <= i PROVE h[i] = TextsOf(h, i, f)
    <3>1. CASE i = k
      BY <3>1, <2>3
    <3>2. CASE i # k
      <4>1. h[i] = g[i] /\ g[i] = TextsOf(g, i, f)
        BY <3>2, <2>2, <2>4
      <4> QED BY <4>1, <2>3, <2>4
    <3> QED BY <3>1, <3>2
  <2> HIDE DEF h
  <2>5. Solves(h, L - m)
    <3>1. \A i \in 1..L : L - m < i => k <= i
      BY <2>1
    <3> QED BY <3>1, <2>4
  <2> QED BY <2>5
<1>4. PICK g : Solves(g, L - L)
  <2>1. L \in Good
    <3> HIDE DEF Good
    <3>1. 0..L \subseteq Good
      BY <1>2, <1>3, UpwardInduction
    <3> QED BY <3>1
  <2> QED BY <2>1
<1> DEFINE t == [i \in DOMAIN text |-> g[i]]
<1>5. \A i \in DOMAIN text : t[i] = TextsOf(g, i, f)
  BY <1>1, <1>4
<1>6. \A i \in DOMAIN text : TextsOf(t, i, f) = TextsOf(g, i, f)
  <2>1. \A i \in DOMAIN text : t[i] = g[i]
    OBVIOUS
  <2> HIDE DEF t
  <2> QED BY <2>1, TextsOfLater
<1>7. t = [i \in DOMAIN text |-> TextsOf(t, i, f)]
  <2>1. t = [i \in DOMAIN text |-> t[i]]
    OBVIOUS
  <2> HIDE DEF t
  <2> QED BY <2>1, <1>5, <1>6
<1> QED BY <1>7

LEMMA EncodeEquation ==
    ASSUME WellFormed
    PROVE  Encode = [i \in DOMAIN text |-> TextsOf(Encode, i, "entry")]
<1>1. PICK g : g = [i \in DOMAIN text |-> TextsOf(g, i, "entry")]
  BY TextsExist
<1>2. g = [i \in DOMAIN text |->
    CASE text[i].is = "null"   -> Null
      [] text[i].is = "string" -> String(text[i].what)
      [] text[i].is = "number" -> ChainNumber(text[i].what)
      [] text[i].is = "array"  ->
           ArrayTexts([d \in DOMAIN ItemsOf(i) |-> g[ItemsOf(i)[d]]])
      [] text[i].is = "object" ->
           ObjectTexts([n \in DOMAIN MapOf(i) |-> g[MapOf(i)[n]]], "utf8")
      [] OTHER -> {}]
  BY <1>1 DEF TextsOf, NumberTexts, OrderOf
<1>3. Encode = [i \in DOMAIN text |->
    CASE text[i].is = "null"   -> Null
      [] text[i].is = "string" -> String(text[i].what)
      [] text[i].is = "number" -> ChainNumber(text[i].what)
      [] text[i].is = "array"  ->
           ArrayTexts([d \in DOMAIN ItemsOf(i) |-> Encode[ItemsOf(i)[d]]])
      [] text[i].is = "object" ->
           ObjectTexts([n \in DOMAIN MapOf(i) |-> Encode[MapOf(i)[n]]], "utf8")
      [] OTHER -> {}]
  BY <1>2 DEF Encode
<1> QED BY <1>3 DEF TextsOf, NumberTexts, OrderOf

LEMMA EncodeValueEquation ==
    ASSUME WellFormed
    PROVE  EncodeValue = [i \in DOMAIN text |-> TextsOf(EncodeValue, i, "envelope")]
<1>1. PICK g : g = [i \in DOMAIN text |-> TextsOf(g, i, "envelope")]
  BY TextsExist
<1>2. g = [i \in DOMAIN text |->
    CASE text[i].is = "null"   -> Null
      [] text[i].is = "string" -> String(text[i].what)
      [] text[i].is = "number" -> JcsNumber(text[i].what)
      [] text[i].is = "array"  ->
           ArrayTexts([d \in DOMAIN ItemsOf(i) |-> g[ItemsOf(i)[d]]])
      [] text[i].is = "object" ->
           ObjectTexts([n \in DOMAIN MapOf(i) |-> g[MapOf(i)[n]]], "utf16")
      [] OTHER -> {}]
  BY <1>1 DEF TextsOf, NumberTexts, OrderOf
<1>3. EncodeValue = [i \in DOMAIN text |->
    CASE text[i].is = "null"   -> Null
      [] text[i].is = "string" -> String(text[i].what)
      [] text[i].is = "number" -> JcsNumber(text[i].what)
      [] text[i].is = "array"  ->
           ArrayTexts([d \in DOMAIN ItemsOf(i) |-> EncodeValue[ItemsOf(i)[d]]])
      [] text[i].is = "object" ->
           ObjectTexts([n \in DOMAIN MapOf(i) |-> EncodeValue[MapOf(i)[n]]], "utf16")
      [] OTHER -> {}]
  BY <1>2 DEF EncodeValue
<1> QED BY <1>3 DEF TextsOf, NumberTexts, OrderOf

(* The texts of a token by those of its parts. *)
LEMMA TextsEquations ==
    ASSUME WellFormed, NEW f \in Form, NEW i \in DOMAIN text
    PROVE  /\ text[i].is = "null" => Texts(f, i) = Null
           /\ text[i].is = "string" => Texts(f, i) = String(text[i].what)
           /\ text[i].is = "number" => Texts(f, i) = NumberTexts(f, text[i].what)
           /\ text[i].is = "array" =>
                Texts(f, i) = ArrayTexts([d \in DOMAIN ItemsOf(i) |-> Texts(f, ItemsOf(i)[d])])
           /\ text[i].is = "object" =>
                Texts(f, i) = ObjectTexts([n \in DOMAIN MapOf(i) |-> Texts(f, MapOf(i)[n])],
                                          OrderOf(f))
           /\ text[i].is \notin {"null", "string", "number", "array", "object"} =>
                Texts(f, i) = {}
<1>1. CASE f = "envelope"
  <2>1. EncodeValue[i] = TextsOf(EncodeValue, i, f)
    BY <1>1, EncodeValueEquation
  <2>2. \A j : Texts(f, j) = EncodeValue[j]
    BY <1>1 DEF Texts
  <2> QED BY <2>1, <2>2 DEF TextsOf
<1>2. CASE f # "envelope"
  <2>1. Encode[i] = TextsOf(Encode, i, f)
    <3>1. TextsOf(Encode, i, f) = TextsOf(Encode, i, "entry")
      BY <1>2 DEF TextsOf, NumberTexts, OrderOf
    <3> QED BY <3>1, EncodeEquation
  <2>2. \A j : Texts(f, j) = Encode[j]
    BY <1>2 DEF Texts
  <2> QED BY <2>1, <2>2 DEF TextsOf
<1> QED BY <1>1, <1>2

LEMMA FormTextsEquation ==
    ASSUME NEW f \in Form
    PROVE  FormTexts(f) =
             ObjectTexts([n \in DOMAIN MapOf(1) \ LeftOut(f) |-> Texts(f, MapOf(1)[n])],
                         OrderOf(f))
<1>1. CASE f = "entry"
  <2>1. FormTexts(f) = CanonicalizeForHash(TRUE) /\ LeftOut(f) = {EntryHashKey, SignatureKey}
    BY <1>1 DEF FormTexts, LeftOut
  <2> QED BY <1>1, <2>1 DEF CanonicalizeForHash, Kept, Texts, OrderOf
<1>2. CASE f = "legacy"
  <2>1. /\ FormTexts(f) = CanonicalizeForHash(FALSE)
        /\ LeftOut(f) = {EntryHashKey, SignatureKey, EngineVersionKey}
    BY <1>2 DEF FormTexts, LeftOut
  <2>2. Kept({EntryHashKey, SignatureKey} \cup {EngineVersionKey}) = DOMAIN MapOf(1) \ LeftOut(f)
    BY <2>1 DEF Kept
  <2> QED BY <1>2, <2>1, <2>2 DEF CanonicalizeForHash, Texts, OrderOf
<1>3. CASE f = "envelope"
  <2>1. FormTexts(f) = SignedBytes /\ LeftOut(f) = {SignatureKey}
    BY <1>3 DEF FormTexts, LeftOut
  <2> QED BY <1>3, <2>1 DEF SignedBytes, Kept, Texts, OrderOf
<1> QED BY <1>1, <1>2, <1>3 DEF Form

-----------------------------------------------------------------------------
(* One text at most. *)

AtMostOne(S) == \A u, v \in S : u = v

LEMMA OnePick ==
    ASSUME NEW sets, \A x \in DOMAIN sets : AtMostOne(sets[x])
    PROVE  AtMostOne(Picks(sets))
<1>1. SUFFICES ASSUME NEW c \in Picks(sets), NEW e \in Picks(sets) PROVE c = e
  BY DEF AtMostOne
<1>2. /\ c = [x \in DOMAIN sets |-> c[x]] /\ e = [x \in DOMAIN sets |-> e[x]]
      /\ \A x \in DOMAIN sets : c[x] \in sets[x] /\ e[x] \in sets[x]
  BY DEF Picks
<1>3. \A x \in DOMAIN sets : c[x] = e[x]
  BY <1>2 DEF AtMostOne
<1> QED BY <1>2, <1>3

LEMMA OneArray ==
    ASSUME NEW sets, \A x \in DOMAIN sets : AtMostOne(sets[x])
    PROVE  AtMostOne(ArrayTexts(sets))
<1>1. AtMostOne(Picks(sets))
  BY OnePick
<1> QED BY <1>1 DEF ArrayTexts, AtMostOne

LEMMA OneObjectText ==
    ASSUME NEW sets, \A x \in DOMAIN sets : AtMostOne(sets[x]), NEW order \in Order,
           DOMAIN sets \in SUBSET Names, IsFiniteSet(DOMAIN sets)
    PROVE  AtMostOne(ObjectTexts(sets, order))
<1>1. AtMostOne(Picks(sets)) /\ AtMostOne(Sorted(DOMAIN sets, order))
  BY OnePick, SortedIsUnique DEF AtMostOne
<1>2. SUFFICES ASSUME NEW u \in ObjectTexts(sets, order), NEW v \in ObjectTexts(sets, order)
               PROVE  u = v
  BY DEF AtMostOne
<1> DEFINE Obj(s, c) == [is      |-> "object",
                         members |-> [d \in DOMAIN s |-> [name |-> s[d], value |-> c[s[d]]]]]
<1>3. ObjectTexts(sets, order) = {Obj(s, c) : s \in Sorted(DOMAIN sets, order), c \in Picks(sets)}
  BY DEF ObjectTexts
<1> HIDE DEF Obj
<1>4. PICK s \in Sorted(DOMAIN sets, order) : \E c \in Picks(sets) : u = Obj(s, c)
  BY <1>3
<1>5. PICK c \in Picks(sets) : u = Obj(s, c)
  BY <1>4
<1>6. PICK t \in Sorted(DOMAIN sets, order) : \E e \in Picks(sets) : v = Obj(t, e)
  BY <1>3
<1>7. PICK e \in Picks(sets) : v = Obj(t, e)
  BY <1>6
<1>8. s = t /\ c = e
  BY <1>1 DEF AtMostOne
<1> QED BY <1>5, <1>7, <1>8

LEMMA OrderOfTypes == \A f : OrderOf(f) \in Order
BY DEF OrderOf, Order

LEMMA OneText ==
    ASSUME WellFormed, NEW f \in Form, NEW i \in DOMAIN text
    PROVE  AtMostOne(Texts(f, i))
<1>1. PICK L \in Nat : L = Len(text) /\ DOMAIN text = 1..L
  BY WellFormedText
<1> DEFINE Good == {k \in 1..L : AtMostOne(Texts(f, k))}
<1>2. ASSUME NEW k \in 1..L, \A j \in 1..L : k < j => j \in Good PROVE k \in Good
  <2>1. \A j \in DOMAIN text : k < j => AtMostOne(Texts(f, j))
    BY <1>1, <1>2
  <2>2. k \in DOMAIN text
    BY <1>1
  <2>3. CASE text[k].is = "array"
    <3> DEFINE sets == [d \in DOMAIN ItemsOf(k) |-> Texts(f, ItemsOf(k)[d])]
    <3>1. \A x \in DOMAIN sets : AtMostOne(sets[x])
      BY <2>1, <2>2, ItemsFacts
    <3>2. Texts(f, k) = ArrayTexts(sets)
      BY <2>2, <2>3, TextsEquations
    <3> HIDE DEF sets
    <3> QED BY <3>1, <3>2, OneArray
  <2>4. CASE text[k].is = "object"
    <3> DEFINE sets == [n \in DOMAIN MapOf(k) |-> Texts(f, MapOf(k)[n])]
    <3>1. \A x \in DOMAIN sets : AtMostOne(sets[x])
      BY <2>1, <2>2, MembersAreLater
    <3>2. Texts(f, k) = ObjectTexts(sets, OrderOf(f))
      BY <2>2, <2>4, TextsEquations
    <3>3. DOMAIN sets \in SUBSET Names /\ IsFiniteSet(DOMAIN sets)
      BY <2>2, MapFacts
    <3> HIDE DEF sets
    <3> QED BY <3>1, <3>2, <3>3, OneObjectText, OrderOfTypes
  <2>5. CASE text[k].is \notin {"array", "object"}
    <3>1. \/ Texts(f, k) = Null \/ Texts(f, k) = String(text[k].what)
          \/ Texts(f, k) = NumberTexts(f, text[k].what) \/ Texts(f, k) = {}
      BY <2>2, <2>5, TextsEquations
    <3> QED BY <3>1 DEF Null, String, NumberTexts, ChainNumber, JcsNumber, Number, AtMostOne
  <2> QED BY <2>3, <2>4, <2>5
<1>3. 1..L \subseteq Good
  <2> HIDE DEF Good
  <2> QED BY <1>2, DownwardInduction
<1> QED BY <1>1, <1>3

LEMMA OneFormText ==
    ASSUME WellFormed, NEW f \in Form
    PROVE  AtMostOne(FormTexts(f))
<1> DEFINE sets == [n \in DOMAIN MapOf(1) \ LeftOut(f) |-> Texts(f, MapOf(1)[n])]
<1>1. FormTexts(f) = ObjectTexts(sets, OrderOf(f))
  BY FormTextsEquation
<1>2. 1 \in DOMAIN text
  BY WellFormedText
<1>3. \A x \in DOMAIN sets : AtMostOne(sets[x])
  BY <1>2, MembersAreLater, OneText
<1>4. DOMAIN sets \in SUBSET Names /\ IsFiniteSet(DOMAIN sets)
  BY <1>2, MapFacts, FS_Subset
<1> HIDE DEF sets
<1> QED BY <1>1, <1>3, <1>4, OneObjectText, OrderOfTypes

(***************************************************************************)
(* One object has one canonical text: the sorts of canonical.encode and    *)
(* jcs.encodeObject leave nothing to the order in which Go walks a map.    *)
(***************************************************************************)
THEOREM OneTextTheorem == Spec => []OneCanonicalText
<1>1. ASSUME Inv, Structure PROVE OneCanonicalText
  <2>1. SUFFICES ASSUME OneObject, NEW f \in Form PROVE Cardinality(FormTexts(f)) <= 1
    BY DEF OneCanonicalText
  <2>2. AtMostOne(FormTexts(f))
    BY <1>1, <2>1, EndIsWellFormed, OneFormText
  <2>3. CASE FormTexts(f) = {}
    BY <2>3, FS_EmptySet
  <2>4. CASE FormTexts(f) # {}
    <3>1. PICK v : FormTexts(f) = {v}
      BY <2>2, <2>4 DEF AtMostOne
    <3> QED BY <3>1, FS_Singleton
  <2> QED BY <2>3, <2>4
<1> QED BY <1>1, InvariantsHold, PTL

-----------------------------------------------------------------------------
(* What a text looks like from outside. *)
LEMMA ObjectTextFacts ==
    ASSUME NEW sets, NEW order, DOMAIN sets \in SUBSET Names, IsFiniteSet(DOMAIN sets),
           NEW v \in ObjectTexts(sets, order)
    PROVE  /\ v.is = "object"
           /\ \E s \in Sorted(DOMAIN sets, order) :
                /\ DOMAIN v.members = DOMAIN s
                /\ \A d \in DOMAIN s :
                     /\ s[d] \in DOMAIN sets
                     /\ v.members[d].name = s[d] /\ v.members[d].value \in sets[s[d]]
                /\ \A n \in DOMAIN sets : \E d \in DOMAIN s : s[d] = n
<1>1. PICK s \in Sorted(DOMAIN sets, order) :
        \E c \in Picks(sets) :
          v = [is      |-> "object",
               members |-> [d \in DOMAIN s |-> [name |-> s[d], value |-> c[s[d]]]]]
  BY DEF ObjectTexts
<1>2. PICK c \in Picks(sets) :
          v = [is      |-> "object",
               members |-> [d \in DOMAIN s |-> [name |-> s[d], value |-> c[s[d]]]]]
  BY <1>1
<1>3. /\ s \in Seq(DOMAIN sets) /\ DOMAIN s = 1..Len(s)
      /\ \A n \in DOMAIN sets : \E d \in 1..Len(s) : s[d] = n
  BY ArrangementTypes DEF Sorted
<1>4. \A x \in DOMAIN sets : c[x] \in sets[x]
  BY DEF Picks
<1>5. /\ v.is = "object" /\ DOMAIN v.members = DOMAIN s
      /\ \A d \in DOMAIN s : v.members[d].name = s[d] /\ v.members[d].value = c[s[d]]
  BY <1>2
<1>6. \A d \in DOMAIN s : s[d] \in DOMAIN sets
  BY <1>3
<1>7. \A d \in DOMAIN s : v.members[d].value \in sets[s[d]]
  BY <1>4, <1>5, <1>6
<1> QED BY <1>3, <1>5, <1>6, <1>7

LEMMA ArrayTextFacts ==
    ASSUME NEW sets, NEW v \in ArrayTexts(sets)
    PROVE  /\ v.is = "array" /\ DOMAIN v.items = DOMAIN sets
           /\ v.items = [d \in DOMAIN sets |-> v.items[d]]
           /\ \A d \in DOMAIN sets : v.items[d] \in sets[d]
<1>1. PICK c \in Picks(sets) : v = [is |-> "array", items |-> c]
  BY DEF ArrayTexts
<1>2. c = [x \in DOMAIN sets |-> c[x]] /\ \A x \in DOMAIN sets : c[x] \in sets[x]
  BY DEF Picks
<1> QED BY <1>1, <1>2

LEMMA FormMembers ==
    ASSUME WellFormed, NEW f \in Form, NEW t \in FormTexts(f)
    PROVE  /\ t.is = "object"
           /\ \E s \in Sorted(DOMAIN MapOf(1) \ LeftOut(f), OrderOf(f)) :
                /\ DOMAIN t.members = DOMAIN s
                /\ \A d \in DOMAIN s :
                     /\ s[d] \in DOMAIN MapOf(1) \ LeftOut(f)
                     /\ t.members[d].name = s[d]
                     /\ t.members[d].value \in Texts(f, MapOf(1)[s[d]])
                /\ \A n \in DOMAIN MapOf(1) \ LeftOut(f) : \E d \in DOMAIN s : s[d] = n
<1> DEFINE sets == [n \in DOMAIN MapOf(1) \ LeftOut(f) |-> Texts(f, MapOf(1)[n])]
<1>1. FormTexts(f) = ObjectTexts(sets, OrderOf(f))
  BY FormTextsEquation
<1>2. DOMAIN MapOf(1) \in SUBSET Names /\ IsFiniteSet(DOMAIN MapOf(1))
  BY WellFormedText, MapFacts
<1>3. DOMAIN sets = DOMAIN MapOf(1) \ LeftOut(f)
  OBVIOUS
<1>4. DOMAIN sets \in SUBSET Names /\ IsFiniteSet(DOMAIN sets)
  BY <1>2, <1>3, FS_Subset
<1>5. \A n \in DOMAIN sets : sets[n] = Texts(f, MapOf(1)[n])
  OBVIOUS
<1> HIDE DEF sets
<1>6. /\ t.is = "object"
      /\ \E s \in Sorted(DOMAIN sets, OrderOf(f)) :
           /\ DOMAIN t.members = DOMAIN s
           /\ \A d \in DOMAIN s :
                /\ s[d] \in DOMAIN sets
                /\ t.members[d].name = s[d] /\ t.members[d].value \in sets[s[d]]
           /\ \A n \in DOMAIN sets : \E d \in DOMAIN s : s[d] = n
  BY <1>1, <1>4, ObjectTextFacts
<1> QED BY <1>3, <1>5, <1>6

LEMMA TextMembers ==
    ASSUME WellFormed, NEW f \in Form, NEW i \in DOMAIN text, text[i].is = "object",
           NEW v \in Texts(f, i)
    PROVE  /\ v.is = "object"
           /\ \E s \in Sorted(DOMAIN MapOf(i), OrderOf(f)) :
                /\ DOMAIN v.members = DOMAIN s
                /\ \A d \in DOMAIN s :
                     /\ s[d] \in DOMAIN MapOf(i)
                     /\ v.members[d].name = s[d]
                     /\ v.members[d].value \in Texts(f, MapOf(i)[s[d]])
                /\ \A n \in DOMAIN MapOf(i) : \E d \in DOMAIN s : s[d] = n
<1> DEFINE sets == [n \in DOMAIN MapOf(i) |-> Texts(f, MapOf(i)[n])]
<1>1. Texts(f, i) = ObjectTexts(sets, OrderOf(f))
  BY TextsEquations
<1>2. DOMAIN sets = DOMAIN MapOf(i) /\ DOMAIN sets \in SUBSET Names /\ IsFiniteSet(DOMAIN sets)
  BY MapFacts
<1>3. \A n \in DOMAIN sets : sets[n] = Texts(f, MapOf(i)[n])
  OBVIOUS
<1> HIDE DEF sets
<1>4. /\ v.is = "object"
      /\ \E s \in Sorted(DOMAIN sets, OrderOf(f)) :
           /\ DOMAIN v.members = DOMAIN s
           /\ \A d \in DOMAIN s :
                /\ s[d] \in DOMAIN sets
                /\ v.members[d].name = s[d] /\ v.members[d].value \in sets[s[d]]
           /\ \A n \in DOMAIN sets : \E d \in DOMAIN s : s[d] = n
  BY <1>1, <1>2, ObjectTextFacts
<1> QED BY <1>2, <1>3, <1>4

LEMMA TextItems ==
    ASSUME WellFormed, NEW f \in Form, NEW i \in DOMAIN text, text[i].is = "array",
           NEW v \in Texts(f, i)
    PROVE  /\ v.is = "array" /\ DOMAIN v.items = DOMAIN ItemsOf(i)
           /\ \A d \in DOMAIN ItemsOf(i) : v.items[d] \in Texts(f, ItemsOf(i)[d])
<1> DEFINE sets == [d \in DOMAIN ItemsOf(i) |-> Texts(f, ItemsOf(i)[d])]
<1>1. Texts(f, i) = ArrayTexts(sets)
  BY TextsEquations
<1>2. DOMAIN sets = DOMAIN ItemsOf(i) /\ \A d \in DOMAIN sets : sets[d] = Texts(f, ItemsOf(i)[d])
  OBVIOUS
<1> HIDE DEF sets
<1>3. /\ v.is = "array" /\ DOMAIN v.items = DOMAIN sets
      /\ \A d \in DOMAIN sets : v.items[d] \in sets[d]
  BY <1>1, ArrayTextFacts
<1> QED BY <1>2, <1>3

LEMMA TextScalars ==
    ASSUME WellFormed, NEW f \in Form, NEW i \in DOMAIN text,
           text[i].is \notin {"array", "object"}, NEW v \in Texts(f, i)
    PROVE  /\ v.is \notin {"array", "object"} /\ Components(v) = {}
           /\ text[i].is \in {"null", "string", "number"} /\ v.is = text[i].is
           /\ v.is = "string" => v.name = Unquote[text[i].what]
           /\ v.is = "number" => v \in NumberTexts(f, text[i].what)
<1>1. /\ text[i].is \in {"null", "string", "number"}
      /\ text[i].is = "null" => v \in Null
      /\ text[i].is = "string" => v \in String(text[i].what)
      /\ text[i].is = "number" => v \in NumberTexts(f, text[i].what)
  BY TextsEquations
<1>2. /\ v.is = text[i].is
      /\ v.is = "string" => v.name = Unquote[text[i].what]
  BY <1>1 DEF Null, String, NumberTexts, ChainNumber, JcsNumber, Number
<1> QED BY <1>1, <1>2 DEF Components

-----------------------------------------------------------------------------
LEMMA ComponentsAreLater ==
    ASSUME WellFormed, NEW f \in Form, NEW i \in DOMAIN text, NEW v \in Texts(f, i),
           NEW c \in Components(v)
    PROVE  \E k \in DOMAIN text : i < k /\ c \in Texts(f, k)
<1>1. CASE text[i].is = "array"
  <2>1. /\ v.is = "array" /\ DOMAIN v.items = DOMAIN ItemsOf(i)
        /\ \A d \in DOMAIN ItemsOf(i) : v.items[d] \in Texts(f, ItemsOf(i)[d])
    BY <1>1, TextItems
  <2>2. PICK d \in DOMAIN ItemsOf(i) : c = v.items[d]
    BY <2>1 DEF Components, Range
  <2> QED BY <2>1, <2>2, ItemsFacts
<1>2. CASE text[i].is = "object"
  <2>1. v.is = "object"
    BY <1>2, TextMembers
  <2>2. PICK s : /\ DOMAIN v.members = DOMAIN s
                 /\ \A d \in DOMAIN s :
                      s[d] \in DOMAIN MapOf(i) /\ v.members[d].value \in Texts(f, MapOf(i)[s[d]])
    BY <1>2, TextMembers
  <2>3. PICK d \in DOMAIN s : c = v.members[d].value
    BY <2>1, <2>2 DEF Components, Range
  <2> QED BY <2>2, <2>3, MembersAreLater
<1>3. CASE text[i].is \notin {"array", "object"}
  BY <1>3, TextScalars
<1> QED BY <1>1, <1>2, <1>3

LEMMA FormComponents ==
    ASSUME WellFormed, NEW f \in Form, NEW t \in FormTexts(f), NEW c \in Components(t)
    PROVE  \E k \in DOMAIN text : 1 < k /\ c \in Texts(f, k)
<1>1. t.is = "object"
  BY FormMembers
<1>2. PICK s : /\ DOMAIN t.members = DOMAIN s
               /\ \A d \in DOMAIN s :
                    s[d] \in DOMAIN MapOf(1) /\ t.members[d].value \in Texts(f, MapOf(1)[s[d]])
  BY FormMembers
<1>3. PICK d \in DOMAIN s : c = t.members[d].value
  BY <1>1, <1>2 DEF Components, Range
<1> QED BY <1>2, <1>3, MembersAreLater, WellFormedText

-----------------------------------------------------------------------------
(* The parts by depth. *)

DepthStep(u, n, t) == IF n = 0 THEN {t} ELSE UNION {Components(v) : v \in u[n - 1]}

LEMMA DepthsExist ==
    ASSUME NEW L \in Nat, NEW t
    PROVE  \E u : u = [n \in 0..L |-> DepthStep(u, n, t)]
<1> DEFINE Solves(u, m) == /\ u = [n \in 0..L |-> u[n]]
                           /\ \A n \in 0..L : n <= m => u[n] = DepthStep(u, n, t)
           Good == {m \in Nat : \E u : Solves(u, m)}
<1>1. 0 \in Good
  <2>1. Solves([n \in 0..L |-> {t}], 0)
    BY DEF DepthStep
  <2> HIDE DEF Solves
  <2> QED BY <2>1
<1>2. ASSUME NEW m \in 1..L, m - 1 \in Good PROVE m \in Good
  <2>1. PICK u : Solves(u, m - 1)
    BY <1>2
  <2> DEFINE w == [n \in 0..L |-> IF n = m THEN DepthStep(u, m, t) ELSE u[n]]
  <2>2. /\ w = [n \in 0..L |-> w[n]] /\ w[m] = DepthStep(u, m, t)
        /\ \A n \in 0..L : n # m => w[n] = u[n]
    BY <2>1
  <2> HIDE DEF w
  <2>3. ASSUME NEW n \in 0..L, n <= m PROVE DepthStep(w, n, t) = DepthStep(u, n, t)
    <3>1. n # 0 => n - 1 \in 0..L /\ n - 1 # m
      BY <2>3
    <3> QED BY <3>1, <2>2 DEF DepthStep
  <2>4. ASSUME NEW n \in 0..L, n <= m PROVE w[n] = DepthStep(w, n, t)
    <3>1. CASE n = m
      BY <3>1, <2>2, <2>3
    <3>2. CASE n # m
      <4>1. u[n] = DepthStep(u, n, t)
        BY <3>2, <2>1, <2>4
      <4> QED BY <4>1, <3>2, <2>2, <2>3, <2>4
    <3> QED BY <3>1, <3>2
  <2>5. Solves(w, m)
    BY <2>2, <2>4
  <2> HIDE DEF Solves
  <2> QED BY <2>5
<1>3. L \in Good
  <2> HIDE DEF Good
  <2>1. 0..L \subseteq Good
    BY <1>1, <1>2, UpwardInduction
  <2> QED BY <2>1
<1>4. PICK u : Solves(u, L)
  BY <1>3
<1>5. u = [n \in 0..L |-> DepthStep(u, n, t)]
  BY <1>4
<1> QED BY <1>5

LEMMA PartsEquation ==
    ASSUME WellFormed, NEW t
    PROVE  \E u : /\ u = [n \in 0..Len(text) |-> DepthStep(u, n, t)]
                  /\ \A v : v \in Parts(t) <=> \E n \in 0..Len(text) : v \in u[n]
<1> DEFINE AtDepth[n \in 0..Len(text)] ==
             IF n = 0 THEN {t} ELSE UNION {Components(v) : v \in AtDepth[n - 1]}
<1>1. Parts(t) = UNION {AtDepth[n] : n \in DOMAIN text \cup {0}}
  BY DEF Parts
<1>2. \E u : u = [n \in 0..Len(text) |->
                   IF n = 0 THEN {t} ELSE UNION {Components(v) : v \in u[n - 1]}]
  <2>1. PICK u : u = [n \in 0..Len(text) |-> DepthStep(u, n, t)]
    BY DepthsExist, WellFormedText
  <2>2. u = [n \in 0..Len(text) |->
               IF n = 0 THEN {t} ELSE UNION {Components(v) : v \in u[n - 1]}]
    BY <2>1 DEF DepthStep
  <2> QED BY <2>2
<1>3. AtDepth = [n \in 0..Len(text) |->
                   IF n = 0 THEN {t} ELSE UNION {Components(v) : v \in AtDepth[n - 1]}]
  BY <1>2
<1> HIDE DEF AtDepth
<1>4. AtDepth = [n \in 0..Len(text) |-> DepthStep(AtDepth, n, t)]
  BY <1>3 DEF DepthStep
<1>5. \A n : n \in DOMAIN text \cup {0} <=> n \in 0..Len(text)
  BY WellFormedText
<1>6. \A v : v \in Parts(t) <=> \E n \in 0..Len(text) : v \in AtDepth[n]
  BY <1>1, <1>5
<1> QED BY <1>4, <1>6

LEMMA PartsFacts ==
    ASSUME WellFormed, NEW f \in Form, NEW t \in FormTexts(f)
    PROVE  /\ t \in Parts(t)
           /\ \A v \in Parts(t) : v = t \/ \E k \in DOMAIN text : v \in Texts(f, k)
           /\ \A v \in Parts(t) : Components(v) \subseteq Parts(t)
<1>1. PICK L \in Nat : L = Len(text) /\ DOMAIN text = 1..L /\ 1 \in 1..L
  BY WellFormedText
<1>2. PICK u : /\ u = [n \in 0..L |-> DepthStep(u, n, t)]
               /\ \A v : v \in Parts(t) <=> \E n \in 0..L : v \in u[n]
  BY <1>1, PartsEquation
<1>3. u[0] = {t} /\ \A n \in 1..L : u[n] = UNION {Components(v) : v \in u[n - 1]}
  <2>1. \A n \in 0..L : u[n] = DepthStep(u, n, t)
    BY <1>2
  <2>2. u[0] = {t}
    <3>1. u[0] = DepthStep(u, 0, t)
      BY <2>1, <1>1
    <3> QED BY <3>1 DEF DepthStep
  <2>3. ASSUME NEW n \in 1..L PROVE u[n] = UNION {Components(v) : v \in u[n - 1]}
    <3>1. n \in 0..L /\ n # 0
      OBVIOUS
    <3>2. u[n] = DepthStep(u, n, t)
      BY <2>1, <3>1
    <3> QED BY <3>1, <3>2 DEF DepthStep
  <2> QED BY <2>2, <2>3
<1> DEFINE Deep(n, v) == \E k \in 1..L : n < k /\ v \in Texts(f, k)
           Good == {n \in 0..L : n # 0 => \A v \in u[n] : Deep(n, v)}
<1>4. 0 \in Good
  OBVIOUS
<1>5. ASSUME NEW n \in 1..L, n - 1 \in Good PROVE n \in Good
  <2>1. SUFFICES ASSUME NEW c \in u[n] PROVE Deep(n, c)
    OBVIOUS
  <2>2. PICK v \in u[n - 1] : c \in Components(v)
    BY <1>3, <2>1
  <2>3. CASE n = 1
    <3>1. v = t
      BY <1>3, <2>2, <2>3
    <3>2. PICK k \in DOMAIN text : 1 < k /\ c \in Texts(f, k)
      BY <2>2, <3>1, FormComponents
    <3> QED BY <1>1, <2>3, <3>2
  <2>4. CASE n # 1
    <3>1. PICK h \in 1..L : n - 1 < h /\ v \in Texts(f, h)
      BY <1>5, <2>2, <2>4
    <3>2. PICK k \in DOMAIN text : h < k /\ c \in Texts(f, k)
      BY <1>1, <2>2, <3>1, ComponentsAreLater
    <3>3. n < k
      BY <1>1, <3>1, <3>2
    <3> QED BY <1>1, <3>2, <3>3
  <2> QED BY <2>3, <2>4
<1>6. \A n \in 1..L : \A v \in u[n] : Deep(n, v)
  <2>1. 0..L \subseteq Good
    <3> HIDE DEF Good
    <3> QED BY <1>4, <1>5, UpwardInduction
  <2> QED BY <2>1
<1>7. t \in Parts(t)
  BY <1>2, <1>3
<1>8. ASSUME NEW v \in Parts(t) PROVE v = t \/ \E k \in DOMAIN text : v \in Texts(f, k)
  <2>1. PICK n \in 0..L : v \in u[n]
    BY <1>2
  <2> QED BY <2>1, <1>1, <1>3, <1>6
<1>9. ASSUME NEW v \in Parts(t), NEW c \in Components(v) PROVE c \in Parts(t)
  <2>1. PICK n \in 0..L : v \in u[n]
    BY <1>2
  <2>2. n # L
    <3>1. SUFFICES ASSUME n = L PROVE FALSE
      OBVIOUS
    <3>2. n \in 1..L
      BY <3>1, <1>1
    <3>3. PICK k \in 1..L : n < k
      BY <2>1, <3>2, <1>6
    <3> QED BY <3>1, <3>3
  <2>3. PICK m \in 1..L : m = n + 1
    BY <2>1, <2>2
  <2>4. m - 1 = n
    BY <2>3
  <2>5. c \in u[m]
    BY <1>3, <2>1, <2>3, <2>4
  <2>6. m \in 0..L
    BY <2>3
  <2> QED BY <1>2, <2>5, <2>6
<1> QED BY <1>7, <1>8, <1>9

-----------------------------------------------------------------------------
(* Order of the members. *)

LEMMA ObjectParts ==
    ASSUME WellFormed, NEW f \in Form, NEW t \in FormTexts(f), NEW v \in Parts(t),
           v.is = "object"
    PROVE  \E S \in SUBSET Names : \E s \in Sorted(S, OrderOf(f)) :
             /\ IsFiniteSet(S) /\ DOMAIN v.members = DOMAIN s
             /\ \A d \in DOMAIN s : v.members[d].name = s[d]
<1>1. DOMAIN MapOf(1) \in SUBSET Names /\ IsFiniteSet(DOMAIN MapOf(1))
  BY WellFormedText, MapFacts
<1>2. CASE v = t
  <2> DEFINE S == DOMAIN MapOf(1) \ LeftOut(f)
  <2>1. S \in SUBSET Names /\ IsFiniteSet(S)
    BY <1>1, FS_Subset
  <2>2. \E s \in Sorted(S, OrderOf(f)) :
          DOMAIN t.members = DOMAIN s /\ \A d \in DOMAIN s : t.members[d].name = s[d]
    BY FormMembers
  <2> HIDE DEF S
  <2> QED BY <1>2, <2>1, <2>2
<1>3. ASSUME NEW k \in DOMAIN text, v \in Texts(f, k)
      PROVE  \E S \in SUBSET Names : \E s \in Sorted(S, OrderOf(f)) :
               /\ IsFiniteSet(S) /\ DOMAIN v.members = DOMAIN s
               /\ \A d \in DOMAIN s : v.members[d].name = s[d]
  <2>1. text[k].is = "object"
    <3>1. text[k].is = "array" => v.is = "array"
      BY <1>3, TextItems
    <3> QED BY <3>1, <1>3, TextScalars
  <2>2. \E s \in Sorted(DOMAIN MapOf(k), OrderOf(f)) :
          DOMAIN v.members = DOMAIN s /\ \A d \in DOMAIN s : v.members[d].name = s[d]
    BY <1>3, <2>1, TextMembers
  <2>3. DOMAIN MapOf(k) \in SUBSET Names /\ IsFiniteSet(DOMAIN MapOf(k))
    BY MapFacts
  <2> QED BY <2>2, <2>3
<1> QED BY <1>2, <1>3, PartsFacts

LEMMA FormInOrder ==
    ASSUME WellFormed, NEW f \in Form, NEW t \in FormTexts(f)
    PROVE  InOrder(t, OrderOf(f))
<1>1. SUFFICES ASSUME NEW m \in ObjectsIn(t), NEW d \in DOMAIN m, NEW e \in DOMAIN m, d < e
               PROVE  Before(OrderOf(f), m[d].name, m[e].name)
  BY DEF InOrder
<1>2. PICK v \in Parts(t) : v.is = "object" /\ m = v.members
  BY DEF ObjectsIn
<1>3. PICK S \in SUBSET Names : \E s \in Sorted(S, OrderOf(f)) :
             /\ IsFiniteSet(S) /\ DOMAIN v.members = DOMAIN s
             /\ \A x \in DOMAIN s : v.members[x].name = s[x]
  BY <1>2, ObjectParts
<1>4. PICK s \in Sorted(S, OrderOf(f)) :
             /\ IsFiniteSet(S) /\ DOMAIN v.members = DOMAIN s
             /\ \A x \in DOMAIN s : v.members[x].name = s[x]
  BY <1>3
<1>5. Before(OrderOf(f), s[d], s[e])
  BY <1>1, <1>2, <1>4, OrderOfTypes, SortedInOrder
<1> QED BY <1>1, <1>2, <1>4, <1>5

LEMMA WrittenTexts ==
    ASSUME Inv, Structure, WrittenInv, NEW f \in Form, Written(f)
    PROVE  WellFormed /\ written[f] \in FormTexts(f)
<1>1. written[f] # Unwritten /\ written[f] # Refused
  BY DEF Written
<1>2. OneObject /\ written[f] \in FormTexts(f)
  BY <1>1 DEF WrittenInv
<1> QED BY <1>2, EndIsWellFormed

(***************************************************************************)
(* At every depth the members of an entry are in the order of their code   *)
(* points, and those of an envelope in that of JavaScript (canonical.go    *)
(* encode, jcs.go lessUTF16).                                              *)
(***************************************************************************)
THEOREM OrderTheorem == Spec => []MembersAreInOrder
<1>1. ASSUME Inv, Structure, WrittenInv PROVE MembersAreInOrder
  <2>1. ASSUME NEW f \in Form, Written(f) PROVE InOrder(written[f], OrderOf(f))
    BY <1>1, <2>1, WrittenTexts, FormInOrder
  <2>2. "entry" \in Form /\ "legacy" \in Form /\ "envelope" \in Form
    BY Entries
  <2>3. OrderOf("entry") = "utf8" /\ OrderOf("legacy") = "utf8" /\ OrderOf("envelope") = "utf16"
    BY DEF OrderOf
  <2> QED BY <2>1, <2>2, <2>3 DEF MembersAreInOrder
<1> QED BY <1>1, InvariantsHold, PTL

-----------------------------------------------------------------------------
(* When nothing can be written. *)

LEMMA PickExists ==
    ASSUME NEW sets, \A x \in DOMAIN sets : sets[x] # {}
    PROVE  Picks(sets) # {}
<1> DEFINE c == [x \in DOMAIN sets |-> CHOOSE y \in sets[x] : TRUE]
<1>1. \A x \in DOMAIN sets : c[x] \in sets[x]
  OBVIOUS
<1>2. c \in [DOMAIN sets -> UNION {sets[x] : x \in DOMAIN sets}]
  BY <1>1
<1> HIDE DEF c
<1> QED BY <1>1, <1>2 DEF Picks

LEMMA NoPick ==
    ASSUME NEW sets, NEW x \in DOMAIN sets, sets[x] = {}
    PROVE  Picks(sets) = {}
BY DEF Picks

LEMMA ArrayFails ==
    ASSUME NEW sets
    PROVE  ArrayTexts(sets) = {} <=> \E x \in DOMAIN sets : sets[x] = {}
<1>1. ArrayTexts(sets) = {} <=> Picks(sets) = {}
  BY DEF ArrayTexts
<1> QED BY <1>1, PickExists, NoPick

LEMMA ObjectFails ==
    ASSUME NEW sets, NEW order \in Order, DOMAIN sets \in SUBSET Names, IsFiniteSet(DOMAIN sets)
    PROVE  ObjectTexts(sets, order) = {} <=> \E x \in DOMAIN sets : sets[x] = {}
<1>1. Sorted(DOMAIN sets, order) # {}
  BY SortedExists
<1>2. ObjectTexts(sets, order) = {} <=> Picks(sets) = {}
  <2> DEFINE Obj(s, c) ==
               [is      |-> "object",
                members |-> [d \in DOMAIN s |-> [name |-> s[d], value |-> c[s[d]]]]]
  <2>1. ObjectTexts(sets, order) =
          {Obj(s, c) : s \in Sorted(DOMAIN sets, order), c \in Picks(sets)}
    BY DEF ObjectTexts
  <2> HIDE DEF Obj
  <2>2. PICK s : s \in Sorted(DOMAIN sets, order)
    BY <1>1
  <2>3. \A c \in Picks(sets) : Obj(s, c) \in ObjectTexts(sets, order)
    BY <2>1, <2>2
  <2>4. \A v \in ObjectTexts(sets, order) : \E c : c \in Picks(sets)
    BY <2>1
  <2> QED BY <2>3, <2>4
<1> QED BY <1>2, PickExists, NoPick

Fails(f, i) == Texts(f, i) = {}

LEMMA NumberFails ==
    ASSUME WellFormed, NEW f \in Form, NEW i \in DOMAIN text, text[i].is = "number"
    PROVE  Fails(f, i) <=> IF f = "envelope"
                             THEN Decimal(text[i].what).point > 309
                             ELSE text[i].what.frac # <<>> \/ text[i].what.exp # NoExponent
<1>1. Texts(f, i) = NumberTexts(f, text[i].what)
  BY TextsEquations
<1>2. \A n : Number(n) # {}
  BY DEF Number
<1> QED BY <1>1, <1>2 DEF Fails, NumberTexts, ChainNumber, JcsNumber, Overflows, IsIntegerLiteral

LEMMA ItemFails ==
    ASSUME WellFormed, NEW f \in Form, NEW i \in DOMAIN text, text[i].is = "array"
    PROVE  /\ \A k \in DOMAIN text : text[k].in = i /\ IsValue(k) /\ Fails(f, k) => Fails(f, i)
           /\ Fails(f, i) => \E k \in DOMAIN text : text[k].in = i /\ IsValue(k) /\ Fails(f, k)
<1> DEFINE sets == [d \in DOMAIN ItemsOf(i) |-> Texts(f, ItemsOf(i)[d])]
<1>1. Fails(f, i) <=> \E d \in DOMAIN sets : sets[d] = {}
  <2>1. Texts(f, i) = ArrayTexts(sets)
    BY TextsEquations
  <2> HIDE DEF sets
  <2> QED BY <2>1, ArrayFails DEF Fails
<1>2. DOMAIN sets = DOMAIN ItemsOf(i) /\ \A d \in DOMAIN sets : sets[d] = Texts(f, ItemsOf(i)[d])
  OBVIOUS
<1> HIDE DEF sets
<1>3. ASSUME NEW k \in DOMAIN text, text[k].in = i, IsValue(k), Fails(f, k)
      PROVE  Fails(f, i)
  <2>1. IsItem(k, i)
    BY <1>3 DEF IsItem, IsValue
  <2>2. PICK d \in DOMAIN ItemsOf(i) : ItemsOf(i)[d] = k
    BY <2>1, ItemsFacts
  <2> QED BY <1>1, <1>2, <1>3, <2>2 DEF Fails
<1>4. ASSUME Fails(f, i)
      PROVE  \E k \in DOMAIN text : text[k].in = i /\ IsValue(k) /\ Fails(f, k)
  <2>1. PICK d \in DOMAIN ItemsOf(i) : Fails(f, ItemsOf(i)[d])
    BY <1>1, <1>2, <1>4 DEF Fails
  <2>2. PICK k \in DOMAIN text : k = ItemsOf(i)[d] /\ IsItem(k, i)
    BY <2>1, ItemsFacts
  <2>3. text[k].is # "key"
    <3>1. WellPlaced(k) /\ text[k].in = i
      BY <2>2 DEF WellFormed, IsItem
    <3> QED BY <3>1 DEF WellPlaced
  <2> QED BY <2>1, <2>2, <2>3 DEF IsItem, IsValue
<1> QED BY <1>3, <1>4

(* The value k of the object i, and its key before it. *)
LEMMA ValueFacts ==
    ASSUME WellFormed, NEW i \in DOMAIN text, text[i].is = "object",
           NEW k \in DOMAIN text, text[k].in = i, IsValue(k)
    PROVE  \E j \in KeysOf(i) : j + 1 = k
<1>1. WellPlaced(k) /\ i # 0
  BY WellFormedText DEF WellFormed
<1>2. k # 1 /\ text[k - 1].is = "key" /\ text[k - 1].in = i
  BY <1>1 DEF WellPlaced
<1>3. k - 1 \in DOMAIN text /\ (k - 1) + 1 = k
  BY <1>2, WellFormedText
<1> QED BY <1>2, <1>3 DEF KeysOf

LEMMA MemberFails ==
    ASSUME WellFormed, NEW f \in Form, NEW i \in DOMAIN text, text[i].is = "object"
    PROVE  /\ \A k \in DOMAIN text : text[k].in = i /\ IsValue(k) /\ Fails(f, k) => Fails(f, i)
           /\ Fails(f, i) => \E k \in DOMAIN text : text[k].in = i /\ IsValue(k) /\ Fails(f, k)
<1> DEFINE sets == [n \in DOMAIN MapOf(i) |-> Texts(f, MapOf(i)[n])]
<1>1. Fails(f, i) <=> \E n \in DOMAIN sets : sets[n] = {}
  <2>1. Texts(f, i) = ObjectTexts(sets, OrderOf(f))
    BY TextsEquations
  <2>2. DOMAIN sets \in SUBSET Names /\ IsFiniteSet(DOMAIN sets)
    BY MapFacts
  <2> HIDE DEF sets
  <2> QED BY <2>1, <2>2, ObjectFails, OrderOfTypes DEF Fails
<1>2. DOMAIN sets = DOMAIN MapOf(i) /\ \A n \in DOMAIN sets : sets[n] = Texts(f, MapOf(i)[n])
  OBVIOUS
<1> HIDE DEF sets
<1>3. ASSUME NEW k \in DOMAIN text, text[k].in = i, IsValue(k), Fails(f, k)
      PROVE  Fails(f, i)
  <2>1. PICK j \in KeysOf(i) : j + 1 = k
    BY <1>3, ValueFacts
  <2>2. /\ Unquote[text[j].what] \in DOMAIN MapOf(i)
        /\ MapOf(i)[Unquote[text[j].what]] = k
    BY <2>1, MapFacts
  <2> QED BY <1>1, <1>2, <1>3, <2>2 DEF Fails
<1>4. ASSUME Fails(f, i)
      PROVE  \E k \in DOMAIN text : text[k].in = i /\ IsValue(k) /\ Fails(f, k)
  <2>1. PICK n \in DOMAIN MapOf(i) : Fails(f, MapOf(i)[n])
    BY <1>1, <1>2, <1>4 DEF Fails
  <2>2. PICK j \in KeysOf(i) : n = Unquote[text[j].what]
    BY <2>1, MapFacts
  <2>3. MapOf(i)[n] = j + 1
    BY <2>2, MapFacts
  <2> QED BY <2>1, <2>3, KeyFacts
<1> QED BY <1>3, <1>4

LEMMA FormFails ==
    ASSUME WellFormed, NEW f \in Form
    PROVE  FormTexts(f) = {} <=>
             \E j \in KeysOf(1) : Unquote[text[j].what] \notin LeftOut(f) /\ Fails(f, j + 1)
<1> DEFINE sets == [n \in DOMAIN MapOf(1) \ LeftOut(f) |-> Texts(f, MapOf(1)[n])]
<1>1. 1 \in DOMAIN text
  BY WellFormedText
<1>2. FormTexts(f) = {} <=> \E n \in DOMAIN sets : sets[n] = {}
  <2>1. FormTexts(f) = ObjectTexts(sets, OrderOf(f))
    BY FormTextsEquation
  <2>2. DOMAIN sets \in SUBSET Names /\ IsFiniteSet(DOMAIN sets)
    BY <1>1, MapFacts, FS_Subset
  <2> HIDE DEF sets
  <2> QED BY <2>1, <2>2, ObjectFails, OrderOfTypes
<1>3. /\ DOMAIN sets = DOMAIN MapOf(1) \ LeftOut(f)
      /\ \A n \in DOMAIN sets : sets[n] = Texts(f, MapOf(1)[n])
  OBVIOUS
<1> HIDE DEF sets
<1>4. /\ DOMAIN MapOf(1) = {Unquote[text[j].what] : j \in KeysOf(1)}
      /\ \A j \in KeysOf(1) : MapOf(1)[Unquote[text[j].what]] = j + 1
  BY <1>1, MapFacts
<1> QED BY <1>2, <1>3, <1>4 DEF Fails

-----------------------------------------------------------------------------
(* A number that cannot be written fails everything around it. *)

LEMMA OuterFails ==
    ASSUME WellFormed, NEW f \in Form, NEW k \in DOMAIN text, IsValue(k), Fails(f, k),
           text[k].in # 0
    PROVE  /\ text[k].in \in DOMAIN text /\ text[k].in < k
           /\ IsValue(text[k].in) /\ Fails(f, text[k].in)
<1>1. PICK p \in Nat : p = text[k].in /\ p # 0 /\ p < k
  BY Inside
<1>2. p \in DOMAIN text
  BY <1>1, WellFormedText
<1>3. text[p].is \in {"object", "array"}
  BY <1>1 DEF WellFormed, WellPlaced
<1>4. Fails(f, p)
  BY <1>1, <1>2, <1>3, ItemFails, MemberFails
<1> QED BY <1>1, <1>2, <1>3, <1>4 DEF IsValue

LEMMA UnwritableFails ==
    ASSUME WellFormed, NEW f \in Form, NEW i \in DOMAIN text, Unwritable(i, f)
    PROVE  FormTexts(f) = {}
<1>1. PICK L \in Nat : L = Len(text) /\ DOMAIN text = 1..L
  BY WellFormedText
<1> DEFINE Around(k) == /\ k # 1 /\ k <= i /\ IsValue(k) /\ Fails(f, k)
                        /\ \A h \in KeysOf(1) : h < k \/ i < h
           Good == {m \in 0..L : \A k \in 1..L : k <= m /\ Around(k) => FormTexts(f) = {}}
<1>2. Around(i)
  <2>1. text[i].is = "number" /\ Fails(f, i)
    BY NumberFails DEF Unwritable
  <2>2. i # 1 /\ IsValue(i)
    BY <2>1, WellFormedText DEF IsValue
  <2>3. ASSUME NEW h \in KeysOf(1) PROVE h < i \/ i < h
    <3>1. h # i
      BY <2>1 DEF KeysOf
    <3>2. h \in 1..L
      BY <1>1 DEF KeysOf
    <3> QED BY <3>1, <3>2, <1>1
  <2>4. i <= i
    BY <1>1
  <2> QED BY <2>1, <2>2, <2>3, <2>4
<1>3. ASSUME NEW k \in 1..L, Around(k), text[k].in = 1 PROVE FormTexts(f) = {}
  <2>1. PICK j \in KeysOf(1) : j + 1 = k
    BY <1>1, <1>3, ValueFacts, WellFormedText
  <2>2. j \in 1..L
    BY <1>1 DEF KeysOf
  <2>3. j < i /\ \A h \in KeysOf(1) : h <= j \/ i < h
    <3>1. \A h \in KeysOf(1) : h \in 1..L
      BY <1>1 DEF KeysOf
    <3>2. \A h \in KeysOf(1) : h < j + 1 \/ i < h
      BY <1>3, <2>1
    <3>3. j < i
      BY <1>1, <1>3, <2>1, <2>2
    <3> QED BY <1>1, <2>2, <3>1, <3>2, <3>3
  <2>4. Unquote[text[j].what] \notin LeftOut(f)
    BY <2>3 DEF Unwritable, InLeftOut
  <2> QED BY <2>1, <2>4, <1>3, FormFails
<1>4. ASSUME NEW k \in 1..L, Around(k), text[k].in # 1
      PROVE  Around(text[k].in) /\ text[k].in \in 1..L /\ text[k].in < k
  <2>1. text[k].in # 0
    BY <1>1, <1>4 DEF WellFormed
  <2>2. PICK p \in 1..L : p = text[k].in /\ p < k /\ IsValue(p) /\ Fails(f, p)
    BY <1>1, <1>4, <2>1, OuterFails
  <2>3. ASSUME NEW h \in KeysOf(1) PROVE h < p \/ i < h
    <3>1. SUFFICES ASSUME p <= h, h < k PROVE FALSE
      <4>1. h \in 1..L /\ (h < k \/ i < h)
        BY <1>1, <1>4 DEF KeysOf
      <4> QED BY <4>1, <3>1
    <3>2. h \in 1..L /\ text[h].is = "key" /\ text[h].in = 1
      BY <1>1 DEF KeysOf
    <3>3. h # p
      BY <2>2, <3>2 DEF IsValue
    <3>4. text[k].in < h
      BY <2>2, <3>1, <3>2, <3>3
    <3>5. text[k].in <= text[h].in
      BY <1>1, <3>1, <3>2, <3>4 DEF WellFormed, Nested
    <3> QED BY <1>4, <2>2, <3>2, <3>5
  <2>4. p # 1 /\ p <= i
    BY <1>1, <1>4, <2>2
  <2> QED BY <2>2, <2>3, <2>4
<1>5. 0 \in Good
  OBVIOUS
<1>6. ASSUME NEW m \in 1..L, m - 1 \in Good PROVE m \in Good
  <2>1. SUFFICES ASSUME NEW k \in 1..L, k <= m, Around(k) PROVE FormTexts(f) = {}
    OBVIOUS
  <2>2. CASE text[k].in = 1
    BY <2>1, <2>2, <1>3
  <2>3. CASE text[k].in # 1
    <3>1. PICK p \in 1..L : Around(p) /\ p < k
      BY <2>1, <2>3, <1>4
    <3> HIDE DEF Around
    <3>2. p <= m - 1
      BY <2>1, <3>1
    <3> QED BY <1>6, <3>1, <3>2
  <2> QED BY <2>2, <2>3
<1> HIDE DEF Around
<1>7. L \in Good
  <2> HIDE DEF Good
  <2>1. 0..L \subseteq Good
    BY <1>5, <1>6, UpwardInduction
  <2> QED BY <2>1
<1>8. i \in 1..L /\ i <= L
  BY <1>1
<1> QED BY <1>2, <1>7, <1>8

(* Nothing else fails: inside what fails there is such a number. *)

LEMMA InnerFails ==
    ASSUME WellFormed, NEW f \in Form, NEW k \in DOMAIN text, IsValue(k), Fails(f, k),
           text[k].is # "number"
    PROVE  \E q \in DOMAIN text :
             text[q].in = k /\ k < q /\ IsValue(q) /\ Fails(f, q)
<1>1. text[k].is \in {"object", "array"}
  <2>1. text[k].is \in {"object", "array", "close", "key", "string", "number", "null"}
    <3>1. text[k] \in Token
      BY WellFormedText
    <3> QED BY <3>1 DEF Token
  <2>2. Null # {} /\ \A s : String(s) # {}
    BY DEF Null, String
  <2>3. text[k].is \notin {"null", "string"}
    BY <2>2, TextsEquations DEF Fails
  <2> QED BY <2>1, <2>3 DEF IsValue
<1>2. PICK q \in DOMAIN text : text[q].in = k /\ IsValue(q) /\ Fails(f, q)
  BY <1>1, ItemFails, MemberFails
<1>3. k < q
  BY <1>2, Inside
<1> QED BY <1>2, <1>3

LEMMA FailsUnwritable ==
    ASSUME WellFormed, NEW f \in Form, FormTexts(f) = {}
    PROVE  \E i \in DOMAIN text : Unwritable(i, f)
<1>1. PICK L \in Nat : L = Len(text) /\ DOMAIN text = 1..L
  BY WellFormedText
<1>2. PICK j \in KeysOf(1) : Unquote[text[j].what] \notin LeftOut(f) /\ Fails(f, j + 1)
  BY FormFails
<1>3. j \in 1..L /\ 1 < j /\ j + 1 \in 1..L /\ IsValue(j + 1)
  BY <1>1, KeyFacts, WellFormedText
<1>4. \A h \in KeysOf(1) : h \in 1..L /\ text[h].is = "key" /\ text[h].in = 1
  BY <1>1 DEF KeysOf
<1> DEFINE Within(k) == /\ j < k /\ IsValue(k) /\ Fails(f, k)
                        /\ \A h \in KeysOf(1) : h <= j \/ k < h
           Found == \E i \in DOMAIN text : Unwritable(i, f)
           Good == {k \in 1..L : Within(k) => Found}
<1>5. Within(j + 1)
  <2>1. ASSUME NEW h \in KeysOf(1) PROVE h <= j \/ j + 1 < h
    <3>1. h # j + 1
      BY <1>3, <1>4 DEF IsValue
    <3> QED BY <3>1, <1>3, <1>4
  <2> QED BY <2>1, <1>2, <1>3
<1>6. ASSUME NEW k \in 1..L, Within(k), text[k].is = "number" PROVE Found
  <2>1. ASSUME NEW h \in KeysOf(1), Unquote[text[h].what] \in LeftOut(f), h < k,
               \A g \in KeysOf(1) : g <= h \/ k < g
        PROVE  FALSE
    <3>1. h <= j /\ j <= h
      BY <1>3, <1>4, <1>6, <2>1
    <3>2. h = j
      BY <3>1, <1>3, <1>4
    <3> QED BY <3>2, <1>2, <2>1
  <2>2. ~InLeftOut(k, f)
    BY <2>1 DEF InLeftOut
  <2>3. Unwritable(k, f)
    BY <2>2, <1>1, <1>6, NumberFails DEF Unwritable
  <2> QED BY <2>3, <1>1
<1>7. ASSUME NEW k \in 1..L, Within(k), text[k].is # "number"
      PROVE  \E q \in 1..L : k < q /\ Within(q)
  <2>1. PICK q \in 1..L : text[q].in = k /\ k < q /\ IsValue(q) /\ Fails(f, q)
    BY <1>1, <1>7, InnerFails
  <2>2. ASSUME NEW h \in KeysOf(1) PROVE h <= j \/ q < h
    <3>1. SUFFICES ASSUME k < h, h <= q PROVE FALSE
      <4>1. h \in 1..L /\ (h <= j \/ k < h)
        BY <1>4, <1>7
      <4> QED BY <4>1, <3>1
    <3>2. h # q
      BY <1>4, <2>1 DEF IsValue
    <3>3. h < q
      BY <3>1, <3>2, <1>4
    <3>4. text[q].in <= text[h].in
      BY <1>1, <1>4, <2>1, <3>1, <3>3 DEF WellFormed, Nested
    <3> QED BY <1>3, <1>4, <1>7, <2>1, <3>4
  <2>3. j < q
    BY <1>3, <1>7, <2>1
  <2> QED BY <2>1, <2>2, <2>3
<1>8. ASSUME NEW k \in 1..L, \A q \in 1..L : k < q => q \in Good PROVE k \in Good
  <2>1. SUFFICES ASSUME Within(k) PROVE Found
    OBVIOUS
  <2> HIDE DEF Within, Found
  <2> QED BY <2>1, <1>6, <1>7, <1>8
<1> HIDE DEF Within, Found
<1>9. 1..L \subseteq Good
  <2> HIDE DEF Good
  <2> QED BY <1>8, DownwardInduction
<1>10. Found
  BY <1>3, <1>5, <1>9
<1> QED BY <1>10 DEF Found

-----------------------------------------------------------------------------

LEMMA EnvelopeNumbers ==
    ASSUME WellFormed, NEW t \in FormTexts("envelope"), NEW n \in NumbersIn(t)
    PROVE  LikeJavaScript(n)
<1>1. PICK v \in Parts(t) : v.is = "number" /\ n = v.literal
  BY DEF NumbersIn
<1> DEFINE f == "envelope"
<1>2. f \in Form
  BY Entries
<1>3. t.is = "object"
  BY <1>2, FormTextsAreObjects
<1>4. PICK k \in DOMAIN text : v \in Texts(f, k)
  BY <1>1, <1>2, <1>3, PartsFacts
<1>5. text[k].is \notin {"array", "object"}
  BY <1>1, <1>2, <1>4, TextItems, TextMembers
<1>6. text[k].is = "number" /\ v \in NumberTexts(f, text[k].what)
  BY <1>1, <1>2, <1>4, <1>5, TextScalars
<1>7. text[k].what \in Literal
  BY <1>6 DEF WellFormed, WellPlaced
<1>8. PICK m \in Literal : m = text[k].what /\ v \in JcsNumber(m)
  BY <1>6, <1>7 DEF NumberTexts
<1>9. ~Overflows(m) /\ v = [is |-> "number", literal |-> EsNumber(ParseFloat(m))]
  BY <1>8 DEF JcsNumber, Number
<1>10. n = EsNumber(ParseFloat(m))
  BY <1>1, <1>9
<1> QED BY <1>9, <1>10, WrittenLikeJavaScript

(***************************************************************************)
(* The numbers of an envelope are written as JavaScript does (number.go    *)
(* esNumber), and an object is refused for a number its form cannot write  *)
(* and is in it, and for nothing else.                                     *)
(***************************************************************************)
THEOREM NumbersTheorem == Spec => []NumbersAreCanonical
<1>1. ASSUME Inv, Structure, WrittenInv PROVE NumbersAreCanonical
  <2>1. ASSUME Written("envelope"), NEW n \in NumbersIn(written.envelope)
        PROVE  LikeJavaScript(n)
    <3>1. "envelope" \in Form
      BY Entries
    <3>2. WellFormed /\ written["envelope"] \in FormTexts("envelope")
      BY <1>1, <2>1, <3>1, WrittenTexts
    <3> QED BY <2>1, <3>2, EnvelopeNumbers
  <2>2. ASSUME scan # "duplicate", NEW f \in Form
        PROVE  written[f] = Refused <=>
                 written[f] # Unwritten /\ \E i \in DOMAIN text : Unwritable(i, f)
    <3>1. CASE \A g \in Form : written[g] = Unwritten
      BY <3>1, Entries
    <3>2. CASE OneObject /\ written[f] \in IF FormTexts(f) = {} THEN {Refused} ELSE FormTexts(f)
      <4>1. WellFormed
        BY <1>1, <3>2, EndIsWellFormed
      <4>2. FormTexts(f) = {} <=> \E i \in DOMAIN text : Unwritable(i, f)
        BY <4>1, UnwritableFails, FailsUnwritable
      <4>3. written[f] # Unwritten /\ (written[f] = Refused <=> FormTexts(f) = {})
        BY <3>2, Entries, FormTextsAreObjects
      <4> QED BY <4>2, <4>3
    <3> QED BY <1>1, <2>2, <3>1, <3>2 DEF WrittenInv
  <2> QED BY <2>1, <2>2 DEF NumbersAreCanonical
<1> QED BY <1>1, InvariantsHold, PTL

-----------------------------------------------------------------------------
(* The meaning of token i, g that of the tokens after it. *)
MeaningOf(g, i, f) ==
    CASE text[i].is = "null"   -> <<"null">>
      [] text[i].is = "string" -> <<"string", Unquote[text[i].what]>>
      [] text[i].is = "number" -> <<"number", Value(text[i].what, f)>>
      [] text[i].is = "array"  -> <<"array", [d \in DOMAIN ItemsOf(i) |-> g[ItemsOf(i)[d]]]>>
      [] OTHER -> <<"object", {<<Unquote[text[j].what], g[j + 1]>> : j \in KeysOf(i)}>>

LEMMA MeaningOfLater ==
    ASSUME WellFormed, NEW i \in DOMAIN text, NEW f, NEW g, NEW h,
           \A j \in DOMAIN text : i < j => g[j] = h[j]
    PROVE  MeaningOf(g, i, f) = MeaningOf(h, i, f)
<1>1. [d \in DOMAIN ItemsOf(i) |-> g[ItemsOf(i)[d]]]
        = [d \in DOMAIN ItemsOf(i) |-> h[ItemsOf(i)[d]]]
  BY ItemsFacts
<1>2. {<<Unquote[text[j].what], g[j + 1]>> : j \in KeysOf(i)}
        = {<<Unquote[text[j].what], h[j + 1]>> : j \in KeysOf(i)}
  <2>1. \A j \in KeysOf(i) : g[j + 1] = h[j + 1]
    BY KeyFacts
  <2> QED BY <2>1
<1> QED BY <1>1, <1>2 DEF MeaningOf

LEMMA MeaningsExist ==
    ASSUME WellFormed, NEW f
    PROVE  \E g : g = [i \in DOMAIN text |-> MeaningOf(g, i, f)]
<1>1. PICK L \in Nat : L = Len(text) /\ DOMAIN text = 1..L
  BY WellFormedText
<1> DEFINE Solves(g, k) == \A i \in 1..L : k < i => g[i] = MeaningOf(g, i, f)
           Good == {m \in 0..L : \E g : Solves(g, L - m)}
<1>2. 0 \in Good
  <2>1. Solves(<<>>, L - 0)
    OBVIOUS
  <2> QED BY <2>1
<1>3. ASSUME NEW m \in 1..L, m - 1 \in Good PROVE m \in Good
  <2>1. PICK k \in 1..L : k = L - (m - 1)
    OBVIOUS
  <2>2. PICK g : Solves(g, k)
    BY <1>3, <2>1
  <2> DEFINE h == [i \in 1..L |-> IF i = k THEN MeaningOf(g, k, f) ELSE g[i]]
  <2>3. ASSUME NEW i \in 1..L, k <= i PROVE MeaningOf(h, i, f) = MeaningOf(g, i, f)
    <3>1. \A j \in DOMAIN text : i < j => h[j] = g[j]
      BY <1>1, <2>3
    <3> HIDE DEF h
    <3> QED BY <3>1, <1>1, MeaningOfLater
  <2>4. ASSUME NEW i \in 1..L, k <= i PROVE h[i] = MeaningOf(h, i, f)
    <3>1. CASE i = k
      BY <3>1, <2>3
    <3>2. CASE i # k
      <4>1. h[i] = g[i] /\ g[i] = MeaningOf(g, i, f)
        BY <3>2, <2>2, <2>4
      <4> QED BY <4>1, <2>3, <2>4
    <3> QED BY <3>1, <3>2
  <2> HIDE DEF h
  <2>5. Solves(h, L - m)
    <3>1. \A i \in 1..L : L - m < i => k <= i
      BY <2>1
    <3> QED BY <3>1, <2>4
  <2> QED BY <2>5
<1>4. PICK g : Solves(g, L - L)
  <2>1. L \in Good
    <3> HIDE DEF Good
    <3>1. 0..L \subseteq Good
      BY <1>2, <1>3, UpwardInduction
    <3> QED BY <3>1
  <2> QED BY <2>1
<1> DEFINE t == [i \in DOMAIN text |-> g[i]]
<1>5. \A i \in DOMAIN text : t[i] = MeaningOf(g, i, f)
  BY <1>1, <1>4
<1>6. \A i \in DOMAIN text : MeaningOf(t, i, f) = MeaningOf(g, i, f)
  <2>1. \A i \in DOMAIN text : t[i] = g[i]
    OBVIOUS
  <2> HIDE DEF t
  <2> QED BY <2>1, MeaningOfLater
<1>7. t = [i \in DOMAIN text |-> MeaningOf(t, i, f)]
  <2>1. t = [i \in DOMAIN text |-> t[i]]
    OBVIOUS
  <2> HIDE DEF t
  <2> QED BY <2>1, <1>5, <1>6
<1> QED BY <1>7

LEMMA MeaningEquation ==
    ASSUME WellFormed, NEW f, NEW dropped
    PROVE  \E g :
             /\ \A i \in DOMAIN text : g[i] = MeaningOf(g, i, f)
             /\ Meaning(dropped, f) =
                  <<"object", {<<Unquote[text[j].what], g[j + 1]>> :
                     j \in {h \in KeysOf(1) : Unquote[text[h].what] \notin dropped}}>>
<1> DEFINE Inner[i \in DOMAIN text] ==
      CASE text[i].is = "null"   -> <<"null">>
        [] text[i].is = "string" -> <<"string", Unquote[text[i].what]>>
        [] text[i].is = "number" -> <<"number", Value(text[i].what, f)>>
        [] text[i].is = "array"  ->
             <<"array", [d \in DOMAIN ItemsOf(i) |-> Inner[ItemsOf(i)[d]]]>>
        [] OTHER ->
             <<"object", {<<Unquote[text[j].what], Inner[j + 1]>> : j \in KeysOf(i)}>>
<1>1. Meaning(dropped, f) =
        <<"object", {<<Unquote[text[j].what], Inner[j + 1]>> :
           j \in {h \in KeysOf(1) : Unquote[text[h].what] \notin dropped}}>>
  BY DEF Meaning
<1>2. \E g : g = [i \in DOMAIN text |->
      CASE text[i].is = "null"   -> <<"null">>
        [] text[i].is = "string" -> <<"string", Unquote[text[i].what]>>
        [] text[i].is = "number" -> <<"number", Value(text[i].what, f)>>
        [] text[i].is = "array"  ->
             <<"array", [d \in DOMAIN ItemsOf(i) |-> g[ItemsOf(i)[d]]]>>
        [] OTHER ->
             <<"object", {<<Unquote[text[j].what], g[j + 1]>> : j \in KeysOf(i)}>>]
  <2>1. PICK g : g = [i \in DOMAIN text |-> MeaningOf(g, i, f)]
    BY MeaningsExist
  <2>2. g = [i \in DOMAIN text |->
      CASE text[i].is = "null"   -> <<"null">>
        [] text[i].is = "string" -> <<"string", Unquote[text[i].what]>>
        [] text[i].is = "number" -> <<"number", Value(text[i].what, f)>>
        [] text[i].is = "array"  ->
             <<"array", [d \in DOMAIN ItemsOf(i) |-> g[ItemsOf(i)[d]]]>>
        [] OTHER ->
             <<"object", {<<Unquote[text[j].what], g[j + 1]>> : j \in KeysOf(i)}>>]
    BY <2>1 DEF MeaningOf
  <2> QED BY <2>2
<1>3. Inner = [i \in DOMAIN text |->
      CASE text[i].is = "null"   -> <<"null">>
        [] text[i].is = "string" -> <<"string", Unquote[text[i].what]>>
        [] text[i].is = "number" -> <<"number", Value(text[i].what, f)>>
        [] text[i].is = "array"  ->
             <<"array", [d \in DOMAIN ItemsOf(i) |-> Inner[ItemsOf(i)[d]]]>>
        [] OTHER ->
             <<"object", {<<Unquote[text[j].what], Inner[j + 1]>> : j \in KeysOf(i)}>>]
  BY <1>2
<1> HIDE DEF Inner
<1>4. Inner = [i \in DOMAIN text |-> MeaningOf(Inner, i, f)]
  BY <1>3 DEF MeaningOf
<1>5. \A i \in DOMAIN text : Inner[i] = MeaningOf(Inner, i, f)
  BY <1>4
<1> QED BY <1>1, <1>5

-----------------------------------------------------------------------------
(* The meaning of what is written, u that of the values in it. *)

ReadOf(u, v, f) ==
    CASE v.is = "null"   -> <<"null">>
      [] v.is = "string" -> <<"string", v.name>>
      [] v.is = "number" -> <<"number", Value(v.literal, f)>>
      [] v.is = "array"  -> <<"array", [d \in DOMAIN v.items |-> u[v.items[d]]]>>
      [] OTHER -> <<"object", {<<m.name, u[m.value]>> : m \in Range(v.members)}>>

IsText(v) == v.is \in {"null", "string", "number", "array", "object"}

LEMMA ReadOfComponents ==
    ASSUME NEW v, IsText(v), NEW f, NEW u, NEW w, \A c \in Components(v) : u[c] = w[c]
    PROVE  ReadOf(u, v, f) = ReadOf(w, v, f)
<1>1. CASE v.is = "array"
  <2>1. \A d \in DOMAIN v.items : u[v.items[d]] = w[v.items[d]]
    BY <1>1 DEF Components, Range
  <2>2. [d \in DOMAIN v.items |-> u[v.items[d]]] = [d \in DOMAIN v.items |-> w[v.items[d]]]
    BY <2>1
  <2> QED BY <1>1, <2>2 DEF ReadOf
<1>2. CASE v.is = "object"
  <2>1. \A m \in Range(v.members) : u[m.value] = w[m.value]
    BY <1>2 DEF Components
  <2>2. {<<m.name, u[m.value]>> : m \in Range(v.members)}
          = {<<m.name, w[m.value]>> : m \in Range(v.members)}
    BY <2>1
  <2> QED BY <1>2, <2>2 DEF ReadOf
<1>3. CASE v.is \in {"null", "string", "number"}
  BY <1>3 DEF ReadOf
<1> QED BY <1>1, <1>2, <1>3 DEF IsText

OpensInto(Q, P) == \A v \in Q : IsText(v) /\ Components(v) \subseteq P

ReadsAs(u, P, f) == \A v \in P : u[v] = ReadOf(u, v, f)

LEMMA ReadExtends ==
    ASSUME NEW f, NEW P, NEW Q, P \subseteq Q, OpensInto(Q, P),
           NEW u, ReadsAs(u, P, f)
    PROVE  \E w : w = [v \in Q |-> ReadOf(w, v, f)]
<1> USE DEF OpensInto, ReadsAs
<1> DEFINE w == [v \in Q |-> ReadOf(u, v, f)]
<1>1. \A v \in Q : w[v] = ReadOf(u, v, f)
  OBVIOUS
<1>2. \A v \in P : w[v] = u[v]
  BY <1>1
<1>3. w = [v \in Q |-> w[v]]
  OBVIOUS
<1> HIDE DEF w
<1>4. \A v \in Q : ReadOf(u, v, f) = ReadOf(w, v, f)
  BY <1>2, ReadOfComponents
<1>5. w = [v \in Q |-> ReadOf(w, v, f)]
  BY <1>1, <1>3, <1>4
<1> QED BY <1>5

LEMMA TextsAreTexts ==
    ASSUME WellFormed, NEW f \in Form, NEW i \in DOMAIN text, NEW v \in Texts(f, i)
    PROVE  IsText(v)
<1>1. CASE text[i].is = "array"
  BY <1>1, TextItems DEF IsText
<1>2. CASE text[i].is = "object"
  BY <1>2, TextMembers DEF IsText
<1>3. CASE text[i].is \notin {"array", "object"}
  BY <1>3, TextScalars DEF IsText
<1> QED BY <1>1, <1>2, <1>3

LEMMA ReadsExist ==
    ASSUME WellFormed, NEW f \in Form, NEW t \in FormTexts(f)
    PROVE  \E w : w = [v \in Parts(t) |-> ReadOf(w, v, f)]
<1>1. PICK L \in Nat : L = Len(text) /\ DOMAIN text = 1..L
  BY WellFormedText
<1> DEFINE P(n) == {v \in Parts(t) : \E i \in 1..L : n < i /\ v \in Texts(f, i)}
           Good == {m \in 0..L : \E u : \A v \in P(L - m) : u[v] = ReadOf(u, v, f)}
<1>2. 0 \in Good
  <2>1. P(L - 0) = {}
    OBVIOUS
  <2> HIDE DEF P
  <2> QED BY <2>1
<1>3. ASSUME NEW k \in 1..L, NEW v \in P(k - 1)
      PROVE  IsText(v) /\ Components(v) \subseteq P(k)
  <2>1. PICK i \in 1..L : k - 1 < i /\ v \in Texts(f, i) /\ v \in Parts(t)
    BY <1>3
  <2>2. IsText(v)
    BY <1>1, <2>1, TextsAreTexts
  <2>3. ASSUME NEW c \in Components(v) PROVE c \in P(k)
    <3>1. PICK h \in 1..L : i < h /\ c \in Texts(f, h)
      BY <1>1, <2>1, ComponentsAreLater
    <3>2. c \in Parts(t)
      BY <2>1, PartsFacts
    <3>3. k < h
      BY <2>1, <3>1
    <3> QED BY <3>1, <3>2, <3>3
  <2> QED BY <2>2, <2>3
<1>4. ASSUME NEW k \in 1..L PROVE P(k) \subseteq P(k - 1)
  <2>1. \A i \in 1..L : k < i => k - 1 < i
    OBVIOUS
  <2> QED BY <2>1
<1>5. ASSUME NEW m \in 1..L, m - 1 \in Good PROVE m \in Good
  <2>1. PICK k \in 1..L : k = L - (m - 1) /\ k - 1 = L - m
    OBVIOUS
  <2>2. PICK u : \A v \in P(k) : u[v] = ReadOf(u, v, f)
    BY <1>5, <2>1
  <2> HIDE DEF P
  <2>3. PICK w : w = [v \in P(k - 1) |-> ReadOf(w, v, f)]
    <3>1. OpensInto(P(k - 1), P(k)) /\ ReadsAs(u, P(k), f) /\ P(k) \subseteq P(k - 1)
      BY <1>3, <1>4, <2>2 DEF OpensInto, ReadsAs
    <3> QED BY <3>1, ReadExtends
  <2>4. \A v \in P(L - m) : w[v] = ReadOf(w, v, f)
    BY <2>1, <2>3
  <2> QED BY <2>4
<1>6. L \in Good
  <2> HIDE DEF Good
  <2>1. 0..L \subseteq Good
    BY <1>2, <1>5, UpwardInduction
  <2> QED BY <2>1
<1>7. PICK u : \A v \in P(0) : u[v] = ReadOf(u, v, f)
  <2>1. L - L = 0
    OBVIOUS
  <2> HIDE DEF P
  <2> QED BY <1>6, <2>1
<1>8. ASSUME NEW v \in Parts(t) PROVE IsText(v) /\ Components(v) \subseteq P(0)
  <2>1. IsText(v)
    BY <1>8, PartsFacts, TextsAreTexts, FormTextsAreObjects DEF IsText
  <2>2. ASSUME NEW c \in Components(v) PROVE \E k \in DOMAIN text : c \in Texts(f, k)
    BY <1>8, PartsFacts, ComponentsAreLater, FormComponents
  <2>3. ASSUME NEW c \in Components(v) PROVE c \in P(0)
    <3>1. PICK k \in 1..L : c \in Texts(f, k)
      BY <1>1, <2>2
    <3>2. c \in Parts(t)
      BY <1>8, PartsFacts
    <3>3. 0 < k
      OBVIOUS
    <3> QED BY <3>1, <3>2, <3>3
  <2> QED BY <2>1, <2>3
<1>9. P(0) \subseteq Parts(t)
  OBVIOUS
<1> HIDE DEF P
<1>10. OpensInto(Parts(t), P(0)) /\ ReadsAs(u, P(0), f)
  BY <1>7, <1>8 DEF OpensInto, ReadsAs
<1> QED BY <1>9, <1>10, ReadExtends

LEMMA ReadBackEquation ==
    ASSUME WellFormed, NEW f \in Form, NEW t \in FormTexts(f)
    PROVE  \E r : /\ \A v \in Parts(t) : r[v] = ReadOf(r, v, f)
                  /\ ReadBack(t, f) = r[t]
<1> DEFINE Read[v \in Parts(t)] ==
      CASE v.is = "null"   -> <<"null">>
        [] v.is = "string" -> <<"string", v.name>>
        [] v.is = "number" -> <<"number", Value(v.literal, f)>>
        [] v.is = "array"  -> <<"array", [d \in DOMAIN v.items |-> Read[v.items[d]]]>>
        [] OTHER ->
             <<"object", {<<m.name, Read[m.value]>> : m \in Range(v.members)}>>
<1>1. ReadBack(t, f) = Read[t]
  BY DEF ReadBack
<1>2. \E r : r = [v \in Parts(t) |->
      CASE v.is = "null"   -> <<"null">>
        [] v.is = "string" -> <<"string", v.name>>
        [] v.is = "number" -> <<"number", Value(v.literal, f)>>
        [] v.is = "array"  -> <<"array", [d \in DOMAIN v.items |-> r[v.items[d]]]>>
        [] OTHER ->
             <<"object", {<<m.name, r[m.value]>> : m \in Range(v.members)}>>]
  <2>1. PICK r : r = [v \in Parts(t) |-> ReadOf(r, v, f)]
    BY ReadsExist
  <2>2. r = [v \in Parts(t) |->
      CASE v.is = "null"   -> <<"null">>
        [] v.is = "string" -> <<"string", v.name>>
        [] v.is = "number" -> <<"number", Value(v.literal, f)>>
        [] v.is = "array"  -> <<"array", [d \in DOMAIN v.items |-> r[v.items[d]]]>>
        [] OTHER ->
             <<"object", {<<m.name, r[m.value]>> : m \in Range(v.members)}>>]
    BY <2>1 DEF ReadOf
  <2> QED BY <2>2
<1>3. Read = [v \in Parts(t) |->
      CASE v.is = "null"   -> <<"null">>
        [] v.is = "string" -> <<"string", v.name>>
        [] v.is = "number" -> <<"number", Value(v.literal, f)>>
        [] v.is = "array"  -> <<"array", [d \in DOMAIN v.items |-> Read[v.items[d]]]>>
        [] OTHER ->
             <<"object", {<<m.name, Read[m.value]>> : m \in Range(v.members)}>>]
  BY <1>2
<1> HIDE DEF Read
<1>4. Read = [v \in Parts(t) |-> ReadOf(Read, v, f)]
  BY <1>3 DEF ReadOf
<1>5. \A v \in Parts(t) : Read[v] = ReadOf(Read, v, f)
  BY <1>4
<1> QED BY <1>1, <1>5

-----------------------------------------------------------------------------

(* The members, in the order s, are those of the map of i but for dropped, *)
(* and each value reads as it means.                                       *)
Matches(members, s, i, dropped, r, g) ==
    /\ DOMAIN members = DOMAIN s
    /\ \A d \in DOMAIN s :
         /\ s[d] \in DOMAIN MapOf(i) \ dropped
         /\ members[d].name = s[d] /\ r[members[d].value] = g[MapOf(i)[s[d]]]
    /\ \A n \in DOMAIN MapOf(i) \ dropped : \E d \in DOMAIN s : s[d] = n

LEMMA SameMembers ==
    ASSUME WellFormed, NEW i \in DOMAIN text, NEW g, NEW r, NEW members, NEW dropped,
           NEW s, Matches(members, s, i, dropped, r, g)
    PROVE  {<<m.name, r[m.value]>> : m \in Range(members)}
             = {<<Unquote[text[j].what], g[j + 1]>> :
                  j \in {h \in KeysOf(i) : Unquote[text[h].what] \notin dropped}}
<1> USE DEF Matches
<1> DEFINE J == {h \in KeysOf(i) : Unquote[text[h].what] \notin dropped}
           N(j) == Unquote[text[j].what]
<1>1. /\ DOMAIN MapOf(i) = {N(j) : j \in KeysOf(i)}
      /\ \A j \in KeysOf(i) : MapOf(i)[N(j)] = j + 1
  BY MapFacts
<1>2. ASSUME NEW m \in Range(members)
      PROVE  \E j \in J : <<m.name, r[m.value]>> = <<N(j), g[j + 1]>>
  <2>1. PICK d \in DOMAIN s : m = members[d]
    BY DEF Range
  <2>2. PICK j \in KeysOf(i) : s[d] = N(j)
    BY <1>1
  <2>3. j \in J
    BY <2>2
  <2>4. m.name = N(j) /\ r[m.value] = g[j + 1]
    BY <1>1, <2>1, <2>2
  <2> QED BY <2>3, <2>4
<1>3. ASSUME NEW j \in J
      PROVE  \E m \in Range(members) : <<m.name, r[m.value]>> = <<N(j), g[j + 1]>>
  <2>1. N(j) \in DOMAIN MapOf(i) \ dropped
    BY <1>1
  <2>2. PICK d \in DOMAIN s : s[d] = N(j)
    BY <2>1
  <2>3. members[d] \in Range(members)
    BY <2>2 DEF Range
  <2>4. members[d].name = N(j) /\ r[members[d].value] = g[j + 1]
    BY <1>1, <2>2
  <2> QED BY <2>3, <2>4
<1> QED BY <1>2, <1>3

LEMMA SameNumber ==
    ASSUME WellFormed, NEW f \in Form, NEW i \in DOMAIN text, text[i].is = "number",
           NEW v \in Texts(f, i)
    PROVE  v.is = "number" /\ Value(v.literal, f) = Value(text[i].what, f)
<1>1. v \in NumberTexts(f, text[i].what) /\ text[i].what \in Literal
  BY TextsEquations DEF WellFormed, WellPlaced
<1>2. PICK n \in Literal : n = text[i].what /\ v \in NumberTexts(f, n)
  BY <1>1
<1>3. CASE f = "envelope"
  <2>1. ~Overflows(n) /\ v = [is |-> "number", literal |-> EsNumber(ParseFloat(n))]
    BY <1>2, <1>3 DEF NumberTexts, JcsNumber, Number
  <2>2. v.is = "number" /\ v.literal = EsNumber(ParseFloat(n))
    BY <2>1
  <2> QED BY <1>2, <1>3, <2>1, <2>2, WrittenNumberIsRead
<1>4. CASE f # "envelope"
  <2>1. v = [is |-> "number", literal |-> n]
    BY <1>2, <1>4 DEF NumberTexts, ChainNumber, Number
  <2> QED BY <1>2, <2>1
<1> QED BY <1>3, <1>4

LEMMA SameMeaning ==
    ASSUME WellFormed, NEW f \in Form, NEW t \in FormTexts(f),
           NEW g, \A i \in DOMAIN text : g[i] = MeaningOf(g, i, f),
           NEW r, \A v \in Parts(t) : r[v] = ReadOf(r, v, f)
    PROVE  \A i \in DOMAIN text : \A v \in Parts(t) : v \in Texts(f, i) => r[v] = g[i]
<1>1. PICK L \in Nat : L = Len(text) /\ DOMAIN text = 1..L
  BY WellFormedText
<1> DEFINE Good == {k \in 1..L : \A v \in Parts(t) : v \in Texts(f, k) => r[v] = g[k]}
<1>2. ASSUME NEW k \in 1..L, \A j \in 1..L : k < j => j \in Good PROVE k \in Good
  <2>1. SUFFICES ASSUME NEW v \in Parts(t), v \in Texts(f, k) PROVE r[v] = g[k]
    OBVIOUS
  <2>2. /\ k \in DOMAIN text /\ g[k] = MeaningOf(g, k, f) /\ r[v] = ReadOf(r, v, f)
        /\ Components(v) \subseteq Parts(t)
    BY <1>1, PartsFacts
  <2>3. \A j \in DOMAIN text : k < j => \A c \in Parts(t) : c \in Texts(f, j) => r[c] = g[j]
    BY <1>1, <1>2
  <2> HIDE DEF Good
  <2>4. CASE text[k].is = "array"
    <3>1. /\ v.is = "array" /\ DOMAIN v.items = DOMAIN ItemsOf(k)
          /\ \A d \in DOMAIN ItemsOf(k) : v.items[d] \in Texts(f, ItemsOf(k)[d])
      BY <2>1, <2>2, <2>4, TextItems
    <3>2. \A d \in DOMAIN ItemsOf(k) : v.items[d] \in Parts(t)
      BY <2>2, <3>1 DEF Components, Range
    <3>3. \A d \in DOMAIN ItemsOf(k) : r[v.items[d]] = g[ItemsOf(k)[d]]
      BY <2>2, <2>3, <3>1, <3>2, ItemsFacts
    <3>4. [d \in DOMAIN v.items |-> r[v.items[d]]]
            = [d \in DOMAIN ItemsOf(k) |-> g[ItemsOf(k)[d]]]
      BY <3>1, <3>3
    <3> QED BY <2>2, <2>4, <3>1, <3>4 DEF MeaningOf, ReadOf
  <2>5. CASE text[k].is = "object"
    <3>1. v.is = "object"
      BY <2>1, <2>2, <2>5, TextMembers
    <3>2. PICK s : /\ DOMAIN v.members = DOMAIN s
                   /\ \A d \in DOMAIN s :
                        /\ s[d] \in DOMAIN MapOf(k) /\ v.members[d].name = s[d]
                        /\ v.members[d].value \in Texts(f, MapOf(k)[s[d]])
                   /\ \A n \in DOMAIN MapOf(k) : \E d \in DOMAIN s : s[d] = n
      BY <2>1, <2>2, <2>5, TextMembers
    <3>3. \A d \in DOMAIN s : v.members[d].value \in Parts(t)
      BY <2>2, <3>1, <3>2 DEF Components, Range
    <3>4. \A d \in DOMAIN s : r[v.members[d].value] = g[MapOf(k)[s[d]]]
      BY <2>2, <2>3, <3>2, <3>3, MembersAreLater
    <3>5. {<<m.name, r[m.value]>> : m \in Range(v.members)}
            = {<<Unquote[text[j].what], g[j + 1]>> :
                 j \in {h \in KeysOf(k) : Unquote[text[h].what] \notin {}}}
      <4>1. Matches(v.members, s, k, {}, r, g)
        BY <3>2, <3>4 DEF Matches
      <4> QED BY <2>2, <4>1, SameMembers
    <3>6. {h \in KeysOf(k) : Unquote[text[h].what] \notin {}} = KeysOf(k)
      OBVIOUS
    <3>7. {<<m.name, r[m.value]>> : m \in Range(v.members)}
            = {<<Unquote[text[j].what], g[j + 1]>> : j \in KeysOf(k)}
      BY <3>5, <3>6
    <3> QED BY <2>2, <2>5, <3>1, <3>7 DEF MeaningOf, ReadOf
  <2>6. CASE text[k].is \notin {"array", "object"}
    <3>1. /\ text[k].is \in {"null", "string", "number"} /\ v.is = text[k].is
          /\ v.is = "string" => v.name = Unquote[text[k].what]
      BY <2>1, <2>2, <2>6, TextScalars
    <3>2. text[k].is = "number" => Value(v.literal, f) = Value(text[k].what, f)
      BY <2>1, <2>2, SameNumber
    <3> QED BY <2>2, <3>1, <3>2 DEF MeaningOf, ReadOf
  <2> QED BY <2>4, <2>5, <2>6
<1>3. 1..L \subseteq Good
  <2> HIDE DEF Good
  <2> QED BY <1>2, DownwardInduction
<1> QED BY <1>1, <1>3

LEMMA FormMeaning ==
    ASSUME WellFormed, NEW f \in Form, NEW t \in FormTexts(f)
    PROVE  ReadBack(t, f) = Meaning(LeftOut(f), f)
<1>1. PICK g : /\ \A i \in DOMAIN text : g[i] = MeaningOf(g, i, f)
               /\ Meaning(LeftOut(f), f) =
                    <<"object", {<<Unquote[text[j].what], g[j + 1]>> :
                       j \in {h \in KeysOf(1) : Unquote[text[h].what] \notin LeftOut(f)}}>>
  BY MeaningEquation
<1>2. PICK r : /\ \A v \in Parts(t) : r[v] = ReadOf(r, v, f)
               /\ ReadBack(t, f) = r[t]
  BY ReadBackEquation
<1>3. \A i \in DOMAIN text : \A v \in Parts(t) : v \in Texts(f, i) => r[v] = g[i]
  BY <1>1, <1>2, SameMeaning
<1>4. t.is = "object" /\ t \in Parts(t) /\ Components(t) \subseteq Parts(t)
  BY FormMembers, PartsFacts
<1>5. PICK s \in Sorted(DOMAIN MapOf(1) \ LeftOut(f), OrderOf(f)) :
               /\ DOMAIN t.members = DOMAIN s
               /\ \A d \in DOMAIN s :
                    /\ s[d] \in DOMAIN MapOf(1) \ LeftOut(f)
                    /\ t.members[d].name = s[d]
                    /\ t.members[d].value \in Texts(f, MapOf(1)[s[d]])
               /\ \A n \in DOMAIN MapOf(1) \ LeftOut(f) : \E d \in DOMAIN s : s[d] = n
  BY FormMembers
<1>6. \A d \in DOMAIN s : t.members[d].value \in Parts(t)
  BY <1>4, <1>5 DEF Components, Range
<1>7. 1 \in DOMAIN text
  BY WellFormedText
<1>8. \A d \in DOMAIN s : r[t.members[d].value] = g[MapOf(1)[s[d]]]
  BY <1>3, <1>5, <1>6, <1>7, MembersAreLater
<1>9. {<<m.name, r[m.value]>> : m \in Range(t.members)}
        = {<<Unquote[text[j].what], g[j + 1]>> :
             j \in {h \in KeysOf(1) : Unquote[text[h].what] \notin LeftOut(f)}}
  <2>1. Matches(t.members, s, 1, LeftOut(f), r, g)
    BY <1>5, <1>8 DEF Matches
  <2> QED BY <1>7, <2>1, SameMembers
<1>10. r[t] = <<"object", {<<m.name, r[m.value]>> : m \in Range(t.members)}>>
  BY <1>2, <1>4 DEF ReadOf
<1> QED BY <1>1, <1>2, <1>9, <1>10

(***************************************************************************)
(* Reading the bytes back gives the object that was read, without the      *)
(* fields that canonicalizeForHash and verifyOuterSignature leave out.     *)
(***************************************************************************)
THEOREM MeaningTheorem == Spec => []NothingIsLost
<1>1. ASSUME Inv, Structure, WrittenInv PROVE NothingIsLost
  BY <1>1, WrittenTexts, FormMeaning DEF NothingIsLost
<1> QED BY <1>1, InvariantsHold, PTL
=============================================================================
