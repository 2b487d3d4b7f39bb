--------------------------- MODULE JsonScan_proof ---------------------------
(***************************************************************************)
(* The scan for duplicate keys finds them all, in a text of any length,    *)
(* depth and content.  The argument is the lock-step of the scanner's      *)
(* stack with the decoder's: it makes "the keys on top of the stack" mean  *)
(* "the keys read in the innermost object", and a key read once more is    *)
(* then a second member of that name, and no other string is one.          *)
(***************************************************************************)
EXTENDS JsonScanContract, JsonCanonical, TLAPS

(* The decoder's stack and the text agree on where each container opened. *)
Nesting ==
    /\ \A d \in DOMAIN open : open[d].at <= Len(text)
    /\ \A d, e \in DOMAIN open : open[d].at = open[e].at => d = e
    /\ \A d \in DOMAIN open : open[d].kind = "array" => open[d].wants = "value"
    /\ \A i \in DOMAIN text : text[i].in <= Len(text)

Inv == TypeOK /\ Nesting /\ DuplicatesAreFound /\ ScannerInStep

-----------------------------------------------------------------------------
(* What one more token does to the keys read. *)

LEMMA AppendedText ==
    ASSUME TypeOK, NEW t \in Token, text' = Append(text, t)
    PROVE  /\ text' \in Seq(Token)
           /\ Len(text') = Len(text) + 1
           /\ DOMAIN text' = DOMAIN text \cup {Len(text) + 1}
           /\ \A i \in DOMAIN text : text'[i] = text[i]
           /\ text'[Len(text) + 1] = t
           /\ Len(text) + 1 \notin DOMAIN text
BY DEF TypeOK

LEMMA NoKeyAdded ==
    ASSUME TypeOK, NEW t \in Token, text' = Append(text, t), t.is # "key"
    PROVE  /\ \A c : KeysRead(c)' = KeysRead(c)
           /\ \A i, j \in DOMAIN text' :
                SameKey(i, j)' => i \in DOMAIN text /\ j \in DOMAIN text /\ SameKey(i, j)
<1>1. \A i \in DOMAIN text' :
        text'[i].is = "key" => i \in DOMAIN text /\ text'[i] = text[i]
  BY AppendedText
<1>2. DOMAIN text \subseteq DOMAIN text' /\ \A i \in DOMAIN text : text'[i] = text[i]
  BY AppendedText
<1>3. ASSUME NEW c PROVE KeysRead(c)' = KeysRead(c)
  <2>1. {j \in DOMAIN text' : text'[j].is = "key" /\ text'[j].in = c}
          = {j \in DOMAIN text : text[j].is = "key" /\ text[j].in = c}
    BY <1>1, <1>2
  <2> QED BY <2>1, <1>2 DEF KeysRead
<1>4. ASSUME NEW i \in DOMAIN text', NEW j \in DOMAIN text', SameKey(i, j)'
      PROVE  i \in DOMAIN text /\ j \in DOMAIN text /\ SameKey(i, j)
  BY <1>1, <1>4 DEF SameKey
<1> QED BY <1>3, <1>4

LEMMA KeyAdded ==
    ASSUME TypeOK, NEW s \in Spelling, NEW c \in Nat,
           text' = Append(text, [is |-> "key", what |-> s, in |-> c])
    PROVE  /\ KeysRead(c)' = KeysRead(c) \cup {Unquote[s]}
           /\ \A a : a # c => KeysRead(a)' = KeysRead(a)
<1> DEFINE t == [is |-> "key", what |-> s, in |-> c]
           n == Len(text) + 1
           At(txt, a) == {j \in DOMAIN txt : txt[j].is = "key" /\ txt[j].in = a}
<1>1. t \in Token
  BY DEF Token
<1>2. /\ DOMAIN text' = DOMAIN text \cup {n}
      /\ \A i \in DOMAIN text : text'[i] = text[i]
      /\ text'[n] = t /\ n \notin DOMAIN text
  BY <1>1, AppendedText
<1>3. t.is = "key" /\ t.what = s /\ t.in = c
  OBVIOUS
<1> HIDE DEF t, n
<1>4. At(text', c) = At(text, c) \cup {n}
  BY <1>2, <1>3
<1>5. \A a : a # c => At(text', a) = At(text, a)
  BY <1>2, <1>3
<1>6. \A i \in At(text, c) : text'[i].what = text[i].what
  BY <1>2
<1>7. \A a : \A i \in At(text, a) : text'[i].what = text[i].what
  BY <1>2
<1>8. KeysRead(c)' = KeysRead(c) \cup {Unquote[s]}
  BY <1>2, <1>3, <1>4, <1>6 DEF KeysRead
<1>9. \A a : a # c => KeysRead(a)' = KeysRead(a)
  BY <1>5, <1>7 DEF KeysRead
<1> QED BY <1>8, <1>9

-----------------------------------------------------------------------------
(* What the two stacks do with a value. *)

LEMMA FrontProperties ==
    ASSUME NEW S, NEW s \in Seq(S), s # <<>>
    PROVE  /\ Front(s) \in Seq(S)
           /\ Len(Front(s)) = Len(s) - 1
           /\ Len(s) \in Nat \ {0}
           /\ \A d \in DOMAIN Front(s) : d \in DOMAIN s /\ d # Len(s) /\ Front(s)[d] = s[d]
<1>1. Len(s) \in Nat \ {0}
  OBVIOUS
<1>2. Len(s) - 1 \in Nat /\ Len(s) - 1 <= Len(s)
  BY <1>1
<1>3. Front(s) = [d \in 1..(Len(s) - 1) |-> s[d]]
  BY <1>2 DEF Front
<1> QED
  BY <1>1, <1>2, <1>3

LEMMA WantingProperties ==
    ASSUME NEW o \in Seq(Container), NEW w \in {"key", "value"}
    PROVE  /\ Wanting(o, w) \in Seq(Container)
           /\ Len(Wanting(o, w)) = Len(o)
           /\ DOMAIN Wanting(o, w) = DOMAIN o
           /\ \A d \in DOMAIN o :
                /\ Wanting(o, w)[d].at = o[d].at
                /\ Wanting(o, w)[d].kind = o[d].kind
                /\ Wanting(o, w)[d].wants =
                     IF d = Len(o) /\ o[d].kind = "object" THEN w ELSE o[d].wants
<1>1. CASE o # <<>> /\ Last(o).kind = "object"
  <2> DEFINE n == Len(o)
             c == [o[n] EXCEPT !.wants = w]
  <2>1. n \in DOMAIN o /\ o[n] \in Container /\ o[n].kind = "object"
    BY <1>1 DEF Last
  <2>2. c \in Container /\ c.at = o[n].at /\ c.kind = o[n].kind /\ c.wants = w
    BY <2>1 DEF Container
  <2>3. Wanting(o, w) = [o EXCEPT ![n] = c]
    BY <1>1 DEF Wanting
  <2> HIDE DEF c
  <2>4. Wanting(o, w) \in Seq(Container) /\ Len(Wanting(o, w)) = Len(o)
    BY <2>1, <2>2, <2>3
  <2>5. \A d \in DOMAIN o : Wanting(o, w)[d] = IF d = n THEN c ELSE o[d]
    BY <2>3
  <2> QED
    BY <2>1, <2>2, <2>4, <2>5
<1>2. CASE ~(o # <<>> /\ Last(o).kind = "object")
  BY <1>2 DEF Wanting, Last
<1> QED
  BY <1>1, <1>2

LEMMA MarkProperties ==
    ASSUME NEW st \in Seq(Level)
    PROVE  /\ MarkValueConsumed(st) \in Seq(Level)
           /\ Len(MarkValueConsumed(st)) = Len(st)
           /\ DOMAIN MarkValueConsumed(st) = DOMAIN st
           /\ \A d \in DOMAIN st :
                /\ MarkValueConsumed(st)[d].keys = st[d].keys
                /\ MarkValueConsumed(st)[d].isObj = st[d].isObj
                /\ d = Len(st) /\ st[d].isObj => MarkValueConsumed(st)[d].needKey
                /\ ~(d = Len(st) /\ st[d].isObj) =>
                     MarkValueConsumed(st)[d].needKey = st[d].needKey
<1>1. CASE st # <<>> /\ Last(st).isObj
  <2> DEFINE n == Len(st)
             l == [st[n] EXCEPT !.needKey = TRUE]
  <2>1. n \in DOMAIN st /\ st[n] \in Level /\ st[n].isObj
    BY <1>1 DEF Last
  <2>2. l \in Level /\ l.keys = st[n].keys /\ l.isObj = st[n].isObj /\ l.needKey = TRUE
    BY <2>1 DEF Level
  <2>3. MarkValueConsumed(st) = [st EXCEPT ![n] = l]
    BY <1>1 DEF MarkValueConsumed
  <2> HIDE DEF l
  <2>4. MarkValueConsumed(st) \in Seq(Level) /\ Len(MarkValueConsumed(st)) = Len(st)
    BY <2>1, <2>2, <2>3
  <2>5. /\ MarkValueConsumed(st)[n] = l
        /\ \A d \in DOMAIN st : d # n => MarkValueConsumed(st)[d] = st[d]
    BY <2>1, <2>3
  <2>6. DOMAIN MarkValueConsumed(st) = DOMAIN st
    BY <2>4
  <2> QED
    BY <2>1, <2>2, <2>4, <2>5, <2>6
<1>2. CASE ~(st # <<>> /\ Last(st).isObj)
  <2>1. MarkValueConsumed(st) = st
    BY <1>2 DEF MarkValueConsumed
  <2>2. \A d \in DOMAIN st : d = Len(st) => ~st[d].isObj
    BY <1>2 DEF Last
  <2> QED
    BY <2>1, <2>2
<1> QED
  BY <1>1, <1>2

(* Both stacks are in step on the question of what comes next. *)
LEMMA NextInStep ==
    ASSUME Inv, scan = "reading"
    PROVE  /\ NeedsKey <=> Wants = "key"
           /\ open = <<>> <=> stack = <<>>
           /\ Owner \in Nat /\ Owner <= Len(text)
           /\ NeedsKey => /\ open # <<>> /\ stack # <<>>
                         /\ Owner = open[Len(open)].at
                         /\ Last(stack).keys = KeysRead(Owner)
<1>1. open \in Seq(Container) /\ stack \in Seq(Level) /\ Len(text) \in Nat
  BY DEF Inv, TypeOK
<1>2. Len(stack) = Len(open)
  BY DEF Inv, ScannerInStep
<1>3. CASE open = <<>>
  BY <1>1, <1>2, <1>3 DEF NeedsKey, Wants, Owner
<1>4. CASE open # <<>>
  <2>1. Len(open) \in DOMAIN open /\ stack # <<>>
    BY <1>1, <1>2, <1>4
  <2>2. /\ stack[Len(open)].isObj = (open[Len(open)].kind = "object")
        /\ stack[Len(open)].needKey =
             (open[Len(open)].kind = "object" /\ open[Len(open)].wants = "key")
        /\ stack[Len(open)].keys = KeysRead(open[Len(open)].at)
    BY <2>1 DEF Inv, ScannerInStep
  <2>3. open[Len(open)].kind = "array" => open[Len(open)].wants = "value"
    BY <2>1 DEF Inv, Nesting
  <2>4. open[Len(open)] \in Container
    BY <2>1, <1>1
  <2>5. Owner = open[Len(open)].at /\ Owner \in Nat /\ Owner <= Len(text)
    BY <1>4, <2>1, <2>4 DEF Owner, Last, Container, Inv, Nesting
  <2>6. NeedsKey <=> Wants = "key"
    BY <1>2, <1>4, <2>1, <2>2, <2>3, <2>4 DEF NeedsKey, Wants, Last, Container
  <2> QED BY <1>2, <1>4, <2>1, <2>2, <2>5, <2>6 DEF Last
<1> QED BY <1>3, <1>4

-----------------------------------------------------------------------------
LEMMA Ranges ==
    ASSUME Inv
    PROVE  /\ \A d \in DOMAIN open : open[d].at \in Nat /\ open[d].at <= Len(text)
           /\ \A i \in DOMAIN text : text[i].in \in Nat /\ text[i].in <= Len(text)
<1>1. open \in Seq(Container) /\ text \in Seq(Token)
  BY DEF Inv, TypeOK
<1>2. /\ \A d \in DOMAIN open : open[d] \in Container
      /\ \A i \in DOMAIN text : text[i] \in Token
  BY <1>1
<1>3. /\ \A d \in DOMAIN open : open[d].at \in Nat
      /\ \A i \in DOMAIN text : text[i].in \in Nat
  BY <1>2 DEF Container, Token
<1> QED
  BY <1>3 DEF Inv, Nesting

(* A token that is no key leaves the keys read as they were, and with them  *)
(* the duplicates and the levels of the containers that stay open.          *)
LEMMA NoKeyNoDuplicate ==
    ASSUME Inv, scan = "reading", scan' = "reading",
           NEW t \in Token, text' = Append(text, t), t.is # "key"
    PROVE  DuplicatesAreFound'
<1>1. ~ \E i, j \in DOMAIN text : SameKey(i, j)
  BY DEF Inv, DuplicatesAreFound
<1>2. ~ \E i, j \in DOMAIN text' : SameKey(i, j)'
  BY <1>1, NoKeyAdded DEF Inv
<1> QED
  BY <1>2 DEF DuplicatesAreFound, SameKey

LEMMA StepOpen ==
    ASSUME Inv, NEW kind \in {"object", "array"}, OpenContainer(kind)
    PROVE  Inv'
<1> DEFINE t == [is |-> kind, what |-> Nothing, in |-> Owner]
           c == [at    |-> Len(text) + 1,
                 kind  |-> kind,
                 wants |-> IF kind = "object" THEN "key" ELSE "value"]
           l == [keys |-> {}, isObj |-> kind = "object", needKey |-> kind = "object"]
<1>1. /\ scan = "reading" /\ scan' = "reading" /\ text' = Append(text, t)
      /\ open' = Append(open, c) /\ stack' = Append(stack, l)
  BY DEF OpenContainer, Reads
<1>2. t \in Token /\ t.is # "key" /\ t.in = Owner /\ Owner <= Len(text) /\ Owner \in Nat
  BY <1>1, NextInStep DEF Token
<1>3. /\ text \in Seq(Token) /\ open \in Seq(Container) /\ stack \in Seq(Level)
      /\ Len(text) \in Nat /\ Len(stack) = Len(open) /\ Len(open) \in Nat
  BY <1>1 DEF Inv, TypeOK, ScannerInStep
<1>p. PICK p \in Nat : p = Len(text) + 1
  BY <1>3
<1>n. PICK n \in Nat : n = Len(open) + 1
  BY <1>3
<1>4. c \in Container /\ c.at = p /\ c.kind = kind
      /\ (kind = "object" => c.wants = "key") /\ (kind = "array" => c.wants = "value")
  BY <1>3, <1>p DEF Container
<1>5. l \in Level /\ l.keys = {}
      /\ l.isObj = (kind = "object") /\ l.needKey = (kind = "object")
  BY DEF Level
<1>6. /\ text' \in Seq(Token) /\ Len(text') = Len(text) + 1
      /\ DOMAIN text' = DOMAIN text \cup {Len(text) + 1}
      /\ \A i \in DOMAIN text : text'[i] = text[i]
      /\ text'[Len(text) + 1] = t
  BY <1>1, <1>2, AppendedText DEF Inv
<1> HIDE DEF t, c, l
<1>7. /\ open' \in Seq(Container) /\ DOMAIN open' = DOMAIN open \cup {n}
      /\ n \notin DOMAIN open /\ open'[n] = c /\ Len(open') = n
      /\ \A d \in DOMAIN open : open'[d] = open[d]
  BY <1>1, <1>3, <1>4, <1>n
<1>8. /\ stack' \in Seq(Level) /\ DOMAIN stack' = DOMAIN stack \cup {n}
      /\ stack'[n] = l /\ Len(stack') = n
      /\ \A d \in DOMAIN stack : stack'[d] = stack[d]
  BY <1>1, <1>3, <1>5, <1>n
<1>9. TypeOK'
  <2>1. \A d \in DOMAIN stack' :
          ~stack'[d].isObj => stack'[d].keys = {} /\ ~stack'[d].needKey
    BY <1>5, <1>8 DEF Inv, TypeOK
  <2> QED
    BY <2>1, <1>1, <1>6, <1>7, <1>8 DEF TypeOK
<1>10. Nesting'
  <2>1. \A d \in DOMAIN open : open'[d].at <= Len(text) /\ open'[d].at \in Nat
    BY <1>7, Ranges
  <2>2. \A d \in DOMAIN open' : open'[d].at <= Len(text')
    BY <2>1, <1>3, <1>4, <1>6, <1>7, <1>p
  <2>3. \A d, e \in DOMAIN open' : open'[d].at = open'[e].at => d = e
    <3>1. \A d, e \in DOMAIN open : open'[d].at = open'[e].at => d = e
      BY <1>7 DEF Inv, Nesting
    <3>2. \A d \in DOMAIN open : open'[d].at # open'[n].at
      BY <2>1, <1>3, <1>4, <1>7, <1>p
    <3> QED
      BY <3>1, <3>2, <1>7
  <2>4. \A d \in DOMAIN open' : open'[d].kind = "array" => open'[d].wants = "value"
    BY <1>4, <1>7 DEF Inv, Nesting
  <2>5. \A i \in DOMAIN text : text'[i].in <= Len(text) /\ text'[i].in \in Nat
    BY <1>6, Ranges
  <2>6. \A i \in DOMAIN text' : text'[i].in <= Len(text')
    BY <2>5, <1>2, <1>3, <1>6
  <2> QED
    BY <2>2, <2>3, <2>4, <2>6 DEF Nesting
<1>11. DuplicatesAreFound'
  BY <1>1, <1>2, NoKeyNoDuplicate
<1>12. ScannerInStep'
  <2>1. \A a : KeysRead(a)' = KeysRead(a)
    BY <1>1, <1>2, NoKeyAdded DEF Inv
  <2>2. KeysRead(p) = {}
    <3>1. \A i \in DOMAIN text : text[i].in # p
      BY <1>3, <1>p, Ranges
    <3> QED
      BY <3>1 DEF KeysRead
  <2>3. \A d \in DOMAIN open :
          /\ stack'[d].isObj = (open'[d].kind = "object")
          /\ stack'[d].needKey = (open'[d].kind = "object" /\ open'[d].wants = "key")
          /\ stack'[d].keys = KeysRead(open[d].at)'
    <3>1. DOMAIN open = DOMAIN stack
      BY <1>3
    <3> QED
      BY <3>1, <2>1, <1>1, <1>7, <1>8 DEF Inv, ScannerInStep
  <2>4. /\ stack'[n].isObj = (open'[n].kind = "object")
        /\ stack'[n].needKey = (open'[n].kind = "object" /\ open'[n].wants = "key")
        /\ stack'[n].keys = KeysRead(open[n].at)'
    <3>1. KeysRead(p)' = {} /\ open'[n].at = p
      BY <2>1, <2>2, <1>4, <1>7
    <3>2. stack'[n].keys = KeysRead(open[n].at)'
      BY <3>1, <1>5, <1>8
    <3>3. /\ stack'[n].isObj = (kind = "object")
          /\ stack'[n].needKey = (kind = "object")
      BY <1>5, <1>8
    <3>4. open'[n].kind = kind /\ (open'[n].wants = "key" <=> kind = "object")
      BY <1>4, <1>7
    <3> QED
      BY <3>2, <3>3, <3>4
  <2>5. \A d \in DOMAIN open' :
          /\ stack'[d].isObj = (open'[d].kind = "object")
          /\ stack'[d].needKey = (open'[d].kind = "object" /\ open'[d].wants = "key")
          /\ stack'[d].keys = KeysRead(open[d].at)'
    BY <2>3, <2>4, <1>7
  <2> QED
    BY <2>5, <1>7, <1>8 DEF ScannerInStep
<1> QED
  BY <1>9, <1>10, <1>11, <1>12 DEF Inv

(* A token that is no key and opens no container, when the stacks lose the  *)
(* same levels, and stay in step on the others.                             *)
LEMMA StepInside ==
    ASSUME Inv, scan = "reading", scan' = "reading",
           NEW t \in Token, text' = Append(text, t), t.is # "key", t.in <= Len(text),
           open' \in Seq(Container), stack' \in Seq(Level), Len(stack') = Len(open'),
           \A d \in DOMAIN open' :
             /\ d \in DOMAIN open
             /\ open'[d].at = open[d].at /\ open'[d].kind = open[d].kind
             /\ open'[d].kind = "array" => open'[d].wants = "value"
             /\ stack'[d].keys = stack[d].keys /\ stack'[d].isObj = stack[d].isObj
             /\ stack'[d].needKey = (open'[d].kind = "object" /\ open'[d].wants = "key")
    PROVE  Inv'
<1>1. /\ text' \in Seq(Token) /\ Len(text') = Len(text) + 1 /\ Len(text) \in Nat
      /\ DOMAIN text' = DOMAIN text \cup {Len(text) + 1}
      /\ \A i \in DOMAIN text : text'[i] = text[i]
      /\ text'[Len(text) + 1] = t
  BY AppendedText DEF Inv, TypeOK
<1>2. DOMAIN stack' = DOMAIN open' /\ DOMAIN stack = DOMAIN open
  BY DEF Inv, TypeOK, ScannerInStep
<1>3. \A d \in DOMAIN open :
        /\ stack[d].isObj = (open[d].kind = "object")
        /\ stack[d].keys = KeysRead(open[d].at)
        /\ ~stack[d].isObj => stack[d].keys = {}
  BY <1>2 DEF Inv, ScannerInStep, TypeOK
<1>4. TypeOK'
  <2>1. \A d \in DOMAIN stack' :
          ~stack'[d].isObj => stack'[d].keys = {} /\ ~stack'[d].needKey
    BY <1>2, <1>3
  <2> QED
    BY <2>1, <1>1 DEF TypeOK
<1>5. Nesting'
  <2>1. \A d \in DOMAIN open' : open'[d].at <= Len(text')
    BY <1>1, Ranges
  <2>2. \A d, e \in DOMAIN open' : open'[d].at = open'[e].at => d = e
    BY DEF Inv, Nesting
  <2>3. \A i \in DOMAIN text : text'[i].in <= Len(text) /\ text'[i].in \in Nat
    BY <1>1, Ranges
  <2>4. t.in \in Nat
    BY DEF Token
  <2>5. \A i \in DOMAIN text' : text'[i].in <= Len(text')
    BY <2>3, <2>4, <1>1
  <2> QED
    BY <2>1, <2>2, <2>5 DEF Nesting
<1>6. DuplicatesAreFound'
  BY NoKeyNoDuplicate
<1>7. ScannerInStep'
  <2>1. \A a : KeysRead(a)' = KeysRead(a)
    BY NoKeyAdded DEF Inv
  <2>2. \A d \in DOMAIN open' :
          /\ stack'[d].isObj = (open'[d].kind = "object")
          /\ stack'[d].needKey = (open'[d].kind = "object" /\ open'[d].wants = "key")
          /\ stack'[d].keys = KeysRead(open[d].at)'
    BY <1>3, <2>1
  <2> QED
    BY <2>2 DEF ScannerInStep
<1> QED
  BY <1>4, <1>5, <1>6, <1>7 DEF Inv

(* A value has been read at the innermost level of both stacks. *)
LEMMA Consumed ==
    ASSUME NEW o \in Seq(Container), NEW st \in Seq(Level), Len(st) = Len(o),
           \A d \in DOMAIN o :
             /\ o[d].kind = "array" => o[d].wants = "value"
             /\ st[d].isObj = (o[d].kind = "object")
             /\ st[d].needKey = (o[d].kind = "object" /\ o[d].wants = "key")
    PROVE  \A d \in DOMAIN o :
             /\ Wanting(o, "key")[d].kind = "array" => Wanting(o, "key")[d].wants = "value"
             /\ MarkValueConsumed(st)[d].needKey =
                  (Wanting(o, "key")[d].kind = "object" /\ Wanting(o, "key")[d].wants = "key")
<1> SUFFICES ASSUME NEW d \in DOMAIN o
             PROVE  /\ Wanting(o, "key")[d].kind = "array" => Wanting(o, "key")[d].wants = "value"
                    /\ MarkValueConsumed(st)[d].needKey =
                         (Wanting(o, "key")[d].kind = "object"
                            /\ Wanting(o, "key")[d].wants = "key")
  OBVIOUS
<1>1. DOMAIN st = DOMAIN o
  OBVIOUS
<1>2. /\ Wanting(o, "key")[d].kind = o[d].kind
      /\ Wanting(o, "key")[d].wants =
           IF d = Len(o) /\ o[d].kind = "object" THEN "key" ELSE o[d].wants
  BY WantingProperties
<1>3. CASE d = Len(o) /\ o[d].kind = "object"
  <2>1. MarkValueConsumed(st)[d].needKey
    BY <1>1, <1>3, MarkProperties
  <2>2. MarkValueConsumed(st)[d] \in Level
    BY <1>1, MarkProperties
  <2>3. MarkValueConsumed(st)[d].needKey \in BOOLEAN
    BY <2>2 DEF Level
  <2> QED
    BY <1>2, <1>3, <2>1, <2>3
<1>4. CASE ~(d = Len(o) /\ o[d].kind = "object")
  <2>1. ~(d = Len(st) /\ st[d].isObj)
    BY <1>4
  <2>2. MarkValueConsumed(st)[d].needKey = st[d].needKey
    BY <1>1, <2>1, MarkProperties
  <2> QED
    BY <1>2, <1>4, <2>2
<1> QED
  BY <1>3, <1>4

LEMMA StepClose ==
    ASSUME Inv, CloseContainer
    PROVE  Inv'
<1> DEFINE t == [is |-> "close", what |-> Nothing, in |-> Owner]
<1>1. /\ scan = "reading" /\ scan' = "reading" /\ text' = Append(text, t)
      /\ open # <<>> /\ open' = Wanting(Front(open), "key")
      /\ stack' = MarkValueConsumed(Front(stack))
  BY DEF CloseContainer, CloseAllowed, Reads
<1>2. t \in Token /\ t.is # "key" /\ t.in <= Len(text)
  BY <1>1, NextInStep DEF Token
<1> HIDE DEF t
<1>3. /\ open \in Seq(Container) /\ stack \in Seq(Level) /\ Len(stack) = Len(open)
      /\ stack # <<>>
  BY <1>1 DEF Inv, TypeOK, ScannerInStep
<1>4. /\ Front(open) \in Seq(Container) /\ Front(stack) \in Seq(Level)
      /\ Len(Front(stack)) = Len(Front(open))
      /\ \A d \in DOMAIN Front(open) : d \in DOMAIN open /\ Front(open)[d] = open[d]
      /\ \A d \in DOMAIN Front(stack) : Front(stack)[d] = stack[d]
  BY <1>1, <1>3, FrontProperties
<1>5. DOMAIN Front(stack) = DOMAIN Front(open)
  BY <1>4
<1>6. \A d \in DOMAIN Front(open) :
        /\ Front(open)[d].kind = "array" => Front(open)[d].wants = "value"
        /\ Front(stack)[d].isObj = (Front(open)[d].kind = "object")
        /\ Front(stack)[d].needKey =
             (Front(open)[d].kind = "object" /\ Front(open)[d].wants = "key")
  BY <1>1, <1>4, <1>5 DEF Inv, Nesting, ScannerInStep
<1>7. /\ open' \in Seq(Container) /\ Len(open') = Len(Front(open))
      /\ DOMAIN open' = DOMAIN Front(open)
      /\ \A d \in DOMAIN Front(open) :
           open'[d].at = Front(open)[d].at /\ open'[d].kind = Front(open)[d].kind
  BY <1>1, <1>4, WantingProperties
<1>8. /\ stack' \in Seq(Level) /\ Len(stack') = Len(Front(stack))
      /\ \A d \in DOMAIN Front(open) :
           /\ stack'[d].keys = Front(stack)[d].keys
           /\ stack'[d].isObj = Front(stack)[d].isObj
  BY <1>1, <1>4, <1>5, MarkProperties
<1>9. \A d \in DOMAIN Front(open) :
        /\ open'[d].kind = "array" => open'[d].wants = "value"
        /\ stack'[d].needKey = (open'[d].kind = "object" /\ open'[d].wants = "key")
  BY <1>1, <1>4, <1>6, Consumed
<1>10. \A d \in DOMAIN open' :
        /\ d \in DOMAIN open
        /\ open'[d].at = open[d].at /\ open'[d].kind = open[d].kind
        /\ open'[d].kind = "array" => open'[d].wants = "value"
        /\ stack'[d].keys = stack[d].keys /\ stack'[d].isObj = stack[d].isObj
        /\ stack'[d].needKey = (open'[d].kind = "object" /\ open'[d].wants = "key")
  BY <1>4, <1>5, <1>7, <1>8, <1>9
<1> QED
  BY <1>1, <1>2, <1>4, <1>7, <1>8, <1>10, StepInside

LEMMA StepValue ==
    ASSUME Inv, ScanValue
    PROVE  Inv'
<1>1. scan = "reading" /\ scan' = "reading"
  BY DEF ScanValue, ReadsOther, ReadsString, ReadsKey, ReadsValue, Reads
<1>2. Wants # "key"
  BY <1>1, NextInStep DEF ScanValue
<1>3. PICK is \in {"null", "number", "string"},
           what \in Spelling \cup Literal \cup {Nothing} :
        ReadsValue(is, what)
  BY <1>2, UnquoteAssumption DEF ScanValue, ReadsOther, ReadsString, ReadsKey
<1> DEFINE t == [is |-> is, what |-> what, in |-> Owner]
<1>4. /\ text' = Append(text, t) /\ open' = Wanting(open, "key")
      /\ stack' = MarkValueConsumed(stack)
  BY <1>3 DEF ScanValue, ReadsValue, Reads
<1>5. t \in Token /\ t.is # "key" /\ t.in <= Len(text)
  BY <1>1, NextInStep DEF Token
<1> HIDE DEF t
<1>6. /\ open \in Seq(Container) /\ stack \in Seq(Level) /\ Len(stack) = Len(open)
      /\ DOMAIN stack = DOMAIN open
      /\ \A d \in DOMAIN open :
           /\ open[d].kind = "array" => open[d].wants = "value"
           /\ stack[d].isObj = (open[d].kind = "object")
           /\ stack[d].needKey = (open[d].kind = "object" /\ open[d].wants = "key")
  BY <1>1 DEF Inv, TypeOK, Nesting, ScannerInStep
<1>7. /\ open' \in Seq(Container) /\ DOMAIN open' = DOMAIN open
      /\ stack' \in Seq(Level) /\ Len(stack') = Len(open')
      /\ \A d \in DOMAIN open :
           /\ open'[d].at = open[d].at /\ open'[d].kind = open[d].kind
           /\ stack'[d].keys = stack[d].keys /\ stack'[d].isObj = stack[d].isObj
  BY <1>4, <1>6, WantingProperties, MarkProperties
<1>8. \A d \in DOMAIN open :
        /\ open'[d].kind = "array" => open'[d].wants = "value"
        /\ stack'[d].needKey = (open'[d].kind = "object" /\ open'[d].wants = "key")
  BY <1>4, <1>6, Consumed
<1> QED
  BY <1>1, <1>4, <1>5, <1>7, <1>8, StepInside

-----------------------------------------------------------------------------
(* A key. *)

(* The string read where the scanner needs a key is a key to the decoder.   *)
LEMMA KeyToken ==
    ASSUME Inv, scan = "reading", NeedsKey, NEW s \in Spelling, ReadsString(s)
    PROVE  /\ text' = Append(text, [is |-> "key", what |-> s, in |-> Owner])
           /\ open' = Wanting(open, "value")
           /\ [is |-> "key", what |-> s, in |-> Owner] \in Token
<1>1. Wants = "key" /\ Owner \in Nat
  BY NextInStep
<1>2. ReadsKey(s)
  BY <1>1 DEF ReadsString, ReadsValue
<1> QED
  BY <1>1, <1>2 DEF ReadsKey, Reads, Token

LEMMA StepKey ==
    ASSUME Inv, ScanKey
    PROVE  Inv'
<1>1. scan = "reading" /\ scan' = "reading" /\ NeedsKey
  BY DEF ScanKey, ReadsString, ReadsKey, ReadsValue, Reads
<1>2. PICK s \in Spelling : ReadsString(s) /\ ~Seen(s) /\ AddKey(Unquote[s])
  BY DEF ScanKey
<1>3. PICK c \in Nat : c = Owner
  BY <1>1, NextInStep
<1>4. PICK n \in Nat : n = Len(open)
  BY DEF Inv, TypeOK
<1> DEFINE t == [is |-> "key", what |-> s, in |-> c]
           l == [keys    |-> stack[n].keys \cup {Unquote[s]},
                 isObj   |-> stack[n].isObj,
                 needKey |-> FALSE]
<1>5. text' = Append(text, t) /\ open' = Wanting(open, "value") /\ t \in Token
  BY <1>1, <1>2, <1>3, KeyToken
<1>6. /\ open # <<>> /\ c = open[n].at /\ c <= Len(text)
      /\ stack[n].keys = KeysRead(c) /\ Unquote[s] \notin KeysRead(c)
  BY <1>1, <1>2, <1>3, <1>4, NextInStep DEF Inv, ScannerInStep, Seen, Last
<1>7. /\ open \in Seq(Container) /\ stack \in Seq(Level) /\ Len(stack) = n
      /\ DOMAIN stack = DOMAIN open /\ n \in DOMAIN open /\ Unquote[s] \in Seq(Nat)
  BY <1>1, <1>4, <1>6, UnquoteAssumption DEF Inv, TypeOK, ScannerInStep
<1>8. /\ stack[n] \in Level /\ stack[n].isObj /\ open[n].kind = "object"
  <2>1. stack[n].isObj
    BY <1>1, <1>7 DEF NeedsKey, Last
  <2>2. stack[n].isObj = (open[n].kind = "object")
    BY <1>1, <1>7 DEF Inv, ScannerInStep
  <2>3. stack[n] \in Level
    BY <1>7
  <2> QED
    BY <2>1, <2>2, <2>3
<1>9. /\ l \in Level /\ l.keys = KeysRead(c) \cup {Unquote[s]}
      /\ l.isObj = stack[n].isObj /\ l.needKey = FALSE
  BY <1>6, <1>7, <1>8 DEF Level
<1>10. stack' = [stack EXCEPT ![n] = l]
  BY <1>2, <1>7 DEF AddKey
<1>11. /\ text' \in Seq(Token) /\ Len(text') = Len(text) + 1 /\ Len(text) \in Nat
       /\ DOMAIN text' = DOMAIN text \cup {Len(text) + 1}
       /\ \A i \in DOMAIN text : text'[i] = text[i]
       /\ text'[Len(text) + 1] = t
  BY <1>5, AppendedText DEF Inv, TypeOK
<1>12. /\ KeysRead(c)' = KeysRead(c) \cup {Unquote[s]}
       /\ \A a : a # c => KeysRead(a)' = KeysRead(a)
  BY <1>5, KeyAdded DEF Inv
<1> HIDE DEF l
<1>13. /\ stack' \in Seq(Level) /\ Len(stack') = n /\ DOMAIN stack' = DOMAIN open
       /\ stack'[n] = l /\ \A d \in DOMAIN open : d # n => stack'[d] = stack[d]
  BY <1>7, <1>9, <1>10
<1>14. /\ open' \in Seq(Container) /\ Len(open') = n /\ DOMAIN open' = DOMAIN open
       /\ \A d \in DOMAIN open :
            /\ open'[d].at = open[d].at /\ open'[d].kind = open[d].kind
            /\ d # n => open'[d].wants = open[d].wants
            /\ open'[d].kind = "array" => open'[d].wants = open[d].wants
       /\ open'[n].wants = "value"
  BY <1>4, <1>5, <1>7, <1>8, WantingProperties
<1>15. TypeOK'
  <2>1. \A d \in DOMAIN stack' :
          ~stack'[d].isObj => stack'[d].keys = {} /\ ~stack'[d].needKey
    BY <1>7, <1>8, <1>9, <1>13 DEF Inv, TypeOK
  <2> QED
    BY <2>1, <1>1, <1>11, <1>13, <1>14 DEF TypeOK
<1>16. Nesting'
  <2>1. \A d \in DOMAIN open' : open'[d].at <= Len(text')
    BY <1>11, <1>14, Ranges
  <2>2. /\ \A d, e \in DOMAIN open' : open'[d].at = open'[e].at => d = e
        /\ \A d \in DOMAIN open' : open'[d].kind = "array" => open'[d].wants = "value"
    BY <1>14 DEF Inv, Nesting
  <2>3. \A i \in DOMAIN text : text'[i].in <= Len(text) /\ text'[i].in \in Nat
    BY <1>11, Ranges
  <2>4. \A i \in DOMAIN text' : text'[i].in <= Len(text')
    BY <2>3, <1>6, <1>11
  <2> QED
    BY <2>1, <2>2, <2>4 DEF Nesting
<1>17. DuplicatesAreFound'
  <2>1. \A i, j \in DOMAIN text : ~SameKey(i, j)
    BY <1>1 DEF Inv, DuplicatesAreFound
  <2>2. \A i \in DOMAIN text :
          text[i].is = "key" /\ text[i].in = c => Unquote[text[i].what] # Unquote[s]
    BY <1>6 DEF KeysRead
  <2>3. t.is = "key" /\ t.what = s /\ t.in = c
    OBVIOUS
  <2> HIDE DEF t
  <2>4. \A i, j \in DOMAIN text' : ~SameKey(i, j)'
    <3>1. \A i, j \in DOMAIN text : ~SameKey(i, j)'
      BY <2>1, <1>11 DEF SameKey
    <3>2. \A i \in DOMAIN text :
            /\ text'[i].is = "key" /\ text'[i].in = text'[Len(text) + 1].in =>
                 Unquote[text'[i].what] # Unquote[text'[Len(text) + 1].what]
      BY <2>2, <2>3, <1>11
    <3>3. PICK m \in Nat : m = Len(text) + 1
      BY <1>11
    <3>4. \A i \in DOMAIN text : ~SameKey(i, m)' /\ ~SameKey(m, i)'
      BY <3>2, <3>3 DEF SameKey
    <3>5. ~SameKey(m, m)'
      BY DEF SameKey
    <3> QED
      BY <3>1, <3>3, <3>4, <3>5, <1>11
  <2> QED
    BY <2>4, <1>1 DEF DuplicatesAreFound
<1>18. ScannerInStep'
  <2>1. \A d \in DOMAIN open : d # n =>
          /\ stack'[d].isObj = (open'[d].kind = "object")
          /\ stack'[d].needKey = (open'[d].kind = "object" /\ open'[d].wants = "key")
          /\ stack'[d].keys = KeysRead(open[d].at)'
    <3>1. \A d \in DOMAIN open : d # n => open[d].at # c
      BY <1>6, <1>7 DEF Inv, Nesting
    <3>2. \A d \in DOMAIN open :
            /\ stack[d].isObj = (open[d].kind = "object")
            /\ stack[d].needKey = (open[d].kind = "object" /\ open[d].wants = "key")
            /\ stack[d].keys = KeysRead(open[d].at)
      BY <1>1 DEF Inv, ScannerInStep
    <3> QED
      BY <3>1, <3>2, <1>12, <1>13, <1>14
  <2>2. /\ stack'[n].isObj = (open'[n].kind = "object")
        /\ stack'[n].needKey = (open'[n].kind = "object" /\ open'[n].wants = "key")
        /\ stack'[n].keys = KeysRead(open[n].at)'
    <3>1. open'[n].at = c /\ open'[n].kind = "object" /\ open'[n].wants = "value"
      BY <1>6, <1>7, <1>8, <1>14
    <3>2. stack'[n].keys = KeysRead(c)'
      BY <1>9, <1>12, <1>13
    <3>3. stack'[n].isObj = TRUE /\ stack'[n].needKey = FALSE
      BY <1>8, <1>9, <1>13 DEF Level
    <3> QED
      BY <3>1, <3>2, <3>3
  <2>3. \A d \in DOMAIN open' :
          /\ stack'[d].isObj = (open'[d].kind = "object")
          /\ stack'[d].needKey = (open'[d].kind = "object" /\ open'[d].wants = "key")
          /\ stack'[d].keys = KeysRead(open[d].at)'
    BY <2>1, <2>2, <1>14
  <2> QED
    BY <2>3, <1>13, <1>14 DEF ScannerInStep
<1> QED
  BY <1>15, <1>16, <1>17, <1>18 DEF Inv

LEMMA StepDuplicate ==
    ASSUME Inv, FindDuplicate
    PROVE  Inv'
<1>1. scan = "reading" /\ scan' = "duplicate" /\ NeedsKey /\ stack' = stack
  BY DEF FindDuplicate, ReadsString, ReadsKey, ReadsValue, Reads
<1>2. PICK s \in Spelling : ReadsString(s) /\ Seen(s)
  BY DEF FindDuplicate
<1>3. PICK c \in Nat : c = Owner
  BY <1>1, NextInStep
<1> DEFINE t == [is |-> "key", what |-> s, in |-> c]
<1>4. text' = Append(text, t) /\ open' = Wanting(open, "value") /\ t \in Token
  BY <1>1, <1>2, <1>3, KeyToken
<1>5. c <= Len(text) /\ Unquote[s] \in KeysRead(c)
  BY <1>1, <1>2, <1>3, NextInStep DEF Seen
<1>6. t.is = "key" /\ t.what = s /\ t.in = c
  OBVIOUS
<1> HIDE DEF t
<1>7. /\ text' \in Seq(Token) /\ Len(text') = Len(text) + 1 /\ Len(text) \in Nat
      /\ DOMAIN text' = DOMAIN text \cup {Len(text) + 1}
      /\ \A i \in DOMAIN text : text'[i] = text[i]
      /\ text'[Len(text) + 1] = t /\ Len(text) + 1 \notin DOMAIN text
  BY <1>4, AppendedText DEF Inv, TypeOK
<1>8. /\ open \in Seq(Container) /\ open' \in Seq(Container) /\ DOMAIN open' = DOMAIN open
      /\ \A d \in DOMAIN open :
           /\ open'[d].at = open[d].at /\ open'[d].kind = open[d].kind
           /\ open'[d].kind = "array" => open'[d].wants = open[d].wants
  BY <1>4, WantingProperties DEF Inv, TypeOK
<1>9. TypeOK'
  BY <1>1, <1>7, <1>8 DEF Inv, TypeOK
<1>10. Nesting'
  <2>1. \A d \in DOMAIN open' : open'[d].at <= Len(text')
    BY <1>7, <1>8, Ranges
  <2>2. /\ \A d, e \in DOMAIN open' : open'[d].at = open'[e].at => d = e
        /\ \A d \in DOMAIN open' : open'[d].kind = "array" => open'[d].wants = "value"
    BY <1>8 DEF Inv, Nesting
  <2>3. \A i \in DOMAIN text : text'[i].in <= Len(text) /\ text'[i].in \in Nat
    BY <1>7, Ranges
  <2>4. \A i \in DOMAIN text' : text'[i].in <= Len(text')
    BY <2>3, <1>5, <1>6, <1>7
  <2> QED
    BY <2>1, <2>2, <2>4 DEF Nesting
<1>11. DuplicatesAreFound'
  <2>1. PICK i \in DOMAIN text :
          text[i].is = "key" /\ text[i].in = c /\ Unquote[text[i].what] = Unquote[s]
    BY <1>5 DEF KeysRead
  <2>2. PICK m \in Nat : m = Len(text) + 1
    BY <1>7
  <2>3. i # m /\ i \in DOMAIN text' /\ m \in DOMAIN text'
    BY <2>2, <1>7
  <2>4. SameKey(i, m)'
    BY <2>1, <2>2, <2>3, <1>6, <1>7 DEF SameKey
  <2> QED
    BY <2>3, <2>4, <1>1 DEF DuplicatesAreFound
<1>12. ScannerInStep'
  BY <1>1 DEF ScannerInStep
<1> QED
  BY <1>9, <1>10, <1>11, <1>12 DEF Inv

-----------------------------------------------------------------------------

LEMMA Unscanned ==
    ASSUME Inv, UNCHANGED <<text, open, stack>>,
           (scan = "reading" /\ scan' \in {"ended", "malformed"}) \/ scan' = scan
    PROVE  Inv'
<1>1. TypeOK'
  BY DEF Inv, TypeOK
<1>2. Nesting'
  BY DEF Inv, Nesting
<1>3. \A i, j : SameKey(i, j)' <=> SameKey(i, j)
  BY DEF SameKey
<1>4. DuplicatesAreFound'
  BY <1>3 DEF Inv, DuplicatesAreFound
<1>5. \A a : KeysRead(a)' = KeysRead(a)
  BY DEF KeysRead
<1>6. ScannerInStep'
  BY <1>5 DEF Inv, ScannerInStep
<1> QED
  BY <1>1, <1>2, <1>4, <1>6 DEF Inv

LEMMA Initially == Init => Inv
<1> SUFFICES ASSUME Init PROVE Inv
  OBVIOUS
<1>1. text = <<>> /\ open = <<>> /\ stack = <<>> /\ scan = "reading"
  BY DEF Init, ScanInit
<1>2. TypeOK /\ Nesting
  BY <1>1 DEF TypeOK, Nesting
<1>3. DuplicatesAreFound /\ ScannerInStep
  BY <1>1 DEF DuplicatesAreFound, ScannerInStep
<1> QED
  BY <1>2, <1>3 DEF Inv

LEMMA Inductive == Inv /\ [Next]_vars => Inv'
<1> SUFFICES ASSUME Inv, [Next]_vars PROVE Inv'
  OBVIOUS
<1>1. ASSUME NEW kind \in {"object", "array"}, OpenContainer(kind) PROVE Inv'
  BY <1>1, StepOpen
<1>2. CASE CloseContainer
  BY <1>2, StepClose
<1>3. CASE ScanKey
  BY <1>3, StepKey
<1>4. CASE FindDuplicate
  BY <1>4, StepDuplicate
<1>5. CASE ScanValue
  BY <1>5, StepValue
<1>6. CASE StopMalformed
  BY <1>6, Unscanned DEF StopMalformed
<1>7. CASE EndOfText
  BY <1>7, Unscanned DEF EndOfText
<1>8. CASE Write
  BY <1>8, Unscanned DEF Write, scanVars
<1>9. CASE RefuseDuplicate
  BY <1>9, Unscanned DEF RefuseDuplicate, scanVars
<1>10. CASE UNCHANGED vars
  BY <1>10, Unscanned DEF vars, scanVars
<1> QED
  BY <1>1, <1>2, <1>3, <1>4, <1>5, <1>6, <1>7, <1>8, <1>9, <1>10
     DEF Next, CheckNoDuplicateKeys

LEMMA Invariance == Spec => []Inv
BY Initially, Inductive, PTL DEF Spec

(***************************************************************************)
(* CheckNoDuplicateKeys fails exactly when some object of the text, at any *)
(* depth, has two members of one name (canonical.go:98-162).               *)
(***************************************************************************)
THEOREM DuplicateTheorem == Spec => []DuplicatesAreFound
<1>1. Inv => DuplicatesAreFound
  BY DEF Inv
<1> QED
  BY <1>1, Invariance, PTL

(***************************************************************************)
(* The scanner's own stack is the decoder's, so that "}" and "]" never pop *)
(* an empty one and a key position is never taken for a value.             *)
(***************************************************************************)
THEOREM InStepTheorem == Spec => []ScannerInStep
<1>1. Inv => ScannerInStep
  BY DEF Inv
<1> QED
  BY <1>1, Invariance, PTL

(* The types of the scan, arrays never holding keys. *)
THEOREM ScanTypesTheorem == Spec => []TypeOK
<1>1. Inv => TypeOK
  BY DEF Inv
<1> QED
  BY <1>1, Invariance, PTL
=============================================================================
