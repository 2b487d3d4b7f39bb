------------------------------ MODULE JsonScan ------------------------------
(***************************************************************************)
(* canonical.CheckNoDuplicateKeys (internal/canonical/canonical.go): a     *)
(* pass over the tokens of a JSON text with a stack of its own, before the *)
(* text is decoded into maps that would keep one of two equal keys.  The   *)
(* tokens and the grammar are encoding/json's; the text is chosen as it is *)
(* read.                                                                   *)
(***************************************************************************)
EXTENDS Integers, FiniteSets, SequencesExt

CONSTANTS
    Spelling,      \* JSON strings as they are written
    Unquote,       \* what each of them decodes to: a sequence of code points
    StringValue,   \* the ones that occur as values
    Literal,       \* JSON numbers as they are written
    Nothing,       \* what a bracket or null carries
    MaxTokens,     \* bound on the tokens of a text
    NumbersAt      \* bound: the tokens of it that may be numbers

(* Decoding leaves no surrogates: encoding/json puts U+FFFD for a lone one. *)
IsCodePoint(c) == c < 1114112 /\ ~(55295 < c /\ c < 57344)

ASSUME UnquoteAssumption ==
    /\ Unquote \in [Spelling -> Seq(Nat)]
    /\ \A s \in Spelling : \A i \in DOMAIN Unquote[s] : IsCodePoint(Unquote[s][i])
    /\ StringValue \subseteq Spelling
ASSUME TextBounds == MaxTokens \in Nat /\ NumbersAt \subseteq Nat

VARIABLES
    text,     \* the tokens read so far
    open,     \* json.Decoder: the containers it is in and what each wants next
    stack,    \* the scanner's levels
    scan      \* reading, ended, malformed or duplicate

scanVars == <<text, open, stack, scan>>

(* A token remembers the opening token of its container, 0 at top level; a  *)
(* closing bracket, that of the container it closes.  "null" is also true   *)
(* and false.                                                               *)
Token ==
    [ is   : {"object", "array", "close", "key", "string", "number", "null"},
      what : Spelling \cup Literal \cup {Nothing},
      in   : Nat ]

Container == [at : Nat \ {0}, kind : {"object", "array"}, wants : {"key", "value"}]

Level == [keys : SUBSET Seq(Nat), isObj : BOOLEAN, needKey : BOOLEAN]

ScanInit ==
    /\ text = <<>>
    /\ open = <<>>
    /\ stack = <<>>
    /\ scan = "reading"

-----------------------------------------------------------------------------
(* json.Decoder.Token: which token may come next, and where it leaves the   *)
(* decoder.                                                                 *)

Owner == IF open = <<>> THEN 0 ELSE Last(open).at

Wants == IF open = <<>> THEN "value" ELSE Last(open).wants

CloseAllowed ==
    open # <<>> /\ Wants = IF Last(open).kind = "object" THEN "key" ELSE "value"

(* The innermost object wants w next; an array always wants a value. *)
Wanting(o, w) ==
    IF o # <<>> /\ Last(o).kind = "object"
      THEN [o EXCEPT ![Len(o)].wants = w]
      ELSE o

Reads(is, what) ==
    /\ scan = "reading"
    /\ Len(text) < MaxTokens
    /\ text' = Append(text, [is |-> is, what |-> what, in |-> Owner])

(* A string in key position is a key to the decoder, any other a value. *)
ReadsKey(s) ==
    /\ Wants = "key"
    /\ Reads("key", s)
    /\ open' = Wanting(open, "value")

ReadsValue(is, what) ==
    /\ Wants = "value"
    /\ is = "number" => Len(text) + 1 \in NumbersAt
    /\ Reads(is, what)
    /\ open' = Wanting(open, "key")

(* A scalar token, whatever the decoder takes it for. *)
ReadsString(s) == ReadsKey(s) \/ (s \in StringValue /\ ReadsValue("string", s))

ReadsOther == ReadsValue("null", Nothing) \/ \E n \in Literal : ReadsValue("number", n)

-----------------------------------------------------------------------------
(* The loop over the tokens. *)

(* Mutation: a closed container is not seen as a value of an object. *)
NothingConsumed(st) == st

(* Mutation: arrays are marked as well. *)
MarkAnyLevel(st) == IF st # <<>> THEN [st EXCEPT ![Len(st)].needKey = TRUE] ELSE st

MarkValueConsumed(st) ==
    IF st # <<>> /\ Last(st).isObj
      THEN [st EXCEPT ![Len(st)].needKey = TRUE]
      ELSE st

OpenContainer(kind) ==
    /\ Wants = "value"
    /\ Reads(kind, Nothing)
    /\ open' = Append(open,
         [at    |-> Len(text) + 1,
          kind  |-> kind,
          wants |-> IF kind = "object" THEN "key" ELSE "value"])
    /\ stack' = Append(stack,
         [keys |-> {}, isObj |-> kind = "object", needKey |-> kind = "object"])
    /\ UNCHANGED scan

CloseContainer ==
    /\ CloseAllowed
    /\ Reads("close", Nothing)
    /\ open' = Wanting(Front(open), "key")
    /\ stack' = MarkValueConsumed(Front(stack))
    /\ UNCHANGED scan

NeedsKey == stack # <<>> /\ Last(stack).isObj /\ Last(stack).needKey

(* Mutation: strings are compared as they are written. *)
SeenAsWritten(s) ==
    \E i \in DOMAIN text :
        text[i].is = "key" /\ text[i].what = s /\ text[i].in = Owner

Seen(s) == Unquote[s] \in Last(stack).keys

AddKey(key) ==
    stack' = [stack EXCEPT ![Len(stack)] =
                  [keys |-> @.keys \cup {key}, isObj |-> @.isObj, needKey |-> FALSE]]

(* The token is always a string here (ScannerInStep): tok.(string) holds. *)
ScanKey ==
    /\ NeedsKey
    /\ \E s \in Spelling :
         /\ ReadsString(s)
         /\ ~Seen(s)
         /\ AddKey(Unquote[s])
    /\ UNCHANGED scan

FindDuplicate ==
    /\ NeedsKey
    /\ \E s \in Spelling : ReadsString(s) /\ Seen(s)
    /\ scan' = "duplicate"
    /\ UNCHANGED stack

ScanValue ==
    /\ ~NeedsKey
    /\ ReadsOther \/ \E s \in Spelling : ReadsString(s)
    /\ stack' = MarkValueConsumed(stack)
    /\ UNCHANGED scan

(* dec.Token fails: nil, the caller's Decode will say what is wrong. *)
StopMalformed ==
    /\ scan = "reading"
    /\ scan' = "malformed"
    /\ UNCHANGED <<text, open, stack>>

EndOfText ==
    /\ scan = "reading"
    /\ scan' = "ended"
    /\ UNCHANGED <<text, open, stack>>

CheckNoDuplicateKeys ==
    \/ \E kind \in {"object", "array"} : OpenContainer(kind)
    \/ CloseContainer
    \/ ScanKey
    \/ FindDuplicate
    \/ ScanValue
    \/ StopMalformed
    \/ EndOfText
=============================================================================
