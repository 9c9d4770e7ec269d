---------------------------- MODULE ToolExecution ----------------------------
(***************************************************************************)
(* One execution of a claimed call: ToolWorker.execute finds the tool, the *)
(* tool checks its input, decodes it, runs the handler and encodes the     *)
(* result, and what comes of it is turned into an outcome.                 *)
(*                                                                         *)
(* An input is read lexeme by lexeme, each of them any lexeme of JSON: a   *)
(* string is a name, "num" and "huge" are numbers that fit a numeric field *)
(* or do not, "bad" is what no lexeme of JSON starts with.                 *)
(***************************************************************************)
EXTENDS Integers, Sequences

CONSTANTS
  Fields,     \* the names in the schema of the tool
  FieldKind,  \* per field: "string", "boolean" or "number"
  Others,     \* strings that are no field
  FoldsTo,    \* per string, the field it names if case is ignored, or "none"
  MaxMembers  \* bound: members of an input

Names == Fields \cup Others

ASSUME FieldKindAssumption == FieldKind \in [Fields -> {"string", "boolean", "number"}]
ASSUME FoldsToAssumption ==
  /\ FoldsTo \in [Names -> Fields \cup {"none"}]
  /\ \A f \in Fields : FoldsTo[f] = f
\* A string is told from every other lexeme, and from no value, by its quotes.
ASSUME NamesAssumption ==
  Names \cap {"bool", "num", "huge", "null", "zero", "lbrace", "rbrace", "lbracket", "rbracket",
              ":", ",", "bad", "eof"} = {}
ASSUME MaxMembersAssumption == MaxMembers \in Nat \ {0}

VARIABLES
  pc,       \* where the execution is
  read,     \* the lexemes of the input read so far
  seen,     \* the keys of the input so far
  input,    \* call.Input: per field, the lexeme it was decoded from
  err,      \* the error of the tool
  result,   \* the result of the handler
  outcome   \* what is submitted

vars == <<pc, read, seen, input, err, result, outcome>>

Scalars == Names \cup {"bool", "num", "huge"}
Lexemes == Scalars \cup {"lbrace", "rbrace", "lbracket", "rbracket", ":", ",",
                        "null", "bad", "eof"}

\* A ToolError; the zero value of the type has neither code nor message.
ToolError(code, message, details) == [code |-> code, message |-> message, details |-> details]
ZeroToolError == ToolError("blank", "blank", "none")
NilToolError == ToolError("nil", "nil", "nil")
NotPublic == ToolError("none", "none", "none")
ToolErrors == [code : {"blank", "given", "unknown"}, message : {"blank", "given", "generic"},
               details : {"none", "encodable"}]

\* Errors by what execute asks of them: is it a nil pointer inside the error
\* interface, is there a ToolError in its chain, and which.
NoErr == [nil |-> TRUE, typedNil |-> FALSE, public |-> NotPublic]
PlainErr == [NoErr EXCEPT !.nil = FALSE]

Failed(code, message, details) ==
  [status |-> "failed", result |-> "none", code |-> code, message |-> message, details |-> details]
Succeeded(value) ==
  [status |-> "succeeded", result |-> value, code |-> "none", message |-> "none", details |-> "none"]
NoOutcome == [Failed("none", "none", "none") EXCEPT !.status = "none"]

InternalFailure == Failed("unknown", "generic", "none")

Reading == {"object", "member", "key", "colon", "value", "comma", "end"}

TypeOK ==
  /\ pc \in Reading \cup {"lookup", "decode", "handler", "encode", "classify", "done"}
  /\ read \in Seq(Lexemes)
  /\ seen \subseteq Names
  /\ input \in [Fields -> Scalars \cup {"zero"}]
  /\ err \in [nil : BOOLEAN, typedNil : BOOLEAN, public : ToolErrors \cup {NotPublic, NilToolError}]
  /\ result \in {"none", "encodable", "unencodable"}
  /\ outcome.status \in {"none", "succeeded", "failed"}

Init ==
  /\ pc = "lookup"
  /\ read = <<>>
  /\ seen = {}
  /\ input = [f \in Fields |-> "zero"]
  /\ err = NoErr
  /\ result = "none"
  /\ outcome = NoOutcome

-----------------------------------------------------------------------------
(* Finding the tool. *)

FindsTool ==
  /\ pc = "lookup"
  /\ pc' = "object"
  /\ UNCHANGED <<read, seen, input, err, result, outcome>>

UnknownTool ==
  /\ pc = "lookup"
  /\ outcome' = InternalFailure
  /\ pc' = "done"
  /\ UNCHANGED <<read, seen, input, err, result>>

-----------------------------------------------------------------------------
(* validateInputKeys: an object of known, distinct fields, each a scalar    *)
(* that is not null, and nothing after it.                                  *)

\* Four mutants: a repeated key, a key in another case and null pass, and only
\* a string is a scalar.
RepeatAllowed(l) == l \in Fields
CaseIgnored(l) == l \in Names /\ FoldsTo[l] \in Fields \ seen
NullAllowed(l) == l \in Scalars \cup {"null"}
StringsOnly(l) == l \in Names

KeyAllowed(l) == l \in Fields \ seen

ValueAllowed(l) == l \in Scalars

\* Where lexeme l leads; members are separated by single commas.
After(l) ==
  CASE pc = "object" /\ l = "lbrace"                 -> "member"
    [] pc \in {"member", "key"} /\ KeyAllowed(l)     -> "colon"
    [] pc = "colon" /\ l = ":"                       -> "value"
    [] pc = "value" /\ ValueAllowed(l)               -> "comma"
    [] pc = "comma" /\ l = ","                       -> "key"
    [] pc \in {"member", "comma"} /\ l = "rbrace"    -> "end"
    [] pc = "end" /\ l = "eof"                       -> "decode"
    [] OTHER                                         -> "classify"

ReadsLexeme ==
  /\ pc \in Reading
  /\ \E l \in Lexemes :
       /\ pc = "comma" /\ l = "," => Len(read) < 4 * MaxMembers
       /\ read' = Append(read, l)
       /\ pc' = After(l)
       /\ seen' = IF After(l) = "colon" THEN seen \cup {l} ELSE seen
       /\ err' = IF After(l) = "classify" THEN PlainErr ELSE err
  /\ UNCHANGED <<input, result, outcome>>

-----------------------------------------------------------------------------
(* Decoding, the handler, encoding. *)

\* The members of a checked input are four lexemes apart.
Members == 1 .. Len(read) \div 4
KeyOf(i) == read[4 * i - 2]
ValueOf(i) == read[4 * i]

Fits(l, kind) ==
  CASE kind = "string"  -> l \in Names
    [] kind = "boolean" -> l = "bool"
    [] kind = "number"  -> l = "num"

\* encoding/json: keys name fields whatever their case, the last one wins, and
\* null leaves a field as it is.
Setters(f) == {i \in Members : FoldsTo[KeyOf(i)] = f /\ ValueOf(i) # "null"}

Decodable(i) ==
  LET f == FoldsTo[KeyOf(i)]
  IN  f # "none" /\ (ValueOf(i) = "null" \/ Fits(ValueOf(i), FieldKind[f]))

Decodes ==
  /\ pc = "decode"
  /\ IF \A i \in Members : Decodable(i)
       THEN /\ input' = [f \in Fields |->
                 IF Setters(f) = {} THEN "zero"
                 ELSE ValueOf(CHOOSE i \in Setters(f) : \A j \in Setters(f) : j <= i)]
            /\ pc' = "handler"
            /\ UNCHANGED err
       ELSE pc' = "classify" /\ err' = PlainErr /\ UNCHANGED input
  /\ UNCHANGED <<read, seen, result, outcome>>

\* A mutant: a ToolError is made of what its caller gives.
NewUnchecked(code, message, details) ==
  ToolError(code, message, details)

\* NewToolError: details that cannot be encoded make the error the generic one.
NewToolError(code, message, details) ==
  IF details = "bad"
    THEN ToolError("unknown", "generic", "none")
    ELSE ToolError(IF code = "blank" THEN "unknown" ELSE code,
                   IF message = "blank" THEN "generic" ELSE message, details)

HandlerReturns ==
  /\ pc = "handler"
  /\ result' \in {"encodable", "unencodable"}
  /\ pc' = "encode"
  /\ UNCHANGED <<read, seen, input, err, outcome>>

\* An error of its own, a nil pointer that is an error, or a recovered panic.
HandlerFails ==
  /\ pc = "handler"
  /\ err' \in {PlainErr, [PlainErr EXCEPT !.typedNil = TRUE]}
  /\ pc' = "classify"
  /\ UNCHANGED <<read, seen, input, result, outcome>>

\* A ToolError, possibly a nil or a zero one, possibly wrapped.
HandlerRefuses ==
  /\ pc = "handler"
  /\ \/ \E code, message \in {"blank", "given"}, details \in {"none", "encodable", "bad"} :
          err' = [PlainErr EXCEPT !.public = NewToolError(code, message, details)]
     \/ err' = [PlainErr EXCEPT !.public = ZeroToolError]
     \/ \E bare \in BOOLEAN : err' = [PlainErr EXCEPT !.public = NilToolError, !.typedNil = bare]
  /\ pc' = "classify"
  /\ UNCHANGED <<read, seen, input, result, outcome>>

\* A result that cannot be encoded, or whose encoding panics, is an error.
Encodes ==
  /\ pc = "encode"
  /\ err' = IF result = "encodable" THEN NoErr ELSE PlainErr
  /\ pc' = "classify"
  /\ UNCHANGED <<read, seen, input, result, outcome>>

-----------------------------------------------------------------------------
(* ToolWorker.execute, after the tool. *)

\* A mutant: the zero ToolError passes.
PassesZero(e) == TRUE

HasText(e) == e.code # "blank" /\ e.message # "blank"

\* isNilError and the nil of errors.As: nothing may be asked of a nil error.
Public(e) == ~e.typedNil /\ e.public \notin {NotPublic, NilToolError}

Classifies ==
  /\ pc = "classify"
  /\ outcome' =
       IF err.nil THEN Succeeded(result)
       ELSE IF Public(err) /\ HasText(err.public)
         THEN Failed(err.public.code, err.public.message, err.public.details)
         ELSE InternalFailure
  /\ pc' = "done"
  /\ UNCHANGED <<read, seen, input, err, result>>

Next ==
  \/ FindsTool \/ UnknownTool \/ ReadsLexeme \/ Decodes
  \/ HandlerReturns \/ HandlerFails \/ HandlerRefuses \/ Encodes \/ Classifies

Spec == Init /\ [][Next]_vars
-----------------------------------------------------------------------------
(***************************************************************************)
(* What the handler is called with is what the input says: every member is *)
(* a field under its exact name and reaches the handler with its value,    *)
(* and no field has a value that is not in the input.  The decoder alone   *)
(* would take the last of several members, any case, and null.             *)
(***************************************************************************)
HandlerSeesItsInput ==
  pc \in {"handler", "encode"} =>
    /\ \A i \in Members : KeyOf(i) \in Fields /\ input[KeyOf(i)] = ValueOf(i)
    /\ \A f \in Fields : input[f] # "zero" => \E i \in Members : KeyOf(i) = f

(***************************************************************************)
(* An input is refused before it is decoded only if no object of the       *)
(* schema starts like it: the lexemes up to the offending one break a      *)
(* position, repeat a key, or follow the object.                           *)
(***************************************************************************)
Position(i) ==
  CASE i = 1                -> {"lbrace"}
    [] i > 1 /\ i % 4 = 1   -> {",", "rbrace"}
    [] i = 2                -> Fields \cup {"rbrace"}
    [] i > 2 /\ i % 4 = 2   -> Fields
    [] i % 4 = 3            -> {":"}
    [] i % 4 = 0            -> Scalars

StartsObject(s) ==
  LET closed == {i \in 1 .. Len(s) : s[i] = "rbrace"}
      body   == {i \in 1 .. Len(s) : \A j \in closed : i <= j}
      keys   == {i \in body : i % 4 = 2 /\ s[i] # "rbrace"}
  IN  /\ \A i \in body : s[i] \in Position(i)
      /\ \A i, j \in keys : s[i] = s[j] => i = j
      /\ \A i \in 1 .. Len(s) \ body : s[i] = "eof" /\ i - 1 \in closed

RefusedForReason ==
  [][(pc \in Reading /\ pc' = "classify") => ~StartsObject(read')]_vars

(***************************************************************************)
(* Whatever the input, the handler and its errors are, there is an outcome *)
(* that can be encoded, so that a claimed call is never left without one   *)
(* for what its tool did; a failure has a code and a message.              *)
(***************************************************************************)
OutcomeDeliverable ==
  pc = "done" =>
    /\ outcome.result # "unencodable"
    /\ outcome.details # "bad"
    /\ outcome.status = "failed" => outcome.code \in {"given", "unknown"}
                                    /\ outcome.message \in {"given", "generic"}
=============================================================================
