----------------------- MODULE ToolExecutionTheorems -----------------------
(***************************************************************************)
(* What an execution does, for every schema and for inputs of any length.  *)
(*                                                                         *)
(* The invariant says where the reader is: it has read k whole members,    *)
(* their keys are the ones in seen, and there is no closing brace yet.     *)
(***************************************************************************)
EXTENDS ToolExecution, TLAPS

Keys(n) ==
  /\ \A i \in 1 .. n : read[4 * i - 2] \in seen
  /\ \A x \in seen : \E i \in 1 .. n : read[4 * i - 2] = x
  /\ \A i, j \in 1 .. n : read[4 * i - 2] = read[4 * j - 2] => i = j

Length(k) ==
  /\ pc = "object" => Len(read) = 0 /\ Len(read) = 4 * k
  /\ pc = "member" => Len(read) = 1 /\ Len(read) = 4 * k + 1
  /\ pc = "key" => Len(read) = 4 * k + 1 /\ Len(read) > 1
  /\ pc = "colon" => Len(read) = 4 * k + 2
  /\ pc = "value" => Len(read) = 4 * k + 3
  /\ pc = "comma" => Len(read) = 4 * k /\ Len(read) > 0
  /\ pc = "end" => Len(read) = 4 * k + 1 \/ Len(read) = 4 * k + 2
  /\ pc = "decode" => Len(read) = 4 * k + 2 \/ Len(read) = 4 * k + 3

Whole(k) ==
  /\ Length(k)
  /\ pc \in {"colon", "value"} => Keys(k + 1)
  /\ pc \notin {"colon", "value"} => Keys(k)
  /\ \A i \in 1 .. k : read[4 * i] \in Scalars

Reader ==
  /\ seen \subseteq Fields
  /\ pc = "lookup" => read = <<>> /\ seen = {}
  /\ pc \in Reading \cup {"decode"} => \E k \in Nat : Whole(k)
  /\ pc = "end" => Len(read) > 0 /\ read[Len(read)] = "rbrace"
  /\ pc \in Reading \ {"end"} => \A i \in 1 .. Len(read) : read[i] # "rbrace"

-----------------------------------------------------------------------------
LEMMA Appending ==
  ASSUME NEW S, NEW s \in Seq(S), NEW x \in S
  PROVE  /\ Append(s, x) \in Seq(S)
         /\ Len(s) \in Nat
         /\ Len(Append(s, x)) = Len(s) + 1
         /\ Append(s, x)[Len(s) + 1] = x
         /\ \A i \in 1 .. Len(s) : Append(s, x)[i] = s[i]
  OBVIOUS

LEMMA ReaderInit == Init => Reader
  BY DEF Init, Reader, Reading

\* A lexeme that does not end the reading.
LEMMA ReadOn ==
  ASSUME TypeOK, Reader, NEW l \in Lexemes, pc \in Reading,
         read' = Append(read, l), pc' = After(l), After(l) # "classify",
         seen' = IF After(l) = "colon" THEN seen \cup {l} ELSE seen
  PROVE  Reader'
<1>0. "rbrace" \notin Fields /\ "," \notin Fields /\ "rbrace" \notin Scalars
  BY NamesAssumption DEF Scalars, Names
<1>1. /\ read \in Seq(Lexemes) /\ Len(read) \in Nat /\ Len(read') = Len(read) + 1
      /\ read'[Len(read) + 1] = l
      /\ \A i \in 1 .. Len(read) : read'[i] = read[i]
  <2>1. read \in Seq(Lexemes)
    BY DEF TypeOK
  <2> QED
    BY <2>1, Appending
<1>2. PICK k \in Nat : Whole(k)
  BY DEF Reader
<1>3. ASSUME NEW n \in Nat, Keys(n), 4 * n <= Len(read) + 2, seen' = seen
      PROVE  Keys(n)'
  <2>1. \A i \in 1 .. n : 4 * i - 2 \in 1 .. Len(read)
    BY <1>1, <1>3
  <2>2. \A i \in 1 .. n : read'[4 * i - 2] = read[4 * i - 2]
    BY <1>1, <2>1
  <2> QED
    BY <1>3, <2>2 DEF Keys
<1>4. ASSUME 4 * k <= Len(read)
      PROVE  \A i \in 1 .. k : read'[4 * i] \in Scalars
  <2>1. \A i \in 1 .. k : 4 * i \in 1 .. Len(read)
    BY <1>1, <1>4
  <2> QED
    BY <1>1, <1>2, <2>1 DEF Whole
<1>5. ASSUME l # "rbrace", pc # "end"
      PROVE  \A i \in 1 .. Len(read') : read'[i] # "rbrace"
  <2>1. \A i \in 1 .. Len(read) : read[i] # "rbrace"
    BY <1>5 DEF Reader
  <2>2. \A i \in 1 .. Len(read') : i \in 1 .. Len(read) \/ i = Len(read) + 1
    BY <1>1
  <2> QED
    BY <1>1, <1>5, <2>1, <2>2
<1>6. CASE pc = "object"
  <2>1. l = "lbrace" /\ pc' = "member" /\ seen' = seen /\ Len(read) = 4 * k
    BY <1>2, <1>6 DEF After, Whole, Length
  <2>2. Keys(k)'
    <3>1. Keys(k)
      BY <1>2, <1>6 DEF Whole
    <3>2. 4 * k <= Len(read) + 2
      BY <1>1, <2>1
    <3> QED
      BY <1>3, <2>1, <3>1, <3>2
  <2>3. Whole(k)'
    <3>1. Length(k)'
      <4>1. Len(read') = 1
        BY <1>1, <1>2, <1>6 DEF Whole, Length
      <4>2. Len(read') = 4 * k + 1
        BY <1>1, <2>1
      <4> QED
        BY <2>1, <4>1, <4>2 DEF Length
    <3>2. \A i \in 1 .. k : read'[4 * i] \in Scalars
      BY <1>4, <2>1
    <3> QED
      BY <2>1, <2>2, <3>1, <3>2 DEF Whole
  <2> QED
    BY <1>5, <1>6, <2>1, <2>3 DEF Reader, Reading
<1>7. CASE pc \in {"member", "key"} /\ KeyAllowed(l)
  <2>1. /\ pc' = "colon" /\ seen' = seen \cup {l} /\ l \in Fields \ seen
        /\ Len(read) = 4 * k + 1
    <3>1. l \in Fields \ seen /\ l # "rbrace" /\ l # ","
      BY <1>0, <1>7 DEF KeyAllowed
    <3>2. After(l) = "colon"
      BY <1>7, <3>1 DEF After
    <3>3. Length(k)
      BY <1>2 DEF Whole
    <3>4. CASE pc = "member"
      BY <3>1, <3>2, <3>3, <3>4 DEF Length
    <3>5. CASE pc = "key"
      BY <3>1, <3>2, <3>3, <3>5 DEF Length
    <3> QED
      BY <1>7, <3>4, <3>5
  <2>2. \A i \in 1 .. k : read'[4 * i - 2] = read[4 * i - 2]
    <3>1. \A i \in 1 .. k : 4 * i - 2 \in 1 .. Len(read)
      BY <2>1
    <3> QED
      BY <1>1, <3>1
  <2>3. Keys(k) /\ read'[4 * (k + 1) - 2] = l
    <3>1. 4 * (k + 1) - 2 = Len(read) + 1
      BY <2>1
    <3> QED
      BY <1>1, <1>2, <1>7, <3>1 DEF Whole
  <2>4. \A i \in 1 .. k + 1 : i \in 1 .. k \/ i = k + 1
    OBVIOUS
  <2>5. \A i \in 1 .. k : read'[4 * i - 2] \in seen
    BY <2>2, <2>3 DEF Keys
  <2>6. \A i \in 1 .. k + 1 : read'[4 * i - 2] \in seen'
    BY <2>1, <2>3, <2>4, <2>5
  <2>7. \A x \in seen' : \E i \in 1 .. k + 1 : read'[4 * i - 2] = x
    <3>1. ASSUME NEW x \in seen PROVE \E i \in 1 .. k + 1 : read'[4 * i - 2] = x
      <4>1. PICK i \in 1 .. k : read[4 * i - 2] = x
        BY <2>3 DEF Keys
      <4>2. i \in 1 .. k + 1
        OBVIOUS
      <4>3. read'[4 * i - 2] = x
        BY <2>2, <4>1
      <4> QED
        BY <4>2, <4>3
    <3>2. k + 1 \in 1 .. k + 1
      OBVIOUS
    <3> QED
      BY <2>1, <2>3, <3>1, <3>2
  <2>8. \A i, j \in 1 .. k + 1 : read'[4 * i - 2] = read'[4 * j - 2] => i = j
    <3>1. \A i, j \in 1 .. k : read'[4 * i - 2] = read'[4 * j - 2] => i = j
      BY <2>2, <2>3 DEF Keys
    <3>2. \A i \in 1 .. k : read'[4 * i - 2] # l
      BY <2>1, <2>5
    <3> QED
      BY <2>3, <2>4, <3>1, <3>2
  <2>9. Keys(k + 1)'
    BY <2>6, <2>7, <2>8 DEF Keys
  <2>10. Whole(k)'
    BY <1>1, <1>4, <2>1, <2>9 DEF Whole, Length
  <2> QED
    BY <1>0, <1>5, <1>7, <2>1, <2>10 DEF Reader, Reading
<1>8. CASE pc = "colon"
  <2>1. l = ":" /\ pc' = "value" /\ seen' = seen /\ Len(read) = 4 * k + 2
    BY <1>2, <1>8 DEF After, Whole, Length
  <2>2. Keys(k + 1)'
    BY <1>2, <1>3, <1>8, <2>1 DEF Whole
  <2>3. Whole(k)'
    BY <1>1, <1>4, <2>1, <2>2 DEF Whole, Length
  <2> QED
    BY <1>5, <1>8, <2>1, <2>3 DEF Reader, Reading
<1>9. CASE pc = "value"
  <2>1. l \in Scalars /\ pc' = "comma" /\ seen' = seen /\ Len(read) = 4 * k + 3
    BY <1>2, <1>9 DEF After, ValueAllowed, Whole, Length
  <2>2. Keys(k + 1)'
    BY <1>2, <1>3, <1>9, <2>1 DEF Whole
  <2>3. \A i \in 1 .. k + 1 : read'[4 * i] \in Scalars
    <3>1. read'[4 * (k + 1)] = l
      <4>1. 4 * (k + 1) = Len(read) + 1
        BY <2>1
      <4> QED
        BY <1>1, <4>1
    <3>2. \A i \in 1 .. k + 1 : i \in 1 .. k \/ i = k + 1
      OBVIOUS
    <3> QED
      BY <1>4, <2>1, <3>1, <3>2
  <2>4. Length(k + 1)'
    BY <1>1, <2>1 DEF Length
  <2>5. Whole(k + 1)' /\ l # "rbrace"
    BY <1>0, <2>1, <2>2, <2>3, <2>4 DEF Whole
  <2> QED
    <3>1. \A i \in 1 .. Len(read') : read'[i] # "rbrace"
      BY <1>5, <1>9, <2>5
    <3>2. seen' \subseteq Fields
      BY <2>1 DEF Reader
    <3>3. \E j \in Nat : Whole(j)'
      BY <2>5
    <3> QED
      BY <2>1, <3>1, <3>2, <3>3 DEF Reader, Reading
<1>10. CASE pc = "comma" /\ l = ","
  <2>1. pc' = "key" /\ seen' = seen /\ Len(read) = 4 * k /\ Len(read) > 0
    BY <1>2, <1>10 DEF After, Whole, Length
  <2>2. Keys(k)'
    <3>1. Keys(k)
      BY <1>2, <1>10 DEF Whole
    <3>2. 4 * k <= Len(read) + 2
      BY <1>1, <2>1
    <3> QED
      BY <1>3, <2>1, <3>1, <3>2
  <2>3. Whole(k)'
    BY <1>1, <1>4, <2>1, <2>2 DEF Whole, Length
  <2> QED
    BY <1>5, <1>10, <2>1, <2>3 DEF Reader, Reading
<1>11. CASE pc \in {"member", "comma"} /\ l = "rbrace"
  <2>1. /\ pc' = "end" /\ seen' = seen
        /\ Len(read) = 4 * k + 1 \/ Len(read) = 4 * k
    BY <1>0, <1>2, <1>11 DEF After, KeyAllowed, Whole, Length
  <2>2. Keys(k)'
    <3>1. Keys(k)
      BY <1>2, <1>11 DEF Whole
    <3>2. 4 * k <= Len(read) + 2
      BY <1>1, <2>1
    <3> QED
      BY <1>3, <2>1, <3>1, <3>2
  <2>3. Whole(k)'
    BY <1>1, <1>4, <2>1, <2>2 DEF Whole, Length
  <2> QED
    <3>1. Len(read') > 0 /\ read'[Len(read')] = "rbrace"
      BY <1>1, <1>11
    <3>2. seen' \subseteq Fields
      BY <2>1 DEF Reader
    <3> QED
      BY <2>1, <2>3, <3>1, <3>2 DEF Reader, Reading
<1>12. CASE pc = "end"
  <2>1. /\ pc' = "decode" /\ seen' = seen
        /\ Len(read) = 4 * k + 1 \/ Len(read) = 4 * k + 2
    BY <1>2, <1>12 DEF After, Whole, Length
  <2>2. Keys(k)'
    <3>1. Keys(k)
      BY <1>2, <1>12 DEF Whole
    <3>2. 4 * k <= Len(read) + 2
      BY <1>1, <2>1
    <3> QED
      BY <1>3, <2>1, <3>1, <3>2
  <2>3. Whole(k)'
    <3>1. Length(k)'
      BY <1>1, <2>1 DEF Length
    <3>2. \A i \in 1 .. k : read'[4 * i] \in Scalars
      BY <1>1, <1>4, <2>1
    <3> QED
      BY <2>1, <2>2, <3>1, <3>2 DEF Whole
  <2> QED
    BY <1>12, <2>1, <2>3 DEF Reader, Reading
<1>13. \/ pc \in {"object", "colon", "value", "end"}
       \/ pc \in {"member", "key"} /\ KeyAllowed(l)
       \/ pc = "comma" /\ l = ","
       \/ pc \in {"member", "comma"} /\ l = "rbrace"
  BY DEF After, Reading
<1> QED
  BY <1>6, <1>7, <1>8, <1>9, <1>10, <1>11, <1>12, <1>13

-----------------------------------------------------------------------------
(* Types and outcomes. *)

Errs == [nil : BOOLEAN, typedNil : BOOLEAN, public : ToolErrors \cup {NotPublic, NilToolError}]

\* What is classified without an error is a result that has been encoded.
Encoded == pc = "classify" /\ err.nil => result = "encodable"

LEMMA TypeInit == Init => TypeOK
  BY DEF Init, TypeOK, NoErr, NotPublic, NoOutcome, Failed, ToolError

\* NewToolError makes something sound of any of its arguments.
LEMMA NewToolErrorType ==
  ASSUME NEW code \in {"blank", "given"}, NEW message \in {"blank", "given"},
         NEW details \in {"none", "encodable", "bad"}
  PROVE  NewToolError(code, message, details) \in ToolErrors
  BY DEF NewToolError, ToolError, ToolErrors

LEMMA PlainErrType ==
  /\ PlainErr \in Errs /\ ~PlainErr.nil
  /\ \A b \in BOOLEAN, e \in ToolErrors \cup {NotPublic, NilToolError} :
        /\ [PlainErr EXCEPT !.typedNil = b] \in Errs
        /\ [PlainErr EXCEPT !.public = e] \in Errs
        /\ [PlainErr EXCEPT !.public = e, !.typedNil = b] \in Errs
        /\ ~[PlainErr EXCEPT !.typedNil = b].nil
        /\ ~[PlainErr EXCEPT !.public = e].nil
        /\ ~[PlainErr EXCEPT !.public = e, !.typedNil = b].nil
  BY DEF PlainErr, NoErr, Errs

\* A handler that refuses leaves an error, however it made it.
LEMMA RefusalType ==
  ASSUME HandlerRefuses
  PROVE  err' \in Errs /\ ~err'.nil
<1>1. ZeroToolError \in ToolErrors
  BY DEF ZeroToolError, ToolError, ToolErrors
<1> QED
  BY <1>1, NewToolErrorType, PlainErrType, ZenonT(30) DEF HandlerRefuses

\* Decoding a checked input: no field is set by two members, or by null.
LEMMA DecodingFaithful ==
  ASSUME TypeOK, Reader, Decodes
  PROVE  /\ input' \in [Fields -> Scalars \cup {"zero"}]
         /\ err' \in Errs
         /\ \/ pc' = "handler" /\ HandlerSeesItsInput'
            \/ pc' = "classify" /\ ~err'.nil
<1>1. PICK k \in Nat : Whole(k)
  BY DEF Reader, Decodes
<1>2. pc = "decode" /\ read' = read /\ err \in Errs
  BY DEF Decodes, TypeOK, Errs
<1>3. Members = 1 .. k
  <2>1. Len(read) = 4 * k + 2 \/ Len(read) = 4 * k + 3
    BY <1>1, <1>2 DEF Whole, Length
  <2>2. (4 * k + 2) \div 4 = k /\ (4 * k + 3) \div 4 = k
    OBVIOUS
  <2> QED
    BY <2>1, <2>2 DEF Members
<1>4. Keys(k)
  BY <1>1, <1>2 DEF Whole
<1>5. \A i \in Members : KeyOf(i) \in Fields /\ FoldsTo[KeyOf(i)] = KeyOf(i)
  BY <1>3, <1>4, FoldsToAssumption DEF Keys, KeyOf, Reader
<1>6. \A i \in Members : ValueOf(i) \in Scalars /\ ValueOf(i) # "null" /\ ValueOf(i) # "zero"
  BY <1>1, <1>3, NamesAssumption DEF Whole, ValueOf, Scalars
<1>7. \A f \in Fields : Setters(f) = {i \in Members : KeyOf(i) = f}
  BY <1>5, <1>6 DEF Setters
<1>8. \A i, j \in Members : KeyOf(i) = KeyOf(j) => i = j
  BY <1>3, <1>4 DEF Keys, KeyOf
<1>9. ASSUME NEW i \in Members
      PROVE  Setters(KeyOf(i)) = {i}
  BY <1>5, <1>7, <1>8
<1>10. CASE \A i \in Members : Decodable(i)
  <2>. DEFINE Last(f) == CHOOSE i \in Setters(f) : \A j \in Setters(f) : j <= i
  <2>1. /\ input' = [f \in Fields |-> IF Setters(f) = {} THEN "zero" ELSE ValueOf(Last(f))]
        /\ pc' = "handler" /\ err' = err
    BY <1>10 DEF Decodes
  <2>2. ASSUME NEW i \in Members
        PROVE  Last(KeyOf(i)) = i
    <3>1. i <= i
      BY <1>3
    <3> QED
      BY <1>9, <3>1
  <2>. HIDE DEF Last
  <2>3. \A i \in Members : input'[KeyOf(i)] = ValueOf(i)
    BY <1>5, <1>9, <2>1, <2>2
  <2>4. \A f \in Fields : Setters(f) = {} \/ \E i \in Members : KeyOf(i) = f
    BY <1>7
  <2>5. \A f \in Fields : input'[f] # "zero" => \E i \in Members : KeyOf(i) = f
    BY <2>1, <2>4
  <2>6. \A f \in Fields : input'[f] \in Scalars \cup {"zero"}
    BY <1>6, <2>1, <2>3, <2>4
  <2>7. Members' = Members /\ \A i : KeyOf(i)' = KeyOf(i) /\ ValueOf(i)' = ValueOf(i)
    BY <1>2 DEF Members, KeyOf, ValueOf
  <2>8. HandlerSeesItsInput'
    BY <1>5, <2>3, <2>5, <2>7 DEF HandlerSeesItsInput
  <2>9. input' \in [Fields -> Scalars \cup {"zero"}]
    BY <2>1, <2>6
  <2> QED
    BY <1>2, <2>1, <2>8, <2>9
<1>11. CASE ~ \A i \in Members : Decodable(i)
  BY <1>11, PlainErrType DEF Decodes, TypeOK
<1> QED
  BY <1>10, <1>11

Sound == TypeOK /\ Reader /\ Encoded /\ HandlerSeesItsInput /\ OutcomeDeliverable

\* Reading a lexeme: the reader goes on, or the execution fails.
LEMMA ReadingSound ==
  ASSUME Sound, ReadsLexeme
  PROVE  Sound'
<1>. PICK l \in Lexemes :
       /\ read' = Append(read, l)
       /\ pc' = After(l)
       /\ seen' = IF After(l) = "colon" THEN seen \cup {l} ELSE seen
       /\ err' = IF After(l) = "classify" THEN PlainErr ELSE err
  BY DEF ReadsLexeme
<1>1. /\ pc \in Reading /\ UNCHANGED <<input, result, outcome>>
      /\ TypeOK /\ Reader
  BY DEF ReadsLexeme, Sound
<1>2. After(l) \in {"member", "colon", "value", "comma", "key", "end", "decode", "classify"}
  BY DEF After
<1>3. read' \in Seq(Lexemes)
  BY <1>1 DEF TypeOK
<1>4. After(l) = "colon" => l \in Fields
  BY DEF After, KeyAllowed
<1>5. seen' \subseteq Fields
  BY <1>1, <1>4 DEF Reader
<1>6. err' \in Errs /\ (pc' = "classify" => ~err'.nil)
  BY <1>1, PlainErrType DEF TypeOK, Errs
<1>7. Reader'
  <2>1. CASE After(l) # "classify"
    BY <1>1, <2>1, ReadOn
  <2>2. CASE After(l) = "classify"
    BY <1>5, <2>2 DEF Reader, Reading
  <2> QED
    BY <2>1, <2>2
<1>8. TypeOK'
  BY <1>1, <1>2, <1>3, <1>5, <1>6 DEF TypeOK, Errs, Reading, Names
<1>9. Encoded' /\ HandlerSeesItsInput' /\ OutcomeDeliverable'
  BY <1>2, <1>6 DEF Encoded, HandlerSeesItsInput, OutcomeDeliverable
<1> QED
  BY <1>7, <1>8, <1>9 DEF Sound

\* The parts of the invariant a step after the reading can only keep.
LEMMA Later ==
  ASSUME Reader, HandlerSeesItsInput, pc' \in {"encode", "classify", "done"},
         pc' = "encode" => pc = "handler", UNCHANGED <<read, seen, input>>
  PROVE  Reader' /\ HandlerSeesItsInput'
<1>1. Reader'
  BY DEF Reader, Reading
<1>2. Members' = Members /\ \A i : KeyOf(i)' = KeyOf(i) /\ ValueOf(i)' = ValueOf(i)
  BY DEF Members, KeyOf, ValueOf
<1>3. HandlerSeesItsInput'
  BY <1>2 DEF HandlerSeesItsInput
<1> QED
  BY <1>1, <1>3

LEMMA SoundStep == Sound /\ [Next]_vars => Sound'
<1>. SUFFICES ASSUME Sound, [Next]_vars PROVE Sound'
  OBVIOUS
<1>. USE DEF Sound
<1>1. CASE FindsTool
  <2>1. /\ pc' = "object" /\ read = <<>> /\ seen = {}
        /\ UNCHANGED <<read, seen, input, err, result, outcome>>
    BY <1>1 DEF FindsTool, Reader
  <2>2. Whole(0)'
    BY <2>1 DEF Whole, Length, Keys
  <2>3. Reader'
    BY <2>1, <2>2 DEF Reader, Reading
  <2> QED
    BY <2>1, <2>3 DEF TypeOK, Encoded, HandlerSeesItsInput, OutcomeDeliverable, Reading
<1>2. CASE UnknownTool
  <2>1. pc' = "done" /\ UNCHANGED <<read, seen, input, err, result>> /\ outcome' = InternalFailure
    BY <1>2 DEF UnknownTool
  <2>2. Reader' /\ HandlerSeesItsInput'
    BY <2>1, Later
  <2> QED
    BY <2>1, <2>2 DEF TypeOK, Encoded, OutcomeDeliverable, InternalFailure, Failed
<1>3. CASE ReadsLexeme
  BY <1>3, ReadingSound
<1>4. CASE Decodes
  <2>1. /\ UNCHANGED <<read, seen, result, outcome>> /\ pc' \in {"handler", "classify"}
        /\ input' \in [Fields -> Scalars \cup {"zero"}] /\ err' \in Errs
        /\ Encoded'
    BY <1>4, DecodingFaithful DEF Decodes, Encoded
  <2>2. HandlerSeesItsInput'
    BY <1>4, DecodingFaithful DEF HandlerSeesItsInput
  <2>3. Reader'
    BY <2>1 DEF Reader, Reading
  <2> QED
    BY <2>1, <2>2, <2>3 DEF TypeOK, Errs, OutcomeDeliverable
<1>5. CASE HandlerReturns
  <2>1. /\ pc = "handler" /\ pc' = "encode" /\ UNCHANGED <<read, seen, input, err, outcome>>
        /\ result' \in {"encodable", "unencodable"}
    BY <1>5 DEF HandlerReturns
  <2>2. Reader' /\ HandlerSeesItsInput'
    BY <2>1, Later
  <2> QED
    BY <2>1, <2>2 DEF TypeOK, Encoded, OutcomeDeliverable
<1>6. CASE HandlerFails \/ HandlerRefuses
  <2>1. /\ pc' = "classify" /\ UNCHANGED <<read, seen, input, result, outcome>>
        /\ err' \in Errs /\ ~err'.nil
    BY <1>6, PlainErrType, RefusalType DEF HandlerFails, HandlerRefuses
  <2>2. Reader' /\ HandlerSeesItsInput'
    BY <2>1, Later
  <2> QED
    BY <2>1, <2>2 DEF TypeOK, Errs, Encoded, OutcomeDeliverable
<1>7. CASE Encodes
  <2>1. /\ pc' = "classify" /\ UNCHANGED <<read, seen, input, result, outcome>>
        /\ err' \in Errs /\ (err'.nil => result = "encodable")
    BY <1>7, PlainErrType DEF Encodes, NoErr, Errs, NotPublic
  <2>2. Reader' /\ HandlerSeesItsInput'
    BY <2>1, Later
  <2> QED
    BY <2>1, <2>2 DEF TypeOK, Errs, Encoded, OutcomeDeliverable
<1>8. CASE Classifies
  <2>1. pc = "classify" /\ pc' = "done" /\ UNCHANGED <<read, seen, input, err, result>>
    BY <1>8 DEF Classifies
  <2>2. Reader' /\ HandlerSeesItsInput'
    BY <2>1, Later
  <2>3. OutcomeDeliverable' /\ outcome'.status \in {"succeeded", "failed"}
    <3>1. CASE err.nil
      BY <1>8, <2>1, <3>1 DEF Classifies, Encoded, Succeeded, OutcomeDeliverable
    <3>2. CASE ~err.nil /\ Public(err) /\ HasText(err.public)
      <4>1. err.public \in ToolErrors
        BY <3>2 DEF TypeOK, Public
      <4>2. outcome' = Failed(err.public.code, err.public.message, err.public.details)
        BY <1>8, <3>2 DEF Classifies
      <4> QED
        BY <2>1, <3>2, <4>1, <4>2 DEF ToolErrors, HasText, Failed, OutcomeDeliverable
    <3>3. CASE ~err.nil /\ ~(Public(err) /\ HasText(err.public))
      BY <1>8, <2>1, <3>3 DEF Classifies, InternalFailure, Failed, OutcomeDeliverable
    <3> QED
      BY <3>1, <3>2, <3>3
  <2> QED
    BY <2>1, <2>2, <2>3 DEF TypeOK, Encoded
<1>9. CASE UNCHANGED vars
  <2>1. Members' = Members /\ \A i : KeyOf(i)' = KeyOf(i) /\ ValueOf(i)' = ValueOf(i)
    BY <1>9 DEF vars, Members, KeyOf, ValueOf
  <2>2. \A k : Whole(k)' <=> Whole(k)
    BY <1>9 DEF vars, Whole, Length, Keys
  <2> QED
    BY <1>9, <2>1, <2>2 DEF vars, TypeOK, Reader, Encoded, HandlerSeesItsInput, OutcomeDeliverable
<1> QED
  BY <1>1, <1>2, <1>3, <1>4, <1>5, <1>6, <1>7, <1>8, <1>9 DEF Next

LEMMA SoundInvariant == Spec => []Sound
<1>1. Init => Sound
  BY TypeInit, ReaderInit
  DEF Init, Sound, Encoded, HandlerSeesItsInput, OutcomeDeliverable
<1> QED
  BY <1>1, SoundStep, PTL DEF Spec

(***************************************************************************)
(* The handler is called with what the input says, whatever lexemes it is  *)
(* made of and however long it is.                                         *)
(***************************************************************************)
THEOREM InputFaithful == Spec => []HandlerSeesItsInput
  BY SoundInvariant, PTL DEF Sound

(***************************************************************************)
(* Every execution that ends has an outcome that can be sent.              *)
(***************************************************************************)
THEOREM AlwaysDeliverable == Spec => []OutcomeDeliverable
  BY SoundInvariant, PTL DEF Sound

(***************************************************************************)
(* The state of an execution is well typed: an error of the tool has       *)
(* details that can be encoded, whatever its handler gave.                 *)
(***************************************************************************)
THEOREM ExecutionTyped == Spec => []TypeOK
  BY SoundInvariant, PTL DEF Sound

-----------------------------------------------------------------------------
(* Refusals. *)

LEMMA PositionBeyond ==
  ASSUME NEW i \in Nat, i > 2
  PROVE  /\ i % 4 = 1 => Position(i) = {",", "rbrace"}
         /\ i % 4 = 2 => Position(i) = Fields
         /\ i % 4 = 3 => Position(i) = {":"}
         /\ i % 4 = 0 => Position(i) = Scalars
<1>1. i # 1 /\ i # 2 /\ i > 1 /\ 0 # 1 /\ 0 # 2 /\ 0 # 3 /\ 1 # 2 /\ 1 # 3 /\ 2 # 3
  OBVIOUS
<1>2. ASSUME i % 4 = 1 PROVE Position(i) = {",", "rbrace"}
  BY <1>1, <1>2, Zenon DEF Position
<1>3. ASSUME i % 4 = 2 PROVE Position(i) = Fields
  BY <1>1, <1>3, Zenon DEF Position
<1>4. ASSUME i % 4 = 3 PROVE Position(i) = {":"}
  BY <1>1, <1>4, Zenon DEF Position
<1>5. ASSUME i % 4 = 0 PROVE Position(i) = Scalars
  BY <1>1, <1>5, Zenon DEF Position
<1> QED
  BY <1>2, <1>3, <1>4, <1>5

\* What may stand at a place, by the members read before it.
LEMMA PositionAt ==
  ASSUME NEW k \in Nat
  PROVE  /\ Position(1) = {"lbrace"}
         /\ k > 0 => Position(4 * k + 1) = {",", "rbrace"}
         /\ Position(2) = Fields \cup {"rbrace"}
         /\ k > 0 => Position(4 * k + 2) = Fields
         /\ Position(4 * k + 3) = {":"}
         /\ Position(4 * k + 4) = Scalars
<1>1. Position(1) = {"lbrace"}
  BY DEF Position
<1>2. ASSUME k > 0 PROVE Position(4 * k + 1) = {",", "rbrace"}
  <2>1. 4 * k + 1 \in Nat /\ 4 * k + 1 > 2 /\ (4 * k + 1) % 4 = 1
    BY <1>2
  <2> QED
    BY <2>1, PositionBeyond
<1>3. Position(2) = Fields \cup {"rbrace"}
  BY DEF Position
<1>4. ASSUME k > 0 PROVE Position(4 * k + 2) = Fields
  <2>1. 4 * k + 2 \in Nat /\ 4 * k + 2 > 2 /\ (4 * k + 2) % 4 = 2
    BY <1>4
  <2> QED
    BY <2>1, PositionBeyond
<1>5. Position(4 * k + 3) = {":"}
  <2>1. 4 * k + 3 \in Nat /\ 4 * k + 3 > 2 /\ (4 * k + 3) % 4 = 3
    OBVIOUS
  <2> QED
    BY <2>1, PositionBeyond
<1>6. Position(4 * k + 4) = Scalars
  <2>1. 4 * k + 4 \in Nat /\ 4 * k + 4 > 2 /\ (4 * k + 4) % 4 = 0
    OBVIOUS
  <2> QED
    BY <2>1, PositionBeyond
<1> QED
  BY <1>1, <1>2, <1>3, <1>4, <1>5, <1>6

\* The lexeme the reader stops at does not continue an object of the schema.
LEMMA RefusalJustified ==
  ASSUME TypeOK, Reader, NEW l \in Lexemes, pc \in Reading,
         read' = Append(read, l), After(l) = "classify", StartsObject(read')
  PROVE  FALSE
<1>. DEFINE n == Len(read) + 1
            closed == {i \in 1 .. Len(read') : read'[i] = "rbrace"}
            body == {i \in 1 .. Len(read') : \A j \in closed : i <= j}
            keys == {i \in body : i % 4 = 2 /\ read'[i] # "rbrace"}
<1>1. /\ \A i \in body : read'[i] \in Position(i)
      /\ \A i, j \in keys : read'[i] = read'[j] => i = j
      /\ \A i \in 1 .. Len(read') \ body : read'[i] = "eof" /\ i - 1 \in closed
  BY DEF StartsObject
<1>2. /\ read \in Seq(Lexemes) /\ Len(read) \in Nat /\ Len(read') = n /\ read'[n] = l
      /\ \A i \in 1 .. Len(read) : read'[i] = read[i]
  <2>1. read \in Seq(Lexemes)
    BY DEF TypeOK
  <2> QED
    BY <2>1, Appending
<1>3. n \in 1 .. Len(read')
  BY <1>2
<1>4. "rbrace" \notin Fields /\ "," \notin Fields
  BY NamesAssumption DEF Names
<1>5. PICK k \in Nat : Whole(k)
  BY DEF Reader
<1>6. Length(k) /\ (pc \in {"member", "key"} => Keys(k))
  BY <1>5 DEF Whole
<1>7. CASE pc = "end"
  <2>1. Len(read) \in closed
    BY <1>2, <1>7 DEF Reader
  <2>2. n \notin body
    BY <1>2, <2>1
  <2>3. l = "eof"
    BY <1>1, <1>2, <1>3, <2>2
  <2> QED
    BY <1>7, <2>3 DEF After
<1>8. CASE pc # "end"
  <2>1. \A i \in 1 .. Len(read) : read[i] # "rbrace"
    BY <1>8 DEF Reader
  <2>2. \A i \in closed : i = n
    BY <1>2, <2>1
  <2>3. \A i \in 1 .. Len(read') : i <= n
    BY <1>2
  <2>4. \A i \in 1 .. Len(read') : i \in body
    BY <2>2, <2>3
  <2>5. l \in Position(n)
    BY <1>1, <1>2, <1>3, <2>4
  <2>6. CASE pc = "object"
    <3>1. n = 1
      BY <1>6, <2>6 DEF Length
    <3> QED
      BY <2>5, <2>6, <3>1, PositionAt DEF After
  <2>7. CASE pc \in {"member", "key"}
    <3>1. n = 4 * k + 2 /\ (pc = "key" => k > 0) /\ (pc = "member" => n = 2)
      BY <1>2, <1>6, <2>7 DEF Length
    <3>2. l \in Fields \cup {"rbrace"} /\ (pc = "key" => l \in Fields)
      BY <2>5, <2>7, <3>1, PositionAt
    <3>3. CASE l = "rbrace"
      <4>1. pc = "member"
        BY <1>4, <2>7, <3>2, <3>3
      <4> QED
        BY <1>4, <3>3, <4>1 DEF After, KeyAllowed
    <3>4. CASE l \in Fields
      <4>1. l \in seen
        BY <1>4, <2>7, <3>4 DEF After, KeyAllowed
      <4>2. PICK i \in 1 .. k : read[4 * i - 2] = l
        BY <1>6, <2>7, <4>1 DEF Keys
      <4>3. 4 * i - 2 \in 1 .. Len(read) /\ (4 * i - 2) % 4 = 2 /\ n % 4 = 2 /\ 4 * i - 2 # n
        <5>1. n = 4 * k + 2
          BY <3>1
        <5>2. 4 * i - 2 \in 1 .. Len(read) /\ 4 * i - 2 # n
          BY <1>2, <5>1
        <5>3. (4 * i - 2) % 4 = 2 /\ (4 * k + 2) % 4 = 2
          OBVIOUS
        <5> QED
          BY <5>1, <5>2, <5>3
      <4>4. read'[4 * i - 2] = l /\ 4 * i - 2 \in 1 .. Len(read')
        BY <1>2, <4>2, <4>3
      <4>5. 4 * i - 2 \in keys /\ n \in keys
        BY <1>2, <1>3, <1>4, <2>4, <3>4, <4>3, <4>4
      <4> QED
        <5>1. read'[4 * i - 2] = read'[n]
          BY <1>2, <4>4
        <5> QED
          BY <1>1, <4>3, <4>5, <5>1
    <3> QED
      BY <3>2, <3>3, <3>4
  <2>8. CASE pc = "colon"
    <3>1. n = 4 * k + 3
      BY <1>2, <1>6, <2>8 DEF Length
    <3> QED
      BY <2>5, <2>8, <3>1, PositionAt DEF After
  <2>9. CASE pc = "value"
    <3>1. n = 4 * k + 4
      BY <1>2, <1>6, <2>9 DEF Length
    <3> QED
      BY <2>5, <2>9, <3>1, PositionAt DEF After, ValueAllowed
  <2>10. CASE pc = "comma"
    <3>1. n = 4 * k + 1 /\ k > 0
      BY <1>2, <1>6, <2>10 DEF Length
    <3>2. l \in {",", "rbrace"}
      BY <2>5, <3>1, PositionAt
    <3> QED
      BY <2>10, <3>2 DEF After
  <2> QED
    BY <1>8, <2>6, <2>7, <2>8, <2>9, <2>10 DEF Reading
<1> QED
  BY <1>7, <1>8

(***************************************************************************)
(* An input is refused before it is decoded only if no object with         *)
(* distinct fields of the schema, and scalars for values, starts like it.  *)
(***************************************************************************)
THEOREM RefusalsJustified == Spec => RefusedForReason
<1>1. ASSUME Sound, Next, pc \in Reading, pc' = "classify"
      PROVE  ~StartsObject(read')
  <2>1. ReadsLexeme
    BY <1>1 DEF Next, FindsTool, UnknownTool, Decodes, HandlerReturns, HandlerFails,
       HandlerRefuses, Encodes, Classifies, Reading
  <2>2. PICK l \in Lexemes : read' = Append(read, l) /\ After(l) = "classify"
    BY <1>1, <2>1 DEF ReadsLexeme
  <2> QED
    BY <1>1, <2>2, RefusalJustified DEF Sound
<1>2. Sound /\ [Next]_vars => [(pc \in Reading /\ pc' = "classify") => ~StartsObject(read')]_vars
  BY <1>1
<1> QED
  BY <1>2, SoundInvariant, PTL DEF Spec, RefusedForReason
=============================================================================
