-------------------------- MODULE ManifestTheorems --------------------------
(***************************************************************************)
(* What PublishToolManifest promises, for every set of publishers, tools   *)
(* and faults: TypeOK, ReplacesByConsent and ResultIsOwn.                  *)
(*                                                                         *)
(* Every copy of a request carries options that fit each other, and the    *)
(* cloud compares the token of the manifest that it replaces: that is the  *)
(* inductive invariant, with what the answers under way say.               *)
(***************************************************************************)
EXTENDS Manifest, TLAPS

\* What is under way has passed the checks of the client.
Checked ==
  /\ \A p \in Publishers : phase[p] = "waiting" =>
       ValidOptions(Policy[p], token[p]) /\ Publishable(Tools[p])
  /\ \A r \in wire :
       /\ r.policy = Policy[r.publisher] /\ ValidOptions(r.policy, r.ifMatch)
       /\ Publishable(Tools[r.publisher])

Own(p, k) == k \in 1 .. current /\ manifest[k] = Tools[p]

\* What the publishers were told, or will be by an answer that has arrived.
Told ==
  /\ \A p \in Publishers : DoErr(reply[p].answer).nil => Own(p, reply[p].token)
  /\ \A p \in Publishers : phase[p] = "succeeded" => Own(p, result[p])

Inductive == TypeOK /\ Checked /\ ReplacesByConsent /\ Told

-----------------------------------------------------------------------------
LEMMA NoReplyIsNone == NoReplyYet.answer \in Exchange /\ ~DoErr(NoReplyYet.answer).nil
  BY DEF NoReplyYet, NoReply, Exchange, DoErr, TransportError, NoError, Success, Causes, Bodies

LEMMA InductiveInit == Init => Inductive
<1> SUFFICES ASSUME Init PROVE Inductive
  OBVIOUS
<1>1. current \in 0 .. MaxToken /\ current <= 1
  BY MaxTokenAssumption DEF Init
<1>2. manifest \in [Tokens -> AllTools] /\ \A k \in Tokens : manifest[k] = NoTools <=> k > current
  BY <1>1, OldAssumption, MaxTokenAssumption DEF Init, AllTools, NoTools, Tokens
<1>3. token \in [Publishers -> 0 .. MaxToken] /\ result \in [Publishers -> 0 .. MaxToken]
  BY <1>1, MaxTokenAssumption DEF Init, NoToken
<1>4. reply \in [Publishers -> [answer : Exchange, token : 0 .. MaxToken]]
  BY NoReplyIsNone, MaxTokenAssumption DEF Init, NoReplyYet, NoToken
<1>5. TypeOK
  BY <1>1, <1>2, <1>3, <1>4 DEF Init, TypeOK
<1>6. Checked
  BY DEF Init, Checked
<1>7. ReplacesByConsent
  BY <1>1 DEF ReplacesByConsent
<1>8. Told
  BY NoReplyIsNone DEF Init, Told
<1> QED
  BY <1>5, <1>6, <1>7, <1>8 DEF Inductive

\* Nobody but the cloud acknowledges a publication.
LEMMA NotForCloud == \A x \in Answers : x \in Exchange /\ ~DoErr(x).nil
<1>1. ASSUME NEW x \in Exchange, ~(Success(x) /\ x.body = "good")
      PROVE  ~DoErr(x).nil
  BY <1>1 DEF DoErr, TransportError, StatusError, Malformed, NoError
<1> QED
  BY <1>1, AnswersAssumption

\* An answer of the cloud to r that names token k.
LEMMA AnswerTyped ==
  ASSUME TypeOK, NEW r \in wire, NEW status \in {200, 409}, NEW body \in {"good", "none"},
         NEW k \in 0 .. MaxToken, Answer(r, Reply(status, body), k)
  PROVE  /\ reply' \in [Publishers -> [answer : Exchange, token : 0 .. MaxToken]]
         /\ \A p \in Publishers : reply'[p] # reply[p] =>
              p = r.publisher /\ reply'[p] = [answer |-> Reply(status, body), token |-> k]
<1>1. Reply(status, body) \in Exchange
  BY DEF Reply, Exchange, Causes, Bodies
<1> QED
  BY <1>1 DEF TypeOK, Answer, Requests

-----------------------------------------------------------------------------
(* The steps of the publishers and of the network. *)

LEMMA EndsStep ==
  ASSUME Inductive, NEW p \in Publishers, NEW x \in Exchange, NEW k \in 0 .. MaxToken,
         phase[p] = "waiting", Ends(p, x, k), DoErr(x).nil => Own(p, k),
         UNCHANGED <<cloudVars, wire, token>>
  PROVE  Inductive'
<1> USE DEF cloudVars
<1> DEFINE ok == PublishErr(x).nil
<1>1. ok => Own(p, k)
  BY DEF PublishErr
<1> HIDE DEF ok
<1>2. /\ phase' = [phase EXCEPT ![p] = IF ok THEN "succeeded" ELSE "idle"]
      /\ result' = IF ok THEN [result EXCEPT ![p] = k] ELSE result
      /\ reply' = [reply EXCEPT ![p] = NoReplyYet]
  BY DEF Ends, ok
<1>3. TypeOK'
  <2>1. NoReplyYet \in [answer : Exchange, token : 0 .. MaxToken]
    BY NoReplyIsNone, MaxTokenAssumption DEF NoReplyYet, NoToken
  <2> QED
    BY <1>2, <2>1 DEF Inductive, TypeOK
<1>4. Checked'
  BY <1>2 DEF Inductive, TypeOK, Checked
<1>5. ReplacesByConsent'
  BY DEF Inductive, ReplacesByConsent
<1>6. Told'
  <2>1. \A q \in Publishers : DoErr(reply'[q].answer).nil => q # p /\ reply'[q] = reply[q]
    BY <1>2, NoReplyIsNone DEF Inductive, TypeOK
  <2>2. \A q \in Publishers : phase'[q] = "succeeded" =>
          (q = p /\ ok /\ result'[q] = k) \/ (q # p /\ phase[q] = "succeeded" /\ result'[q] = result[q])
    BY <1>2 DEF Inductive, TypeOK
  <2> QED
    BY <1>1, <2>1, <2>2 DEF Inductive, Told, Own
<1> QED
  BY <1>3, <1>4, <1>5, <1>6 DEF Inductive

LEMMA SendsStep ==
  ASSUME Inductive, NEW p \in Publishers, wire' = wire \cup {Request(p)},
         ValidOptions(Policy[p], token[p]), Publishable(Tools[p]),
         UNCHANGED <<cloudVars, reply, token, result>>,
         \/ phase' = [phase EXCEPT ![p] = "waiting"] /\ phase[p] = "idle"
         \/ UNCHANGED phase
  PROVE  Inductive'
<1> USE DEF cloudVars
<1>1. Request(p) \in Requests
  BY PolicyAssumption DEF Request, Requests, Inductive, TypeOK
<1>2. Request(p).publisher = p /\ Request(p).policy = Policy[p] /\ Request(p).ifMatch = token[p]
  BY DEF Request
<1>3. TypeOK'
  BY <1>1 DEF Inductive, TypeOK
<1>4. Checked'
  BY <1>2 DEF Inductive, TypeOK, Checked
<1>5. ReplacesByConsent'
  BY DEF Inductive, ReplacesByConsent
<1>6. Told'
  BY DEF Inductive, TypeOK, Told, Own
<1> QED
  BY <1>3, <1>4, <1>5, <1>6 DEF Inductive

LEMMA LearnsStep ==
  ASSUME Inductive, NEW p \in Publishers, LearnsToken(p)
  PROVE  Inductive'
<1> USE DEF cloudVars
<1>1. TypeOK'
  BY DEF LearnsToken, Inductive, TypeOK
<1>2. Checked'
  BY DEF LearnsToken, Inductive, TypeOK, Checked
<1>3. ReplacesByConsent' /\ Told'
  BY DEF LearnsToken, Inductive, ReplacesByConsent, Told, Own
<1> QED
  BY <1>1, <1>2, <1>3 DEF Inductive

-----------------------------------------------------------------------------
(* The steps of the cloud. *)

LEMMA KeepsStep ==
  ASSUME Inductive, NEW r \in wire, wire' = wire \ {r}, UNCHANGED <<phase, token, result>>,
         KeepsManifest(r)
  PROVE  Inductive'
<1> USE DEF cloudVars
<1>1. current \in 1 .. MaxToken /\ r.publisher \in Publishers /\ Own(r.publisher, current)
  BY DEF KeepsManifest, InForce, NoToken, Own, Inductive, TypeOK, Requests
<1> DEFINE answer == [answer |-> Reply(200, "good"), token |-> current]
<1>2. /\ reply' \in [Publishers -> [answer : Exchange, token : 0 .. MaxToken]]
      /\ \A p \in Publishers : reply'[p] # reply[p] => p = r.publisher /\ reply'[p] = answer
  <2>1. 200 \in {200, 409} /\ "good" \in {"good", "none"} /\ current \in 0 .. MaxToken /\ TypeOK
    BY <1>1 DEF Inductive
  <2>2. Answer(r, Reply(200, "good"), current)
    BY DEF KeepsManifest
  <2> QED
    BY <2>1, <2>2, AnswerTyped
<1>3. UNCHANGED cloudVars
  BY DEF KeepsManifest
<1>4. TypeOK'
  BY <1>2, <1>3 DEF Inductive, TypeOK
<1>5. Checked'
  BY DEF Inductive, Checked
<1>6. ReplacesByConsent'
  BY <1>3 DEF Inductive, ReplacesByConsent
<1>7. Told'
  <2>1. \A p \in Publishers : reply'[p] # reply[p] => p = r.publisher /\ reply'[p].token = current
    BY <1>2
  <2> QED
    BY <1>1, <1>3, <2>1 DEF Inductive, Told, Own
<1> QED
  BY <1>4, <1>5, <1>6, <1>7 DEF Inductive

LEMMA RefuseStep ==
  ASSUME Inductive, NEW r \in wire, wire' = wire \ {r}, UNCHANGED <<phase, token, result>>,
         RefusesConflict(r)
  PROVE  Inductive'
<1> USE DEF cloudVars
<1> DEFINE answer == [answer |-> Reply(409, "none"), token |-> NoToken]
<1>1. /\ reply' \in [Publishers -> [answer : Exchange, token : 0 .. MaxToken]]
      /\ \A p \in Publishers : reply'[p] # reply[p] => p = r.publisher /\ reply'[p] = answer
  <2>1. 409 \in {200, 409} /\ "none" \in {"good", "none"} /\ NoToken \in 0 .. MaxToken /\ TypeOK
    BY MaxTokenAssumption DEF Inductive, NoToken
  <2>2. Answer(r, Reply(409, "none"), NoToken)
    BY DEF RefusesConflict
  <2> QED
    BY <2>1, <2>2, AnswerTyped
<1>2. UNCHANGED cloudVars
  BY DEF RefusesConflict
<1>3. ~DoErr(Reply(409, "none")).nil
  <2>1. Reply(409, "none").reply /\ ~Success(Reply(409, "none"))
    BY DEF Reply, Success
  <2> QED
    BY <2>1 DEF DoErr, StatusError, NoError
<1>4. TypeOK'
  BY <1>1, <1>2 DEF Inductive, TypeOK
<1>5. Checked'
  BY DEF Inductive, Checked
<1>6. ReplacesByConsent'
  BY <1>2 DEF Inductive, ReplacesByConsent
<1>7. Told'
  <2>1. \A p \in Publishers : reply'[p] # reply[p] => ~DoErr(reply'[p].answer).nil
    BY <1>1, <1>3
  <2> QED
    BY <1>2, <2>1 DEF Inductive, Told, Own
<1> QED
  BY <1>4, <1>5, <1>6, <1>7 DEF Inductive

LEMMA ReplaceStep ==
  ASSUME Inductive, NEW r \in wire, wire' = wire \ {r}, UNCHANGED <<phase, token, result>>,
         Replaces(r)
  PROVE  Inductive'
<1> USE DEF cloudVars
<1> DEFINE p == r.publisher
<1>1. current \in Nat /\ current + 1 \in 1 .. MaxToken /\ p \in Publishers /\ r \in Requests
  BY MaxTokenAssumption DEF Replaces, Inductive, TypeOK, Requests
<1>2. /\ current' = current + 1
      /\ manifest' = [manifest EXCEPT ![current + 1] = Tools[p]]
      /\ origin' = [origin EXCEPT ![current + 1] = r]
      /\ Permits(r)
      /\ Answer(r, Reply(200, "good"), current + 1)
  BY DEF Replaces
<1>3. Tools[p] \in AllTools /\ Tools[p] # NoTools
  BY <1>1 DEF AllTools, Inductive, Checked, Publishable
<1>4. \A k \in Tokens : /\ manifest'[k] = IF k = current + 1 THEN Tools[p] ELSE manifest[k]
                        /\ origin'[k] = IF k = current + 1 THEN r ELSE origin[k]
  BY <1>1, <1>2 DEF Inductive, TypeOK, Tokens
<1> DEFINE answer == [answer |-> Reply(200, "good"), token |-> current + 1]
<1>5. /\ reply' \in [Publishers -> [answer : Exchange, token : 0 .. MaxToken]]
      /\ \A q \in Publishers : reply'[q] # reply[q] => q = p /\ reply'[q] = answer
  <2>1. 200 \in {200, 409} /\ "good" \in {"good", "none"} /\ current + 1 \in 0 .. MaxToken /\ TypeOK
    BY <1>1 DEF Inductive
  <2> QED
    BY <1>2, <2>1, AnswerTyped
<1>6. TypeOK'
  <2>1. manifest' \in [Tokens -> AllTools] /\ origin' \in [Tokens -> Requests \cup {NoRequest}]
    BY <1>1, <1>2, <1>3 DEF Inductive, TypeOK, Tokens
  <2>2. \A k \in Tokens : manifest'[k] = NoTools <=> k > current'
    BY <1>1, <1>2, <1>3, <1>4 DEF Inductive, TypeOK, Tokens
  <2>3. current' \in 0 .. MaxToken
    BY <1>1, <1>2
  <2> QED
    BY <1>5, <2>1, <2>2, <2>3 DEF Inductive, TypeOK
<1>7. Checked'
  BY DEF Inductive, Checked
<1>8. ReplacesByConsent'
  <2>1. current # 0 => IF r.ifMatch = NoToken THEN Policy[p] = "replace" ELSE r.ifMatch = current
    <3>1. /\ r.policy = Policy[p]
          /\ \/ r.policy \in {"default", "replace"} /\ r.ifMatch = NoToken
             \/ r.policy = "replace_if_token_match" /\ r.ifMatch # NoToken
      BY DEF Inductive, Checked, ValidOptions
    <3>2. CASE r.policy = "default"
      BY <1>2, <3>1, <3>2 DEF Permits, NoToken
    <3>3. CASE r.policy = "replace"
      BY <3>1, <3>3
    <3>4. CASE r.policy = "replace_if_token_match"
      BY <1>2, <3>1, <3>4 DEF Permits
    <3> QED
      BY <3>1, <3>2, <3>3, <3>4
  <2>2. ASSUME NEW k \in 2 .. current'
        PROVE  IF origin'[k].ifMatch = NoToken THEN Policy[origin'[k].publisher] = "replace"
               ELSE origin'[k].ifMatch = k - 1
    <3>1. k \in Tokens /\ (k \in 2 .. current \/ (k = current + 1 /\ current # 0))
      <4>1. k \in 2 .. current + 1 /\ MaxToken \in Nat
        BY <1>2, <2>2, MaxTokenAssumption
      <4>2. k \in 1 .. MaxToken
        BY <1>1, <4>1
      <4>3. k \in 2 .. current \/ (k = current + 1 /\ current # 0)
        BY <1>1, <4>1
      <4> QED
        BY <4>2, <4>3 DEF Tokens
    <3>2. CASE k \in 2 .. current
      <4>1. origin'[k] = origin[k]
        BY <1>1, <1>4, <3>1, <3>2
      <4> QED
        BY <3>2, <4>1 DEF Inductive, ReplacesByConsent
    <3>3. CASE k = current + 1 /\ current # 0
      <4>1. origin'[k] = r /\ k - 1 = current
        BY <1>1, <1>4, <3>1, <3>3
      <4> QED
        BY <2>1, <3>3, <4>1
    <3> QED
      BY <3>1, <3>2, <3>3
  <2> QED
    BY <2>2 DEF ReplacesByConsent
<1>9. Told'
  <2> DEFINE OwnNext(q, k) == k \in 1 .. current' /\ manifest'[k] = Tools[q]
  <2>1. ASSUME NEW q \in Publishers, NEW k \in 0 .. MaxToken, Own(q, k)
        PROVE  OwnNext(q, k)
    <3>1. k \in 1 .. current /\ k \in 1 .. current + 1 /\ k # current + 1 /\ k \in 1 .. MaxToken
      BY <1>1, <2>1 DEF Own
    <3> QED
      BY <1>2, <1>4, <2>1, <3>1 DEF Own, Tokens
  <2>2. OwnNext(p, current + 1)
    <3>1. current + 1 \in 1 .. current + 1
      BY <1>1
    <3> QED
      BY <1>1, <1>2, <1>4, <3>1 DEF Tokens
  <2>3. \A q \in Publishers : reply'[q] # reply[q] => q = p /\ reply'[q].token = current + 1
    BY <1>5
  <2>4. \A q \in Publishers : reply[q].token \in 0 .. MaxToken /\ result[q] \in 0 .. MaxToken
    BY DEF Inductive, TypeOK
  <2> HIDE DEF OwnNext
  <2>5. \A q \in Publishers : DoErr(reply'[q].answer).nil => OwnNext(q, reply'[q].token)
    BY <2>1, <2>2, <2>3, <2>4 DEF Inductive, Told
  <2>6. \A q \in Publishers : phase'[q] = "succeeded" => OwnNext(q, result'[q])
    BY <2>1, <2>4 DEF Inductive, Told
  <2> QED
    BY <2>5, <2>6 DEF OwnNext, Told, Own
<1> QED
  BY <1>6, <1>7, <1>8, <1>9 DEF Inductive

-----------------------------------------------------------------------------
LEMMA InductiveStep == Inductive /\ [Next]_vars => Inductive'
<1> SUFFICES ASSUME Inductive, [Next]_vars PROVE Inductive'
  OBVIOUS
<1>1. ASSUME NEW p \in Publishers, LearnsToken(p) PROVE Inductive'
  BY <1>1, LearnsStep
<1>2. ASSUME NEW p \in Publishers, Dispatch(p) PROVE Inductive'
  BY <1>2, SendsStep DEF Dispatch
<1>3. ASSUME NEW p \in Publishers, Receives(p) PROVE Inductive'
  <2>1. reply[p].answer \in Exchange /\ reply[p].token \in 0 .. MaxToken
    BY DEF Inductive, TypeOK
  <2>2. DoErr(reply[p].answer).nil => Own(p, reply[p].token)
    BY DEF Inductive, Told
  <2> QED
    BY <1>3, <2>1, <2>2, EndsStep DEF Receives
<1>4. ASSUME NEW p \in Publishers, AnsweredForCloud(p) PROVE Inductive'
  <2>1. PICK x \in Answers : Ends(p, x, NoToken)
    BY <1>4 DEF AnsweredForCloud
  <2>2. x \in Exchange /\ ~DoErr(x).nil /\ NoToken \in 0 .. MaxToken
    BY NotForCloud, MaxTokenAssumption DEF NoToken
  <2> QED
    BY <1>4, <2>1, <2>2, EndsStep DEF AnsweredForCloud
<1>5. ASSUME NEW p \in Publishers, SentAgain(p) PROVE Inductive'
  <2>1. ValidOptions(Policy[p], token[p]) /\ Publishable(Tools[p])
    BY <1>5 DEF SentAgain, Inductive, Checked
  <2> QED
    BY <1>5, <2>1, SendsStep DEF SentAgain
<1>6. ASSUME NEW r \in wire, Handles(r) PROVE Inductive'
  BY <1>6, KeepsStep, ReplaceStep, RefuseStep DEF Handles
<1>7. ASSUME UNCHANGED vars PROVE Inductive'
  <2> USE <1>7 DEF vars, cloudVars
  <2>1. TypeOK' /\ Checked'
    BY DEF Inductive, TypeOK, Checked
  <2>2. ReplacesByConsent' /\ Told'
    BY DEF Inductive, ReplacesByConsent, Told, Own
  <2> QED
    BY <2>1, <2>2 DEF Inductive
<1> QED
  BY <1>1, <1>2, <1>3, <1>4, <1>5, <1>6, <1>7 DEF Next

LEMMA InductiveInvariant == Spec => []Inductive
  BY InductiveInit, InductiveStep, PTL DEF Spec

(***************************************************************************)
(* The state of the publishers, of the network and of the cloud.           *)
(***************************************************************************)
THEOREM ManifestTyped == Spec => []TypeOK
<1>1. Inductive => TypeOK
  BY DEF Inductive
<1> QED
  BY <1>1, InductiveInvariant, PTL

(***************************************************************************)
(* No manifest is replaced by a publisher that has not seen it and has not *)
(* chosen to replace whatever is there.                                    *)
(***************************************************************************)
THEOREM NoLostUpdate == Spec => []ReplacesByConsent
<1>1. Inductive => ReplacesByConsent
  BY DEF Inductive
<1> QED
  BY <1>1, InductiveInvariant, PTL

(***************************************************************************)
(* A publisher that is told of success holds the token of its own tools.   *)
(***************************************************************************)
THEOREM ResultsOwn == Spec => []ResultIsOwn
<1>1. Inductive => ResultIsOwn
  BY DEF Inductive, Told, Own, ResultIsOwn
<1> QED
  BY <1>1, InductiveInvariant, PTL
=============================================================================
