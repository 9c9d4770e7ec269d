--------------------------- MODULE SessionTheorems ---------------------------
(***************************************************************************)
(* What the session methods promise, for every set of commands, sessions   *)
(* and faults: TypeOK, AppliedOnce, AcknowledgedIsTrue and LastWordStands; *)
(* that they implement CommandContract; and when DeletedIsTrue holds.      *)
(*                                                                         *)
(* The cloud remembers the key of what it has carried out, every copy of a *)
(* request carries the same key and names the same session, and the client *)
(* believes nobody but the cloud: that is the inductive invariant.         *)
(***************************************************************************)
EXTENDS Session, TLAPS

Begun(c) == before[c] # NotBegun

\* A command that was ever sent has its session, and its copies are all alike.
Alike ==
  /\ \A c \in Commands : phase[c] # "idle" => Begun(c)
  /\ \A c \in Commands : Begun(c) => HasSession(c)
  /\ \A r \in wire : Begun(r.command) /\ r = Request(r.command)

\* What was carried out: with a key once, without one until the session is gone.
Counted ==
  /\ \A c \in Commands : Kind[c] # "delete" => applied[c] = IF c \in done THEN 1 ELSE 0
  /\ \A c \in Commands : Kind[c] = "delete" =>
       /\ c \notin done
       /\ applied[c] = 0 \/ (applied[c] = 1 /\ Begun(c) /\ sessions[result[Of[c]]] = "deleted")

\* One session per create that was carried out.
Own ==
  /\ \A c \in Commands : made[c] # NoSession <=> (c \in done /\ Kind[c] = "create")
  /\ \A c \in Commands : made[c] # NoSession => sessions[made[c]] # "free"
  /\ \A c, d \in Commands : c # d /\ made[c] # NoSession => made[c] # made[d]

\* What the callers were told, or will be by an answer that has arrived.
Told ==
  /\ \A c \in Commands : DoErr(reply[c].answer).nil /\ Kind[c] # "delete" =>
       c \in done /\ (Kind[c] = "create" => reply[c].session = made[c])
  /\ \A c \in Commands : phase[c] = "succeeded" /\ Kind[c] # "delete" =>
       c \in done /\ (Kind[c] = "create" => result[c] = made[c])
  /\ \A c \in Commands : result[c] # NoSession => phase[c] = "succeeded" /\ Kind[c] = "create"

\* Who came before a command has succeeded, and the last word has been obeyed.
Obeyed ==
  /\ \A c \in Commands : Begun(c) => \A u \in before[c] : phase[u] = "succeeded"
  /\ \A c \in done : Begun(c)
  /\ \A c \in done : Kind[c] \in {"archive", "restore"} /\ CameLast(c) =>
       sessions[result[Of[c]]] = Goal(c)

Inductive == TypeOK /\ Alike /\ Counted /\ Own /\ Told /\ Obeyed

-----------------------------------------------------------------------------
LEMMA NoReplyIsNone == NoReplyYet.answer \in Exchange /\ ~DoErr(NoReplyYet.answer).nil
  BY DEF NoReplyYet, NoReply, Exchange, DoErr, TransportError, NoError, Success, Causes, Bodies

LEMMA InductiveInit == Init => Inductive
<1> SUFFICES ASSUME Init PROVE Inductive
  OBVIOUS
<1>1. TypeOK
  BY NoReplyIsNone DEF Init, TypeOK, NoReplyYet, NotBegun
<1>2. Alike
  BY DEF Init, Alike, Begun
<1>3. Counted
  BY DEF Init, Counted, Begun
<1>4. Own
  BY DEF Init, Own
<1>5. Told
  BY NoReplyIsNone, NamesAssumption DEF Init, Told
<1>6. Obeyed
  BY DEF Init, Obeyed, Begun
<1> QED
  BY <1>1, <1>2, <1>3, <1>4, <1>5, <1>6 DEF Inductive

\* Nobody but the cloud acknowledges a command.
LEMMA NotForCloud ==
  /\ \A x \in Answers : ~DoErr(x).nil
  /\ ~DoErr(Reply(200, "bad")).nil
  /\ Reply(200, "bad") \in Exchange
<1>1. ASSUME NEW x \in Exchange, ~(Success(x) /\ x.body = "good")
      PROVE  ~DoErr(x).nil
  BY <1>1 DEF DoErr, TransportError, StatusError, Malformed, NoError
<1>2. Reply(200, "bad") \in Exchange /\ Reply(200, "bad").body # "good"
  BY DEF Reply, Exchange, Causes, Bodies
<1> QED
  BY <1>1, <1>2, AnswersAssumption

\* An answer of the cloud to command c that names session s is the truth.
LEMMA AnswerTyped ==
  ASSUME TypeOK, NEW r \in wire, NEW status \in {200, 204, 404, 409},
         NEW body \in {"good", "none"}, NEW s \in SessionIds \cup {NoSession},
         Answer(r, Reply(status, body), s)
  PROVE  /\ reply' \in [Commands -> [answer : Exchange, session : SessionIds \cup {NoSession}]]
         /\ \A c \in Commands : reply'[c] # reply[c] =>
              c = r.command /\ reply'[c] = [answer |-> Reply(status, body), session |-> s]
<1>1. Reply(status, body) \in Exchange
  BY DEF Reply, Exchange, Causes, Bodies
<1> QED
  BY <1>1 DEF TypeOK, Answer

-----------------------------------------------------------------------------
(* The end of a call, whoever answers it. *)
LEMMA EndsStep ==
  ASSUME Inductive, NEW c \in Commands, NEW x \in Exchange, NEW s \in SessionIds \cup {NoSession},
         phase[c] = "waiting", Ends(c, x, s),
         DoErr(x).nil /\ Kind[c] # "delete" => c \in done /\ (Kind[c] = "create" => s = made[c]),
         UNCHANGED <<cloudVars, wire, before>>
  PROVE  Inductive'
<1> USE DEF cloudVars
<1> DEFINE ok == CommandErr(c, x).nil
<1> HIDE DEF ok
<1>1. ok /\ Kind[c] # "delete" => c \in done /\ (Kind[c] = "create" => s = made[c])
  BY DEF ok, CommandErr
<1>2. /\ phase' = [phase EXCEPT ![c] = IF ok THEN "succeeded" ELSE "idle"]
      /\ result' = IF ok /\ Kind[c] = "create" THEN [result EXCEPT ![c] = s] ELSE result
      /\ reply' = [reply EXCEPT ![c] = NoReplyYet]
  BY DEF Ends, ok
<1>3. result[c] = NoSession
  BY DEF Inductive, Told
<1>4. TypeOK'
  BY <1>2, NoReplyIsNone DEF Inductive, TypeOK, NoReplyYet
<1>5. \A u \in Commands : Begun(u) => result'[Of[u]] = result[Of[u]] \/ (Kind[u] = "create" /\ u = c)
  BY <1>2, <1>3, OfAssumption DEF Inductive, Alike, HasSession, TypeOK
<1>6. \A u \in Commands : Begun(u)' <=> Begun(u)
  BY DEF Begun
<1>7. Alike'
  <2>1. \A u \in Commands : phase'[u] # "idle" => Begun(u)
    BY <1>2 DEF Inductive, Alike, TypeOK
  <2>2. \A u \in Commands : Begun(u) => HasSession(u)'
    BY <1>5 DEF Inductive, Alike, HasSession
  <2>3. \A r \in wire : Begun(r.command) /\ r = Request(r.command)'
    BY <1>5 DEF Inductive, Alike, TypeOK, Request, IdempotencyKey
  <2> QED
    BY <2>1, <2>2, <2>3 DEF Alike, Begun, HasSession, Request
<1>8. Counted'
  BY <1>5, <1>6 DEF Inductive, Counted
<1>9. Own'
  BY DEF Inductive, Own
<1>10. Told'
  <2>1. \A u \in Commands : DoErr(reply'[u].answer).nil => u # c /\ reply'[u] = reply[u]
    BY <1>2, NoReplyIsNone DEF Inductive, TypeOK
  <2>2. \A u \in Commands : phase'[u] = "succeeded" => (u = c /\ ok) \/ (u # c /\ phase[u] = "succeeded")
    BY <1>2 DEF Inductive, TypeOK
  <2>3. \A u \in Commands : u # c => result'[u] = result[u]
    BY <1>2 DEF Inductive, TypeOK
  <2>4. ok /\ Kind[c] = "create" => result'[c] = s
    BY <1>2 DEF Inductive, TypeOK
  <2>5. result'[c] # NoSession => phase'[c] = "succeeded" /\ Kind[c] = "create"
    BY <1>2, <1>3 DEF Inductive, TypeOK
  <2>6. \A u \in Commands : u # c => phase'[u] = phase[u]
    BY <1>2 DEF Inductive, TypeOK
  <2> QED
    BY <1>1, <2>1, <2>2, <2>3, <2>4, <2>5, <2>6 DEF Inductive, Told
<1>11. Obeyed'
  <2>1. \A u \in Commands : phase[u] = "succeeded" => phase'[u] = "succeeded"
    BY <1>2 DEF Inductive, TypeOK
  <2>2. \A u \in Commands : CameLast(u)' <=> CameLast(u)
    BY DEF CameLast
  <2>3. \A u \in Commands : Begun(u) => \A v \in before[u] : phase'[v] = "succeeded"
    BY <2>1 DEF Inductive, Obeyed, TypeOK, Begun
  <2>4. \A u \in done : Kind[u] \in {"archive", "restore"} /\ CameLast(u) =>
          sessions[result'[Of[u]]] = Goal(u)
    BY <1>5 DEF Inductive, Obeyed, TypeOK
  <2> QED
    BY <1>6, <2>2, <2>3, <2>4 DEF Inductive, Obeyed, TypeOK, Goal
<1> QED
  BY <1>4, <1>7, <1>8, <1>9, <1>10, <1>11 DEF Inductive

(* Sending a request, for the first time or again. *)

LEMMA SendsStep ==
  ASSUME Inductive, NEW c \in Commands, HasSession(c), wire' = wire \cup {Request(c)},
         UNCHANGED <<cloudVars, reply, result>>,
         \/ /\ phase[c] = "idle"
            /\ phase' = [phase EXCEPT ![c] = "waiting"]
            /\ before' = IF before[c] = NotBegun
                           THEN [before EXCEPT ![c] = {u \in Commands : phase[u] = "succeeded"}]
                           ELSE before
         \/ phase[c] = "waiting" /\ UNCHANGED <<phase, before>>
  PROVE  Inductive'
<1> USE DEF cloudVars
<1>1. Request(c) \in [command : Commands, key : Keys, session : SessionIds \cup {NoSession}]
  <2>1. IdempotencyKey(c) \in Keys
    BY DEF IdempotencyKey, Keys
  <2>2. result[Of[c]] \in SessionIds \cup {NoSession}
    BY OfAssumption DEF Inductive, TypeOK
  <2> QED
    BY <2>1, <2>2 DEF Request
<1>2. Request(c).command = c /\ (Request(c).session = NoSession <=> Kind[c] = "create")
  BY DEF Request, HasSession
<1>3. TypeOK'
  <2>1. before' \in [Commands -> (SUBSET Commands) \cup {NotBegun}]
    <3>1. {u \in Commands : phase[u] = "succeeded"} \in SUBSET Commands
      OBVIOUS
    <3> QED
      BY <3>1 DEF Inductive, TypeOK
  <2>2. phase' \in [Commands -> {"idle", "waiting", "succeeded"}]
    BY DEF Inductive, TypeOK
  <2>3. /\ wire' \subseteq [command : Commands, key : Keys, session : SessionIds \cup {NoSession}]
        /\ \A r \in wire' : r.session = NoSession <=> Kind[r.command] = "create"
    BY <1>1, <1>2 DEF Inductive, TypeOK
  <2> QED
    BY <2>1, <2>2, <2>3 DEF Inductive, TypeOK
<1>4. \A u \in Commands : phase'[u] = "succeeded" <=> phase[u] = "succeeded"
  BY DEF Inductive, TypeOK
<1>5. \A u \in Commands : Begun(u) => before'[u] = before[u] /\ Begun(u)'
  BY DEF Inductive, TypeOK, Begun
<1>6. Begun(c)'
  <2>1. CASE phase[c] = "idle"
    <3>1. {u \in Commands : phase[u] = "succeeded"} # NotBegun
      BY NamesAssumption DEF NotBegun
    <3> QED
      BY <2>1, <3>1 DEF Inductive, TypeOK, Begun, NotBegun
  <2>2. CASE phase[c] = "waiting"
    BY <2>2, <1>5 DEF Inductive, Alike
  <2> QED
    BY <2>1, <2>2
<1>7. \A u \in Commands : Begun(u)' => Begun(u) \/ (u = c /\ before'[c] = {v \in Commands : phase[v] = "succeeded"})
  BY DEF Inductive, TypeOK, Begun
<1>8. Alike'
  <2>1. \A u \in Commands : phase'[u] # "idle" => Begun(u)'
    BY <1>5, <1>6 DEF Inductive, TypeOK, Alike
  <2>2. \A u \in Commands : Begun(u)' => HasSession(u)
    BY <1>7 DEF Inductive, Alike
  <2>3. \A r \in wire' : Begun(r.command)' /\ r = Request(r.command)
    BY <1>2, <1>5, <1>6 DEF Inductive, Alike, TypeOK
  <2> QED
    BY <2>1, <2>2, <2>3 DEF Alike, Begun, HasSession, Request
<1>9. Counted'
  BY <1>5 DEF Inductive, Counted
<1>10. Own'
  BY DEF Inductive, Own
<1>11. Told'
  BY <1>4 DEF Inductive, Told
<1>12. Obeyed'
  <2>1. \A u \in Commands : Begun(u)' => \A v \in before'[u] : phase'[v] = "succeeded"
    BY <1>4, <1>5, <1>7 DEF Inductive, TypeOK, Obeyed, Begun
  <2>2. \A u \in done : Begun(u)'
    BY <1>5 DEF Inductive, TypeOK, Obeyed
  <2>3. ASSUME NEW u \in done, CameLast(u)'
        PROVE  CameLast(u)
    <3>1. before'[u] = before[u]
      BY <1>5 DEF Inductive, TypeOK, Obeyed
    <3>2. \A v \in Commands : before[v] # NotBegun => before'[v] # NotBegun
      BY <1>5 DEF Begun
    <3> QED
      BY <2>3, <3>1, <3>2 DEF CameLast
  <2> QED
    BY <2>1, <2>2, <2>3 DEF Inductive, Obeyed, Begun, Goal
<1> QED
  BY <1>3, <1>8, <1>9, <1>10, <1>11, <1>12 DEF Inductive

-----------------------------------------------------------------------------
(* The cloud handles a request. *)

\* The session a request is about is the one that was made for it.
LEMMA SessionOf ==
  ASSUME Inductive
  PROVE  /\ \A u \in Commands : Begun(u) /\ Kind[u] # "create" =>
              /\ result[Of[u]] = made[Of[u]] /\ result[Of[u]] \in SessionIds
              /\ sessions[result[Of[u]]] # "free"
         /\ \A u, v \in Commands :
              /\ Begun(u) /\ Kind[u] # "create" /\ Begun(v) /\ Kind[v] # "create"
              /\ result[Of[u]] = result[Of[v]]
              => Of[u] = Of[v]
<1>1. ASSUME NEW u \in Commands, Begun(u), Kind[u] # "create"
      PROVE  /\ Of[u] \in Commands /\ result[Of[u]] # NoSession
             /\ result[Of[u]] = made[Of[u]] /\ result[Of[u]] \in SessionIds
             /\ sessions[result[Of[u]]] # "free"
  <2>1. Of[u] \in Commands /\ Kind[Of[u]] = "create"
    BY OfAssumption
  <2>2. result[Of[u]] # NoSession
    BY <1>1 DEF Inductive, Alike, HasSession
  <2>3. result[Of[u]] = made[Of[u]]
    BY <2>1, <2>2 DEF Inductive, Told
  <2> QED
    BY <2>1, <2>2, <2>3 DEF Inductive, TypeOK, Own
<1>2. \A c, d \in Commands : made[c] # NoSession /\ made[c] = made[d] => c = d
  BY DEF Inductive, Own
<1> QED
  BY <1>1, <1>2

LEMMA KeyOf ==
  ASSUME Inductive, NEW r \in wire
  PROVE  /\ r.command \in Commands /\ Begun(r.command)
         /\ r.key = IdempotencyKey(r.command)
         /\ Kind[r.command] # "create" => r.session = result[Of[r.command]]
         /\ Kind[r.command] # "delete" => r.key = r.command
         /\ Kind[r.command] = "delete" => r.key = NoKey
         /\ r.key \in done => Kind[r.command] # "delete"
  BY NamesAssumption DEF Inductive, TypeOK, Alike, Request, IdempotencyKey

\* What handling a request leaves as it was.
LEMMA HandledAlike ==
  ASSUME Alike, wire' \subseteq wire, UNCHANGED <<phase, result, before>>
  PROVE  Alike'
  BY DEF Alike, Begun, HasSession, Request, IdempotencyKey

LEMMA ReplayStep ==
  ASSUME Inductive, NEW r \in wire, wire' = wire \ {r}, UNCHANGED <<phase, result, before>>,
         Replays(r)
  PROVE  Inductive'
<1> USE DEF cloudVars
<1>1. made[r.key] \in SessionIds \cup {NoSession}
  BY DEF Replays, Inductive, TypeOK
<1>2. UNCHANGED cloudVars /\ Answer(r, Reply(200, "good"), made[r.key]) /\ r.key \in done
  BY DEF Replays
<1>3. /\ reply' \in [Commands -> [answer : Exchange, session : SessionIds \cup {NoSession}]]
      /\ \A c \in Commands : reply'[c] # reply[c] =>
           c = r.command /\ reply'[c].session = made[r.key]
  <2> DEFINE answer == [answer |-> Reply(200, "good"), session |-> made[r.key]]
  <2>1. /\ reply' \in [Commands -> [answer : Exchange, session : SessionIds \cup {NoSession}]]
        /\ \A c \in Commands : reply'[c] # reply[c] => c = r.command /\ reply'[c] = answer
    <3>1. 200 \in {200, 204, 404, 409} /\ "good" \in {"good", "none"}
      OBVIOUS
    <3> QED
      BY <1>1, <1>2, <3>1, AnswerTyped DEF Inductive
  <2> QED
    BY <2>1
<1>4. TypeOK'
  BY <1>2, <1>3 DEF Inductive, TypeOK
<1>5. Told'
  BY <1>2, <1>3, KeyOf DEF Inductive, Told
<1> QED
  BY <1>2, <1>4, <1>5, HandledAlike
  DEF Inductive, Counted, Own, Obeyed, CameLast, Begun, Goal

LEMMA RefuseStep ==
  ASSUME Inductive, NEW r \in wire, wire' = wire \ {r}, UNCHANGED <<phase, result, before>>,
         Refuses(r)
  PROVE  Inductive'
<1> USE DEF cloudVars
<1>1. UNCHANGED cloudVars /\ \E status \in {404, 409} : Answer(r, Reply(status, "none"), NoSession)
  BY DEF Refuses
<1>2. /\ reply' \in [Commands -> [answer : Exchange, session : SessionIds \cup {NoSession}]]
      /\ \A c \in Commands : reply'[c] # reply[c] =>
           \E status \in {404, 409} : reply'[c].answer = Reply(status, "none")
  <2>1. PICK status \in {404, 409} : Answer(r, Reply(status, "none"), NoSession)
    BY <1>1
  <2> DEFINE answer == [answer |-> Reply(status, "none"), session |-> NoSession]
  <2>2. /\ reply' \in [Commands -> [answer : Exchange, session : SessionIds \cup {NoSession}]]
        /\ \A c \in Commands : reply'[c] # reply[c] => reply'[c] = answer
    <3>1. status \in {200, 204, 404, 409} /\ "none" \in {"good", "none"}
      OBVIOUS
    <3> QED
      BY <2>1, <3>1, AnswerTyped DEF Inductive
  <2> QED
    BY <2>2
<1>3. \A status \in {404, 409} : ~DoErr(Reply(status, "none")).nil
  BY DEF DoErr, Reply, Success, StatusError, NoError
<1>4. TypeOK'
  BY <1>1, <1>2 DEF Inductive, TypeOK
<1>5. Told'
  BY <1>1, <1>2, <1>3 DEF Inductive, Told
<1> QED
  BY <1>1, <1>4, <1>5, HandledAlike
  DEF Inductive, Counted, Own, Obeyed, CameLast, Begun, Goal

LEMMA CreateStep ==
  ASSUME Inductive, NEW r \in wire, wire' = wire \ {r}, UNCHANGED <<phase, result, before>>,
         HandlesCreate(r)
  PROVE  Inductive'
<1> DEFINE c == r.command
<1>1. /\ c \in Commands /\ Begun(c) /\ Kind[c] = "create" /\ r.key = c /\ c \notin done
      /\ made[c] = NoSession /\ applied[c] = 0
  BY KeyOf DEF HandlesCreate, Inductive, Own, Counted
<1>2. PICK s \in SessionIds :
        /\ sessions[s] = "free"
        /\ sessions' = [sessions EXCEPT ![s] = "active"]
        /\ made' = [made EXCEPT ![c] = s]
        /\ Answer(r, Reply(200, "good"), s)
  BY DEF HandlesCreate
<1>3. /\ done' = done \cup {c}
      /\ applied' = [applied EXCEPT ![c] = @ + 1]
  BY <1>1, NamesAssumption DEF HandlesCreate, CarriedOut
<1>4. /\ reply' \in [Commands -> [answer : Exchange, session : SessionIds \cup {NoSession}]]
      /\ \A u \in Commands : reply'[u] # reply[u] => u = c /\ reply'[u].session = s
  <2> DEFINE answer == [answer |-> Reply(200, "good"), session |-> s]
  <2>1. /\ reply' \in [Commands -> [answer : Exchange, session : SessionIds \cup {NoSession}]]
        /\ \A u \in Commands : reply'[u] # reply[u] => u = c /\ reply'[u] = answer
    <3>1. 200 \in {200, 204, 404, 409} /\ "good" \in {"good", "none"}
      OBVIOUS
    <3> QED
      BY <1>2, <3>1, AnswerTyped DEF Inductive
  <2> QED
    BY <2>1
<1> HIDE DEF c
<1>5. TypeOK'
  <2>1. applied' \in [Commands -> Nat] /\ done' \subseteq Commands
    BY <1>1, <1>3 DEF Inductive, TypeOK
  <2>2. /\ sessions' \in [SessionIds -> {"free", "active", "archived", "deleted"}]
        /\ made' \in [Commands -> SessionIds \cup {NoSession}]
    BY <1>1, <1>2 DEF Inductive, TypeOK
  <2> QED
    BY <1>4, <2>1, <2>2 DEF Inductive, TypeOK
<1>6. Alike'
  BY HandledAlike DEF Inductive
\* The new session is nobody's.
<1>7. \A u \in Commands : Begun(u) /\ Kind[u] # "create" =>
        result[Of[u]] # s /\ sessions'[result[Of[u]]] = sessions[result[Of[u]]]
  BY <1>2, SessionOf DEF Inductive, TypeOK
<1>8. \A u \in Commands : made[u] # s
  BY <1>2, NamesAssumption DEF Inductive, Own
<1>9. \A u \in Commands : made'[u] = IF u = c THEN s ELSE made[u]
  BY <1>2 DEF Inductive, TypeOK
<1>10. Counted'
  <2>1. \A u \in Commands : applied'[u] = IF u = c THEN 1 ELSE applied[u]
    BY <1>1, <1>3 DEF Inductive, TypeOK
  <2> QED
    BY <1>1, <1>3, <1>7, <2>1 DEF Inductive, Counted, Begun
<1>11. Own'
  <2>1. \A u \in Commands : made'[u] # NoSession <=> (u \in done' /\ Kind[u] = "create")
    BY <1>1, <1>3, <1>9, NamesAssumption DEF Inductive, Own
  <2>2. \A u \in Commands : made'[u] # NoSession => sessions'[made'[u]] # "free"
    BY <1>2, <1>9 DEF Inductive, Own, TypeOK
  <2>3. \A u, v \in Commands : u # v /\ made'[u] # NoSession => made'[u] # made'[v]
    BY <1>8, <1>9 DEF Inductive, Own
  <2> QED
    BY <2>1, <2>2, <2>3 DEF Own
<1>12. Told'
  <2>1. \A u \in Commands : u \in done /\ Kind[u] = "create" => made'[u] = made[u]
    BY <1>1, <1>9
  <2>2. \A u \in Commands : reply'[u] # reply[u] => u \in done' /\ reply'[u].session = made'[u]
    BY <1>3, <1>4, <1>9
  <2> QED
    BY <1>3, <2>1, <2>2 DEF Inductive, Told
<1>13. Obeyed'
  BY <1>1, <1>3, <1>7 DEF Inductive, Obeyed, TypeOK, CameLast, Begun, Goal
<1> QED
  BY <1>5, <1>6, <1>10, <1>11, <1>12, <1>13 DEF Inductive

\* A copy of a command that came before the last word is a replay, not a change.
LEMMA EarlierDone ==
  ASSUME Inductive, NEW u \in done, CameLast(u), NEW c \in Commands \ {u, Of[u]},
         Begun(c), Of[c] = Of[u]
  PROVE  c \in done /\ Kind[c] # "delete"
<1>1. Kind[c] # "delete" /\ c \in before[u]
  BY DEF CameLast, Begun
<1>2. u \in Commands /\ phase[c] = "succeeded"
  BY <1>1 DEF Inductive, TypeOK, Obeyed
<1> QED
  BY <1>1, <1>2 DEF Inductive, Told

LEMMA TransitionStep ==
  ASSUME Inductive, NEW r \in wire, wire' = wire \ {r}, UNCHANGED <<phase, result, before>>,
         HandlesTransition(r)
  PROVE  Inductive'
<1> DEFINE c == r.command
           s == result[Of[c]]
<1>1. /\ c \in Commands /\ Begun(c) /\ Kind[c] \in {"archive", "restore"}
      /\ r.key = c /\ r.session = s /\ c \notin done /\ applied[c] = 0
  BY KeyOf DEF HandlesTransition, Inductive, Counted
<1>2. s \in SessionIds /\ sessions[s] \notin {"free", "deleted"}
  BY <1>1, SessionOf DEF HandlesTransition, From
<1>3. /\ sessions' = [sessions EXCEPT ![s] = Goal(c)]
      /\ Goal(c) \in {"active", "archived"}
      /\ Answer(r, Reply(200, "good"), NoSession)
      /\ UNCHANGED made
  BY <1>1 DEF HandlesTransition, Goal
<1>4. done' = done \cup {c} /\ applied' = [applied EXCEPT ![c] = @ + 1]
  BY <1>1, NamesAssumption DEF HandlesTransition, CarriedOut
<1>5. /\ reply' \in [Commands -> [answer : Exchange, session : SessionIds \cup {NoSession}]]
      /\ \A u \in Commands : reply'[u] # reply[u] => u = c
  <2> DEFINE answer == [answer |-> Reply(200, "good"), session |-> NoSession]
  <2>1. /\ reply' \in [Commands -> [answer : Exchange, session : SessionIds \cup {NoSession}]]
        /\ \A u \in Commands : reply'[u] # reply[u] => u = r.command /\ reply'[u] = answer
    <3>1. 200 \in {200, 204, 404, 409} /\ "good" \in {"good", "none"}
      OBVIOUS
    <3>2. NoSession \in SessionIds \cup {NoSession} /\ TypeOK
      BY DEF Inductive
    <3> QED
      BY <1>3, <3>1, <3>2, AnswerTyped
  <2> QED
    BY <2>1
<1> HIDE DEF c, s
<1>6. TypeOK'
  <2>1. applied' \in [Commands -> Nat] /\ done' \subseteq Commands
    BY <1>1, <1>4 DEF Inductive, TypeOK
  <2>2. sessions' \in [SessionIds -> {"free", "active", "archived", "deleted"}]
    BY <1>2, <1>3 DEF Inductive, TypeOK
  <2> QED
    BY <1>3, <1>5, <2>1, <2>2 DEF Inductive, TypeOK
<1>7. Alike'
  BY HandledAlike DEF Inductive
<1>8. \A t \in SessionIds : sessions'[t] = IF t = s THEN Goal(c) ELSE sessions[t]
  BY <1>2, <1>3 DEF Inductive, TypeOK
<1>9. Counted'
  <2>1. \A u \in Commands : applied'[u] = IF u = c THEN 1 ELSE applied[u]
    BY <1>1, <1>4 DEF Inductive, TypeOK
  <2>2. \A u \in Commands : Begun(u) /\ Kind[u] = "delete" /\ sessions[result[Of[u]]] = "deleted"
          => sessions'[result[Of[u]]] = "deleted"
    BY <1>2, <1>8, SessionOf
  <2> QED
    BY <1>1, <1>4, <2>1, <2>2 DEF Inductive, Counted, Begun
<1>10. Own'
  BY <1>1, <1>2, <1>3, <1>4, <1>8 DEF Inductive, Own, TypeOK
<1>11. Told'
  BY <1>1, <1>3, <1>4, <1>5 DEF Inductive, Told
<1>12. Obeyed'
  <2>1. ASSUME NEW u \in done, Kind[u] \in {"archive", "restore"}, CameLast(u)
        PROVE  sessions'[result[Of[u]]] = Goal(u)
    <3>1. u \in Commands /\ Begun(u) /\ sessions[result[Of[u]]] = Goal(u)
      BY <2>1 DEF Inductive, TypeOK, Obeyed
    <3>2. result[Of[u]] # s
      <4>1. SUFFICES ASSUME result[Of[u]] = s PROVE FALSE
        OBVIOUS
      <4>2. Of[c] = Of[u]
        BY <1>1, <2>1, <3>1, <4>1, SessionOf DEF s
      <4>3. c # u /\ c # Of[u]
        BY <1>1, <3>1, OfAssumption
      <4> QED
        BY <1>1, <2>1, <4>2, <4>3, EarlierDone
    <3> QED
      BY <1>8, <2>1, <3>1, <3>2, SessionOf
  <2>2. sessions'[result[Of[c]]] = Goal(c)
    BY <1>2, <1>8 DEF s
  <2>3. \A u \in Commands : CameLast(u)' <=> CameLast(u)
    BY DEF CameLast
  <2> QED
    BY <1>1, <1>4, <2>1, <2>2, <2>3 DEF Inductive, Obeyed, TypeOK, Begun, Goal
<1> QED
  BY <1>6, <1>7, <1>9, <1>10, <1>11, <1>12 DEF Inductive

LEMMA DeleteStep ==
  ASSUME Inductive, NEW r \in wire, wire' = wire \ {r}, UNCHANGED <<phase, result, before>>,
         HandlesDelete(r)
  PROVE  Inductive'
<1> DEFINE c == r.command
           s == result[Of[c]]
<1>1. c \in Commands /\ Begun(c) /\ Kind[c] = "delete" /\ r.key = NoKey /\ r.session = s
  BY KeyOf DEF HandlesDelete
<1>2. s \in SessionIds /\ sessions[s] # "deleted"
  BY <1>1, SessionOf DEF HandlesDelete
<1>3. /\ sessions' = [sessions EXCEPT ![s] = "deleted"]
      /\ Answer(r, Reply(204, "none"), NoSession)
      /\ UNCHANGED made
  BY <1>1 DEF HandlesDelete
<1>4. done' = done /\ applied' = [applied EXCEPT ![c] = @ + 1]
  BY <1>1 DEF HandlesDelete, CarriedOut
<1>5. /\ reply' \in [Commands -> [answer : Exchange, session : SessionIds \cup {NoSession}]]
      /\ \A u \in Commands : reply'[u] # reply[u] => u = c
  <2> DEFINE answer == [answer |-> Reply(204, "none"), session |-> NoSession]
  <2>1. /\ reply' \in [Commands -> [answer : Exchange, session : SessionIds \cup {NoSession}]]
        /\ \A u \in Commands : reply'[u] # reply[u] => u = r.command /\ reply'[u] = answer
    <3>1. 204 \in {200, 204, 404, 409} /\ "none" \in {"good", "none"}
      OBVIOUS
    <3>2. NoSession \in SessionIds \cup {NoSession} /\ TypeOK
      BY DEF Inductive
    <3> QED
      BY <1>3, <3>1, <3>2, AnswerTyped
  <2> QED
    BY <2>1
<1>6. applied[c] = 0
  BY <1>1, <1>2 DEF Inductive, Counted
<1> HIDE DEF c, s
<1>7. TypeOK'
  <2>1. applied' \in [Commands -> Nat] /\ done' \subseteq Commands
    BY <1>1, <1>4 DEF Inductive, TypeOK
  <2>2. sessions' \in [SessionIds -> {"free", "active", "archived", "deleted"}]
    BY <1>2, <1>3 DEF Inductive, TypeOK
  <2> QED
    BY <1>3, <1>5, <2>1, <2>2 DEF Inductive, TypeOK
<1>8. Alike'
  BY HandledAlike DEF Inductive
<1>9. \A t \in SessionIds : sessions'[t] = IF t = s THEN "deleted" ELSE sessions[t]
  BY <1>2, <1>3 DEF Inductive, TypeOK
<1>10. Counted'
  <2>1. \A u \in Commands : applied'[u] = IF u = c THEN 1 ELSE applied[u]
    BY <1>1, <1>4, <1>6 DEF Inductive, TypeOK
  <2>2. \A u \in Commands : Begun(u) /\ Kind[u] = "delete" /\ sessions[result[Of[u]]] = "deleted"
          => sessions'[result[Of[u]]] = "deleted"
    BY <1>9, SessionOf
  <2>3. sessions'[result[Of[c]]] = "deleted"
    BY <1>2, <1>9 DEF s
  <2> QED
    BY <1>1, <1>4, <2>1, <2>2, <2>3 DEF Inductive, Counted, Begun
<1>11. Own'
  BY <1>3, <1>4, <1>9 DEF Inductive, Own, TypeOK
<1>12. Told'
  BY <1>1, <1>3, <1>4, <1>5 DEF Inductive, Told
<1>13. Obeyed'
  <2>1. ASSUME NEW u \in done, Kind[u] \in {"archive", "restore"}, CameLast(u)
        PROVE  sessions'[result[Of[u]]] = Goal(u)
    <3>1. u \in Commands /\ Begun(u) /\ sessions[result[Of[u]]] = Goal(u)
      BY <2>1 DEF Inductive, TypeOK, Obeyed
    <3>2. result[Of[u]] # s
      <4>1. SUFFICES ASSUME result[Of[u]] = s PROVE FALSE
        OBVIOUS
      <4>2. Of[c] = Of[u]
        BY <1>1, <2>1, <3>1, <4>1, SessionOf DEF s
      <4>3. c # u /\ c # Of[u]
        BY <1>1, <2>1, <3>1, OfAssumption
      <4> QED
        BY <1>1, <2>1, <4>2, <4>3, EarlierDone
    <3> QED
      BY <1>9, <2>1, <3>1, <3>2, SessionOf
  <2>2. \A u \in Commands : CameLast(u)' <=> CameLast(u)
    BY DEF CameLast
  <2> QED
    BY <1>4, <2>1, <2>2 DEF Inductive, Obeyed, TypeOK, Begun, Goal
<1> QED
  BY <1>7, <1>8, <1>10, <1>11, <1>12, <1>13 DEF Inductive

-----------------------------------------------------------------------------
LEMMA InductiveStep == Inductive /\ [Next]_vars => Inductive'
<1> SUFFICES ASSUME Inductive, [Next]_vars PROVE Inductive'
  OBVIOUS
<1>1. ASSUME NEW c \in Commands, Dispatch(c) PROVE Inductive'
  BY <1>1, SendsStep DEF Dispatch
<1>2. ASSUME NEW c \in Commands, Receives(c) PROVE Inductive'
  <2>1. reply[c].answer \in Exchange /\ reply[c].session \in SessionIds \cup {NoSession}
    BY DEF Inductive, TypeOK
  <2>2. DoErr(reply[c].answer).nil /\ Kind[c] # "delete" =>
          c \in done /\ (Kind[c] = "create" => reply[c].session = made[c])
    BY DEF Inductive, Told
  <2> QED
    BY <1>2, <2>1, <2>2, EndsStep DEF Receives
<1>3. ASSUME NEW c \in Commands, AnsweredForCloud(c) PROVE Inductive'
  <2>1. PICK x \in Answers : Ends(c, x, NoSession)
    BY <1>3 DEF AnsweredForCloud
  <2>2. x \in Exchange /\ ~DoErr(x).nil
    BY NotForCloud, AnswersAssumption
  <2> QED
    BY <1>3, <2>1, <2>2, EndsStep DEF AnsweredForCloud
<1>4. ASSUME NEW c \in Commands, FollowedAsRead(c) PROVE Inductive'
  BY <1>4, NotForCloud, EndsStep DEF FollowedAsRead
<1>5. ASSUME NEW c \in Commands, SentAgain(c) PROVE Inductive'
  <2>1. HasSession(c)
    BY <1>5 DEF SentAgain, Inductive, Alike
  <2> QED
    BY <1>5, <2>1, SendsStep DEF SentAgain
<1>6. ASSUME NEW r \in wire, Handles(r) PROVE Inductive'
  BY <1>6, ReplayStep, CreateStep, TransitionStep, DeleteStep, RefuseStep DEF Handles
<1>7. ASSUME UNCHANGED vars PROVE Inductive'
  <2> USE <1>7 DEF vars, cloudVars
  <2>1. TypeOK'
    BY DEF Inductive, TypeOK
  <2>2. Alike'
    BY HandledAlike DEF Inductive
  <2>3. Counted' /\ Own' /\ Told'
    BY DEF Inductive, Counted, Own, Told, Begun
  <2>4. Obeyed'
    BY DEF Inductive, Obeyed, CameLast, Begun, Goal
  <2> QED
    BY <2>1, <2>2, <2>3, <2>4 DEF Inductive
<1> QED
  BY <1>1, <1>2, <1>3, <1>4, <1>5, <1>6, <1>7 DEF Next

LEMMA InductiveInvariant == Spec => []Inductive
  BY InductiveInit, InductiveStep, PTL DEF Spec

(***************************************************************************)
(* The state of the session methods, of the network and of the cloud.      *)
(***************************************************************************)
THEOREM SessionTyped == Spec => []TypeOK
<1>1. Inductive => TypeOK
  BY DEF Inductive
<1> QED
  BY <1>1, InductiveInvariant, PTL

(***************************************************************************)
(* Whatever is repeated, redirected or late, no command is carried out     *)
(* twice.                                                                  *)
(***************************************************************************)
THEOREM CarriedOutOnce == Spec => []AppliedOnce
<1>1. Inductive => AppliedOnce
  BY KindAssumption DEF Inductive, Counted, AppliedOnce
<1> QED
  BY <1>1, InductiveInvariant, PTL

(***************************************************************************)
(* A nil error of a create, an archive or a restore is the truth, and the  *)
(* session it names is the one that was made for it.                       *)
(***************************************************************************)
THEOREM AcknowledgementsTrue == Spec => []AcknowledgedIsTrue
<1>1. Inductive => AcknowledgedIsTrue
  <2> SUFFICES ASSUME Inductive, NEW c \in Commands, phase[c] = "succeeded", Kind[c] # "delete"
               PROVE  /\ applied[c] = 1
                      /\ Kind[c] = "create" =>
                           /\ result[c] \in SessionIds /\ result[c] = made[c]
                           /\ \A d \in Commands \ {c} : made[d] # result[c]
    BY DEF AcknowledgedIsTrue
  <2>1. c \in done /\ applied[c] = 1
    BY DEF Inductive, Told, Counted
  <2>2. ASSUME Kind[c] = "create"
        PROVE  /\ result[c] = made[c] /\ made[c] \in SessionIds
               /\ \A d \in Commands \ {c} : made[d] # made[c]
    BY <2>1, <2>2 DEF Inductive, Told, Own, TypeOK
  <2> QED
    BY <2>1, <2>2
<1> QED
  BY <1>1, InductiveInvariant, PTL

(***************************************************************************)
(* An archive or a restore begun after everything else on its session had  *)
(* succeeded is not undone by a copy of what came before it.               *)
(***************************************************************************)
THEOREM LastWordKept == Spec => []LastWordStands
<1>1. Inductive => LastWordStands
  BY DEF Inductive, Told, Obeyed, LastWordStands
<1> QED
  BY <1>1, InductiveInvariant, PTL

-----------------------------------------------------------------------------
(* What DeleteSession would need to be true. *)

\* Nothing on the way answers with a 2xx, or with a redirect that turns into a GET.
OnlyCloudSucceeds == \A x \in Answers : ~Success(x) /\ ~RedirectedAsRead(x)

\* A delete that has succeeded, or is about to, has deleted its session.
Gone(c) ==
  Kind[c] = "delete" /\ (phase[c] = "succeeded" \/ Success(reply[c].answer)) =>
    Begun(c) /\ sessions[result[Of[c]]] = "deleted"

LEMMA SuccessOf ==
  ASSUME NEW c, NEW x
  PROVE  CommandErr(c, x).nil => Success(x)
  BY DEF CommandErr, DoErr, TransportError, StatusError, Malformed, NoError, Success

\* The session of a command that was begun is the same ever after, and a
\* session that is deleted stays deleted.
LEMMA DeletedStays ==
  ASSUME Inductive, [Next]_vars
  PROVE  \A c \in Commands : Begun(c) /\ Kind[c] # "create" =>
           /\ Begun(c)' /\ result'[Of[c]] = result[Of[c]]
           /\ sessions[result[Of[c]]] = "deleted" => sessions'[result[Of[c]]] = "deleted"
<1> SUFFICES ASSUME NEW c \in Commands, Begun(c), Kind[c] # "create"
             PROVE  /\ Begun(c)' /\ result'[Of[c]] = result[Of[c]]
                    /\ sessions[result[Of[c]]] = "deleted" => sessions'[result[Of[c]]] = "deleted"
  OBVIOUS
<1> USE DEF cloudVars
<1>1. Of[c] \in Commands /\ result[Of[c]] \in SessionIds
  BY SessionOf, OfAssumption
<1>2. ASSUME NEW u \in Commands, NEW x, NEW s, phase[u] = "waiting", Ends(u, x, s)
      PROVE  result'[Of[c]] = result[Of[c]]
  <2>1. result[u] = NoSession
    BY <1>2 DEF Inductive, Told
  <2> QED
    BY <1>1, <1>2, <2>1, NamesAssumption DEF Ends, Inductive, TypeOK
<1>3. ASSUME NEW u \in Commands,
             \/ Dispatch(u) \/ Receives(u) \/ AnsweredForCloud(u) \/ FollowedAsRead(u) \/ SentAgain(u)
      PROVE  Begun(c)' /\ result'[Of[c]] = result[Of[c]] /\ sessions' = sessions
  <2>1. CASE Dispatch(u)
    BY <2>1 DEF Dispatch, Begun, Inductive, TypeOK
  <2>2. CASE SentAgain(u)
    BY <2>2 DEF SentAgain, Begun
  <2>3. CASE Receives(u) \/ AnsweredForCloud(u) \/ FollowedAsRead(u)
    BY <1>2, <2>3 DEF Receives, AnsweredForCloud, FollowedAsRead, Begun
  <2> QED
    BY <1>3, <2>1, <2>2, <2>3
<1>4. ASSUME NEW r \in wire, Handles(r)
      PROVE  /\ Begun(c)' /\ result'[Of[c]] = result[Of[c]]
             /\ \A s \in SessionIds : sessions[s] = "deleted" => sessions'[s] = "deleted"
  <2>1. Begun(c)' /\ result'[Of[c]] = result[Of[c]]
    BY <1>4 DEF Handles, Begun
  <2>2. \/ UNCHANGED sessions
        \/ \E s \in SessionIds : sessions[s] = "free" /\ sessions' = [sessions EXCEPT ![s] = "active"]
        \/ /\ sessions[r.session] = From(r.command)
           /\ sessions' = [sessions EXCEPT ![r.session] = Goal(r.command)]
        \/ sessions' = [sessions EXCEPT ![r.session] = "deleted"]
    BY <1>4 DEF Handles, Replays, HandlesCreate, HandlesTransition, HandlesDelete, Refuses
  <2> QED
    BY <2>1, <2>2 DEF Inductive, TypeOK, From
<1> QED
  BY <1>1, <1>3, <1>4 DEF Next, vars, Begun

LEMMA GoneStep ==
  ASSUME OnlyCloudSucceeds, Inductive, \A c \in Commands : Gone(c), [Next]_vars
  PROVE  \A c \in Commands : Gone(c)'
<1> SUFFICES ASSUME NEW c \in Commands, Kind[c] = "delete",
                    phase'[c] = "succeeded" \/ Success(reply'[c].answer)
             PROVE  Begun(c) /\ sessions'[result[Of[c]]] = "deleted"
  BY DeletedStays DEF Gone, Begun
<1> USE DEF cloudVars
<1>1. ASSUME phase[c] = "succeeded" \/ Success(reply[c].answer)
      PROVE  Begun(c) /\ sessions'[result[Of[c]]] = "deleted"
  BY <1>1, DeletedStays DEF Gone
<1>2. ~Success(NoReplyYet.answer)
  BY DEF NoReplyYet, NoReply, Success
<1>3. ASSUME NEW u \in Commands, NEW x, NEW s, phase[u] = "waiting", Ends(u, x, s),
             Success(x) => x = reply[u].answer
      PROVE  phase[c] = "succeeded" \/ Success(reply[c].answer)
  <2>1. CASE u # c
    BY <1>3, <2>1 DEF Ends, Inductive, TypeOK
  <2>2. CASE u = c
    <3>1. reply'[c] = NoReplyYet /\ phase'[c] = IF CommandErr(c, x).nil THEN "succeeded" ELSE "idle"
      BY <1>3, <2>2 DEF Ends, Inductive, TypeOK
    <3> QED
      BY <1>2, <1>3, <2>2, <3>1, SuccessOf
  <2> QED
    BY <2>1, <2>2
<1>4. ASSUME NEW u \in Commands,
             \/ Dispatch(u) \/ Receives(u) \/ AnsweredForCloud(u) \/ FollowedAsRead(u) \/ SentAgain(u)
      PROVE  phase[c] = "succeeded" \/ Success(reply[c].answer)
  <2>1. CASE Dispatch(u) \/ SentAgain(u)
    BY <2>1 DEF Dispatch, SentAgain, Inductive, TypeOK
  <2>2. CASE Receives(u)
    BY <1>3, <2>2 DEF Receives
  <2>3. CASE AnsweredForCloud(u)
    BY <1>3, <2>3 DEF AnsweredForCloud, OnlyCloudSucceeds
  <2>4. ~FollowedAsRead(u)
    BY DEF FollowedAsRead, OnlyCloudSucceeds
  <2> QED
    BY <1>4, <2>1, <2>2, <2>3, <2>4
<1>5. ASSUME NEW r \in wire, Handles(r), ~(phase[c] = "succeeded" \/ Success(reply[c].answer))
      PROVE  Begun(c) /\ sessions'[result[Of[c]]] = "deleted"
  <2>1. Success(reply'[c].answer) /\ reply'[c] # reply[c]
    BY <1>5 DEF Handles
  <2>2. ASSUME NEW status \in {200, 204, 404, 409}, NEW body \in {"good", "none"},
               NEW s \in SessionIds \cup {NoSession}, Answer(r, Reply(status, body), s)
        PROVE  c = r.command /\ reply'[c].answer = Reply(status, body)
    <3>1. TypeOK /\ c = r.command /\ reply'[c] = [answer |-> Reply(status, body), session |-> s]
      BY <2>1, <2>2, AnswerTyped DEF Inductive
    <3> QED
      BY <3>1
  <2>3. ~Replays(r)
    <3>1. ASSUME Replays(r) PROVE c = r.command
      <4>1. Answer(r, Reply(200, "good"), made[r.key])
        BY <3>1 DEF Replays
      <4>2. made[r.key] \in SessionIds \cup {NoSession}
        BY <3>1 DEF Replays, Inductive, TypeOK
      <4>3. 200 \in {200, 204, 404, 409} /\ "good" \in {"good", "none"}
        OBVIOUS
      <4> QED
        BY <2>2, <4>1, <4>2, <4>3
    <3> QED
      BY <3>1, KeyOf DEF Replays
  <2>4. ~HandlesCreate(r)
    <3>1. ASSUME HandlesCreate(r) PROVE c = r.command
      <4>1. PICK s \in SessionIds : Answer(r, Reply(200, "good"), s)
        BY <3>1 DEF HandlesCreate
      <4>2. 200 \in {200, 204, 404, 409} /\ "good" \in {"good", "none"}
        OBVIOUS
      <4> QED
        BY <2>2, <4>1, <4>2
    <3> QED
      BY <3>1 DEF HandlesCreate
  <2>5. ~HandlesTransition(r)
    <3>1. ASSUME HandlesTransition(r) PROVE c = r.command
      <4>1. Answer(r, Reply(200, "good"), NoSession)
        BY <3>1 DEF HandlesTransition
      <4>2. /\ 200 \in {200, 204, 404, 409} /\ "good" \in {"good", "none"}
            /\ NoSession \in SessionIds \cup {NoSession}
        OBVIOUS
      <4> QED
        BY <2>2, <4>1, <4>2
    <3> QED
      BY <3>1 DEF HandlesTransition
  <2>6. ~Refuses(r)
    <3>1. ASSUME NEW status \in {404, 409}, Answer(r, Reply(status, "none"), NoSession) PROVE FALSE
      <4>1. /\ status \in {200, 204, 404, 409} /\ "none" \in {"good", "none"}
            /\ NoSession \in SessionIds \cup {NoSession}
        OBVIOUS
      <4>2. reply'[c].answer = Reply(status, "none")
        BY <2>2, <3>1, <4>1
      <4>3. ~Success(Reply(status, "none"))
        BY DEF Success, Reply
      <4> QED
        BY <2>1, <4>2, <4>3
    <3> QED
      BY <3>1 DEF Refuses
  <2>7. CASE HandlesDelete(r)
    <3>1. Answer(r, Reply(204, "none"), NoSession)
      BY <2>7 DEF HandlesDelete
    <3>2. /\ 204 \in {200, 204, 404, 409} /\ "none" \in {"good", "none"}
          /\ NoSession \in SessionIds \cup {NoSession}
      OBVIOUS
    <3>3. c = r.command
      BY <2>2, <3>1, <3>2
    <3>4. Begun(c) /\ r.session = result[Of[c]] /\ result[Of[c]] \in SessionIds
      BY <3>3, KeyOf, SessionOf
    <3> QED
      BY <2>7, <3>4 DEF HandlesDelete, Inductive, TypeOK
  <2> QED
    BY <1>5, <2>3, <2>4, <2>5, <2>6, <2>7 DEF Handles
<1>6. UNCHANGED vars => phase[c] = "succeeded" \/ Success(reply[c].answer)
  BY DEF vars
<1> QED
  BY <1>1, <1>4, <1>5, <1>6 DEF Next

(***************************************************************************)
(* DeleteSession is true where nothing between client and cloud answers    *)
(* with a 2xx or a redirect that becomes a GET: these are all the ways in  *)
(* which it can return nil although its session is not deleted.            *)
(***************************************************************************)
THEOREM DeletionsTrue == ASSUME OnlyCloudSucceeds PROVE Spec => []DeletedIsTrue
<1> DEFINE AllGone == \A c \in Commands : Gone(c)
<1>1. Init => AllGone
  BY DEF Init, Gone, NoReplyYet, NoReply, Success
<1>2. Inductive /\ AllGone /\ [Next]_vars => AllGone'
  BY GoneStep
<1>3. AllGone => DeletedIsTrue
  BY DEF Gone, DeletedIsTrue
<1> QED
  BY <1>1, <1>2, <1>3, InductiveInvariant, PTL DEF Spec

-----------------------------------------------------------------------------
(* The refinement of CommandContract. *)

\* How often a command was carried out, and what its caller may know of it.
LEMMA EffectsOf ==
  Inductive => \A c \in Commands :
    /\ applied[c] \in {0, 1}
    /\ Status(c) = "success" => applied[c] = 1
<1> SUFFICES ASSUME Inductive, NEW c \in Commands
             PROVE  applied[c] \in {0, 1} /\ (Status(c) = "success" => applied[c] = 1)
  OBVIOUS
<1>1. applied[c] \in {0, 1}
  BY DEF Inductive, Counted
<1>2. Status(c) = "success" => phase[c] = "succeeded" /\ Kind[c] # "delete"
  BY DEF Status
<1> QED
  BY <1>1, <1>2 DEF Inductive, Told, Counted

\* A step of the client begins a command, ends it, or is none of the contract's.
LEMMA ClientMoves ==
  ASSUME Inductive, Inductive', NEW c \in Commands, UNCHANGED applied,
         \A u \in Commands \ {c} : phase'[u] = phase[u] /\ before'[u] = before[u],
         phase[c] # "succeeded", Begun(c) => Begun(c)',
         phase'[c] = "succeeded" => Begun(c)
  PROVE  Contract!Next \/ UNCHANGED Contract!vars
<1>1. \A u \in Commands \ {c} : Status(u)' = Status(u)
  BY DEF Status
<1>2. CASE Status(c)' = Status(c)
  BY <1>1, <1>2 DEF Contract!vars
<1>3. CASE Status(c)' # Status(c)
  <2> DEFINE status == [u \in Commands |-> Status(u)]
  <2>1. status' = [status EXCEPT ![c] = Status(c)']
    BY <1>1
  <2>2. Contract!Changes(c)
    BY <1>3 DEF Contract!Changes
  <2>3. \A new : new = Status(c)' => Contract!Becomes(c, new)
    BY <2>1 DEF Contract!Becomes
  <2>4. \/ Status(c) = "new" /\ Status(c)' = "open"
        \/ Status(c) = "open" /\ Status(c)' = "success"
    BY <1>3 DEF Status, Begun
  <2>5. Status(c)' = "success" => applied[c] = 1
    <3>1. phase'[c] = "succeeded" /\ Kind[c] # "delete" => applied'[c] = 1
      BY DEF Inductive, Told, Counted
    <3> QED
      BY <3>1 DEF Status
  <2>6. Contract!Begin(c) \/ Contract!Succeed(c)
    BY <2>3, <2>4, <2>5 DEF Contract!Begin, Contract!Succeed
  <2> QED
    BY <2>2, <2>6 DEF Contract!Next
<1> QED
  BY <1>2, <1>3

LEMMA EndMoves ==
  ASSUME Inductive, Inductive', NEW c \in Commands, NEW x, NEW s, phase[c] = "waiting",
         Ends(c, x, s), UNCHANGED <<applied, before>>
  PROVE  Contract!Next \/ UNCHANGED Contract!vars
<1>1. \A u \in Commands \ {c} : phase'[u] = phase[u]
  BY DEF Ends, Inductive, TypeOK
<1>2. Begun(c) /\ Begun(c)'
  BY DEF Inductive, Alike, Begun
<1> QED
  BY <1>1, <1>2, ClientMoves

\* A request is carried out while its command is open and was not carried out.
LEMMA CloudMoves ==
  ASSUME Inductive, Inductive', NEW r \in wire, Handles(r)
  PROVE  Contract!Next \/ UNCHANGED Contract!vars
<1> DEFINE c == r.command
<1>1. c \in Commands /\ Begun(c)
  BY DEF Inductive, TypeOK, Alike
<1>2. \A u \in Commands : Status(u)' = Status(u)
  BY DEF Handles, Status
<1>3. UNCHANGED applied \/ CarriedOut(r)
  BY DEF Handles, Replays, HandlesCreate, HandlesTransition, HandlesDelete, Refuses, cloudVars
<1>4. CASE UNCHANGED applied
  BY <1>2, <1>4 DEF Contract!vars
<1>5. CASE CarriedOut(r)
  <2>1. applied' = [applied EXCEPT ![c] = applied[c] + 1] /\ applied \in [Commands -> Nat]
    BY <1>5 DEF CarriedOut, Inductive, TypeOK
  <2>2. applied'[c] \in {0, 1}
    BY <1>1 DEF Inductive, Counted
  <2>3. applied[c] = 0 /\ applied' = [applied EXCEPT ![c] = 1]
    <3>1. applied'[c] = applied[c] + 1 /\ applied[c] \in Nat
      BY <1>1, <2>1
    <3>2. applied[c] = 0 /\ applied[c] + 1 = 1
      BY <2>2, <3>1
    <3> QED
      BY <2>1, <3>2
  <2>4. Status(c) = "open"
    BY <1>1, <2>3, EffectsOf DEF Status, Begun
  <2>5. Contract!Changes(c)
    BY <1>1, <2>1, <2>3 DEF Contract!Changes
  <2>6. Contract!Effect(c)
    BY <1>1, <1>2, <2>3, <2>4 DEF Contract!Effect
  <2> QED
    BY <1>1, <2>5, <2>6 DEF Contract!Next
<1> QED
  BY <1>3, <1>4, <1>5

LEMMA ContractStep ==
  ASSUME Inductive, Inductive', [Next]_vars
  PROVE  [Contract!Next]_(Contract!vars)
<1> USE DEF cloudVars
<1>1. CASE UNCHANGED vars
  BY <1>1 DEF vars, Contract!vars, Status
<1>2. ASSUME NEW c \in Commands, Dispatch(c)
      PROVE  Contract!Next \/ UNCHANGED Contract!vars
  <2>1. /\ \A u \in Commands \ {c} : phase'[u] = phase[u] /\ before'[u] = before[u]
        /\ phase[c] # "succeeded" /\ phase'[c] # "succeeded"
        /\ Begun(c) => Begun(c)'
    BY <1>2 DEF Dispatch, Inductive, TypeOK, Begun
  <2> QED
    BY <1>2, <2>1, ClientMoves DEF Dispatch
<1>3. ASSUME NEW c \in Commands, Receives(c) \/ AnsweredForCloud(c) \/ FollowedAsRead(c)
      PROVE  Contract!Next \/ UNCHANGED Contract!vars
  BY <1>3, EndMoves DEF Receives, AnsweredForCloud, FollowedAsRead
<1>4. ASSUME NEW c \in Commands, SentAgain(c)
      PROVE  UNCHANGED Contract!vars
  BY <1>4 DEF SentAgain, Contract!vars, Status
<1> QED
  BY <1>1, <1>2, <1>3, <1>4, CloudMoves DEF Next

(***************************************************************************)
(* The session methods implement CommandContract: whatever is repeated,    *)
(* redirected or late, a command has one effect at most, after it was      *)
(* begun, and for a create, an archive or a restore before its success is  *)
(* reported.                                                               *)
(***************************************************************************)
THEOREM ImplementsContract == Spec => KeepsContract
<1>1. Init => Contract!Init
  BY DEF Init, Contract!Init, Status
<1>2. Inductive /\ Inductive' /\ [Next]_vars => [Contract!Next]_(Contract!vars)
  BY ContractStep
<1> QED
  BY <1>1, <1>2, InductiveInvariant, PTL DEF Spec, KeepsContract, Contract!Spec
=============================================================================
