--------------------------- MODULE MemoryTheorems ---------------------------
(***************************************************************************)
(* What the memory methods promise, for every set of intents, blocks and   *)
(* faults and any number of calls: TypeOK, WrittenOnce, SuccessIsTrue,     *)
(* RejectedNeverApplied and ReplacesWhatWasRead; and that they implement   *)
(* CommandContract.                                                        *)
(*                                                                         *)
(* The inductive invariant says what a request on its way has in common    *)
(* with its caller, that a write which was reported as rejected has none,  *)
(* that an update or a delete comes after calls that changed nothing, that *)
(* a create keeps its key, and that a version of a block names its text.   *)
(***************************************************************************)
EXTENDS Memory, FiniteSetTheorems, TLAPS

\* What a request says is what its caller holds.
Requested ==
  \A r \in wire :
    /\ r.op \in {"list", kind[r.intent]}
    /\ r.call = calls[r.intent] /\ phase[r.intent] = "waiting" => r.op = Op(r.intent)
    /\ r.op = "create" => r.key = key[r.intent]
    /\ r.op \in {"update", "delete"} =>
         /\ observed[r.intent] # NoBlock
         /\ r.id = observed[r.intent].id /\ r.version = observed[r.intent].version

\* A write has one request, until it is carried out or known to be rejected.
Single ==
  /\ \A r \in wire : r.op # "list" =>
       applied[r.intent][r.call] = 0 /\ verdict[r.intent][r.call] \notin {"rejected", "listed"}
  /\ \A r, s \in wire :
       r.op # "list" /\ s.op # "list" /\ r.intent = s.intent /\ r.call = s.call => r = s

\* What was carried out, call by call.
Counted ==
  /\ \A t \in Intents, n \in Calls : applied[t][n] \in {0, 1}
  /\ \A t \in Intents, n \in Calls : n > calls[t] => applied[t][n] = 0 /\ verdict[t][n] = "none"
  /\ \A t \in Intents, n \in Calls : verdict[t][n] \in {"rejected", "listed"} => applied[t][n] = 0
  /\ \A t \in Intents : phase[t] = "waiting" =>
       /\ calls[t] \in Calls /\ verdict[t][calls[t]] = "none"
       /\ ~IsWrite(t) => applied[t][calls[t]] = 0

\* Is call n of t known to have changed nothing?
Past(t, n) ==
  n < calls[t] \/ phase[t] = "idle" \/ (phase[t] = "failed" /\ ~err[t].unknown)

\* An update or a delete is not followed by another call unless it changed nothing.
Alone ==
  \A t \in Intents : kind[t] # "create" =>
    \A n \in 1 .. calls[t] : Past(t, n) => verdict[t][n] \in {"rejected", "listed"}

\* A create keeps its key, which was carried out for one of its calls at most.
Keyed ==
  /\ \A t \in Intents : key[t] # NoKey => key[t][1] = t /\ kind[t] = "create"
  /\ \A k \in created : key[k[1]] = k
  /\ \A t \in Intents : kind[t] = "create" =>
       /\ \A m, n \in Calls : applied[t][m] = 1 /\ applied[t][n] = 1 => m = n
       /\ (\E n \in Calls : applied[t][n] = 1) <=> key[t] \in created

\* An answer on its way is for the present call, and the truth.
Answered ==
  \A t \in Intents : reply[t] # NoReplyYet =>
    /\ phase[t] = "waiting"
    /\ IsWrite(t) =>
         /\ \A r \in wire : ~(r.intent = t /\ r.call = calls[t])
         /\ \/ Accepted(reply[t].answer) /\ \E m \in 1 .. calls[t] : applied[t][m] = 1
            \/ reply[t].answer = Reply(412, "none") /\ applied[t][calls[t]] = 0

\* b is a block as it is, or as it was at an earlier version.
Seen(b) ==
  b # NoBlock =>
    /\ blocks[b.id] # Free
    /\ b.version <= blocks[b.id].version
    /\ b.version = blocks[b.id].version => b.text = blocks[b.id].text

Listed == \A t \in Intents : Seen(observed[t]) /\ Seen(reply[t].block)

Inductive ==
  /\ TypeOK /\ Requested /\ Single /\ Counted /\ Alone /\ Keyed /\ Answered /\ Listed
  /\ SuccessIsTrue

-----------------------------------------------------------------------------
LEMMA NoReplyIsNone == NoReplyYet \in [answer : Exchange, block : Blocks \cup {NoBlock}]
  BY DEF NoReplyYet, NoReply, Exchange, Causes, Bodies

LEMMA NoKeyIsNone == \A k \in Keys : k # NoKey /\ k[1] \in Intents /\ k[2] \in Calls
  BY DEF Keys, NoKey

LEMMA KindOf ==
  ASSUME TypeOK, NEW t \in Intents
  PROVE  /\ kind[t] \in {"create", "update", "delete"}
         /\ Op(t) = IF kind[t] # "create" /\ observed[t] = NoBlock THEN "list" ELSE kind[t]
         /\ IsWrite(t) <=> kind[t] = "create" \/ observed[t] # NoBlock
  BY KindsAssumption DEF TypeOK, Op, IsWrite

LEMMA NoErrorTyped == NoError \in Errors /\ NoError.nil /\ ~NoError.unknown
  BY DEF NoError, Errors

LEMMA ErrorTyped ==
  ASSUME NEW d \in Errors, NEW status \in 0 .. 599, NEW b \in BOOLEAN
  PROVE  /\ [d EXCEPT !.nil = FALSE, !.status = status] \in Errors
         /\ [d EXCEPT !.nil = FALSE, !.malformed = TRUE] \in Errors
         /\ [d EXCEPT !.nil = FALSE, !.ctx = TRUE] \in Errors
         /\ [d EXCEPT !.nil = FALSE, !.net = TRUE, !.ctx = b] \in Errors
<1>1. [d EXCEPT !.nil = FALSE, !.status = status] \in Errors
  BY ZenonT(60) DEF Errors
<1>2. [d EXCEPT !.nil = FALSE, !.malformed = TRUE] \in Errors
  BY ZenonT(60) DEF Errors
<1>3. [d EXCEPT !.nil = FALSE, !.ctx = TRUE] \in Errors
  BY ZenonT(60) DEF Errors
<1>4. [d EXCEPT !.nil = FALSE, !.net = TRUE, !.ctx = b] \in Errors
  BY ZenonT(60) DEF Errors
<1> QED
  BY <1>1, <1>2, <1>3, <1>4

LEMMA DoErrTyped ==
  ASSUME NEW x \in Exchange
  PROVE  DoErr(x) \in Errors
<1>1. TransportError(x.why) \in Errors
  <2> DEFINE b == x.why \in {"deadline", "canceled"}
  <2>1. b \in BOOLEAN
    OBVIOUS
  <2>2. TransportError(x.why) = [NoError EXCEPT !.nil = FALSE, !.net = TRUE, !.ctx = b]
    BY DEF TransportError
  <2>3. 0 \in 0 .. 599
    OBVIOUS
  <2> HIDE DEF b
  <2>4. \A d \in Errors : [d EXCEPT !.nil = FALSE, !.net = TRUE, !.ctx = b] \in Errors
    BY <2>1, <2>3, ErrorTyped, ZenonT(60)
  <2>5. [NoError EXCEPT !.nil = FALSE, !.net = TRUE, !.ctx = b] \in Errors
    BY <2>4, NoErrorTyped
  <2> QED
    BY <2>2, <2>5
<1>2. StatusError(x.status) \in Errors
  BY NoErrorTyped, ErrorTyped DEF StatusError, Exchange
<1>3. Malformed \in Errors
  <2>1. 0 \in 0 .. 599 /\ TRUE \in BOOLEAN
    OBVIOUS
  <2>2. \A d \in Errors : [d EXCEPT !.nil = FALSE, !.malformed = TRUE] \in Errors
    BY <2>1, ErrorTyped
  <2> QED
    BY <2>2, NoErrorTyped DEF Malformed
<1>4. CASE ~x.reply
  BY <1>1, <1>4 DEF DoErr, Success
<1>5. CASE x.reply /\ ~Success(x)
  BY <1>2, <1>5 DEF DoErr
<1>6. CASE Success(x) /\ x.body = "good"
  BY <1>6, NoErrorTyped DEF DoErr, Success
<1>7. CASE Success(x) /\ x.body # "good"
  BY <1>3, <1>7 DEF DoErr, Success
<1> QED
  BY <1>4, <1>5, <1>6, <1>7

\* What a caller learns from an exchange.
LEMMA ErrorOf ==
  ASSUME NEW x \in Exchange, NEW write \in BOOLEAN
  PROVE  /\ MemoryErr(write, x) \in Errors
         /\ MemoryErr(write, x).nil <=> Accepted(x)
         /\ MemoryErr(write, x).unknown <=> ~Accepted(x) /\ write /\ MayHaveApplied(x)
<1>1. CASE Accepted(x)
  BY <1>1, NoErrorTyped DEF MemoryErr
<1>2. CASE ~Accepted(x)
  <2> DEFINE b == write /\ MayHaveApplied(x)
             d == DoErr(x)
             e == MemoryErr(write, x)
             status == x.status
  <2>1. b \in BOOLEAN /\ (b <=> (write /\ MayHaveApplied(x)))
    OBVIOUS
  <2>2. e = [d EXCEPT !.unknown = b, !.status = status]
    BY <1>2 DEF MemoryErr
  <2>3. ~d.nil
    BY <1>2 DEF Accepted, DoErr, TransportError, StatusError, Malformed, NoError
  <2>4. d \in Errors /\ status \in 0 .. 599
    BY DoErrTyped DEF Exchange
  <2> HIDE DEF b, d, e, status
  <2>5. e \in Errors /\ e.nil = d.nil /\ e.unknown = b
    BY <2>1, <2>2, <2>4, ZenonT(60) DEF Errors
  <2>6. e \in Errors /\ ~e.nil /\ (e.unknown <=> write /\ MayHaveApplied(x))
    BY <2>1, <2>3, <2>5
  <2> QED
    BY <1>2, <2>6 DEF e
<1> QED
  BY <1>1, <1>2

LEMMA InductiveInit == Init => Inductive
<1> SUFFICES ASSUME Init PROVE Inductive
  OBVIOUS
<1>1. TypeOK
  <2>1. 1 \in Nat \ {0} /\ 0 \in 0 .. MaxCalls
    BY MaxCallsAssumption
  <2>2. /\ reply \in [Intents -> [answer : Exchange, block : Blocks \cup {NoBlock}]]
        /\ err \in [Intents -> Errors]
    BY NoReplyIsNone, NoErrorTyped DEF Init
  <2>3. blocks \in [BlockIds -> {Free} \cup Stored]
    <3>1. \A x \in OldTexts : [state |-> "live", version |-> 1, text |-> x] \in Stored
      BY <2>1 DEF Texts, Stored
    <3> QED
      BY <3>1 DEF Init
  <2>4. verdict \in [Intents -> [Calls -> {"none", "listed", "success", "rejected", "unknown"}]]
    BY DEF Init
  <2>5. applied \in [Intents -> [Calls -> Nat]]
    BY DEF Init
  <2> QED
    BY <2>1, <2>2, <2>3, <2>4, <2>5 DEF Init, TypeOK
<1>2. Requested /\ Single
  BY DEF Init, Requested, Single
<1>3. Counted
  BY DEF Init, Counted
<1>4. Alone
  BY DEF Init, Alone
<1>5. Keyed
  BY DEF Init, Keyed
<1>6. Answered
  BY DEF Init, Answered
<1>7. Listed
  BY DEF Init, Listed, Seen, NoReplyYet
<1>8. SuccessIsTrue
  BY DEF Init, SuccessIsTrue
<1> QED
  BY <1>1, <1>2, <1>3, <1>4, <1>5, <1>6, <1>7, <1>8 DEF Inductive

-----------------------------------------------------------------------------
(* The application and the end of a call. *)

\* A write has requests of its own kind only, and a reading none of a write.
LEMMA RequestsOf ==
  ASSUME Inductive, NEW r \in wire
  PROVE  /\ r.intent \in Intents /\ r.call \in Calls /\ r.call <= calls[r.intent]
         /\ r.op \in {"list", "create", "update", "delete"}
         /\ phase[r.intent] = "waiting" /\ r.call = calls[r.intent] =>
              (r.op # "list" <=> IsWrite(r.intent))
<1>1. r.intent \in Intents /\ r.call \in 1 .. calls[r.intent]
  BY DEF Inductive, TypeOK
<1>2. calls[r.intent] \in 0 .. MaxCalls
  BY <1>1 DEF Inductive, TypeOK
<1>3. r.op \in {"list", kind[r.intent]}
  BY DEF Inductive, Requested
<1>4. phase[r.intent] = "waiting" /\ r.call = calls[r.intent] => r.op = Op(r.intent)
  BY DEF Inductive, Requested
<1> QED
  BY <1>1, <1>2, <1>3, <1>4, KindOf, MaxCallsAssumption DEF Inductive, Calls, IsWrite

\* Waiting for a new decision, giving up, or making the same call again.
LEMMA DecidesStep ==
  ASSUME Inductive, NEW t \in Intents, NEW p \in {"idle", "over"},
         phase[t] \in {"idle", "failed"}, phase' = [phase EXCEPT ![t] = p],
         p = "idle" => phase[t] = "idle" \/ ~err[t].unknown \/ kind[t] = "create",
         err' \in [Intents -> Errors], \A u \in Intents : u # t => err'[u] = err[u],
         UNCHANGED <<kind, cloudVars, wire, reply, calls, observed, key, verdict>>
  PROVE  Inductive'
<1> USE DEF cloudVars
<1>1. TypeOK'
  BY DEF Inductive, TypeOK
<1>2. \A u \in Intents : phase'[u] = "waiting" <=> phase[u] = "waiting"
  BY DEF Inductive, TypeOK
<1>3. \A u \in Intents : Op(u)' = Op(u) /\ (IsWrite(u)' <=> IsWrite(u))
  BY DEF Op, IsWrite
<1>4. Requested'
  BY <1>2, <1>3, RequestsOf DEF Inductive, Requested
<1>5. Single' /\ SuccessIsTrue' /\ Keyed'
  BY DEF Inductive, Single, SuccessIsTrue, Keyed
<1>6. Counted'
  BY <1>2, <1>3 DEF Inductive, Counted
<1>7. Alone'
  <2> SUFFICES ASSUME NEW u \in Intents, kind[u] # "create", NEW n \in 1 .. calls[u], Past(u, n)'
               PROVE  Past(u, n)
    BY DEF Inductive, Alone
  <2>1. CASE u # t
    BY <2>1 DEF Past, Inductive, TypeOK
  <2>2. CASE u = t
    BY <2>2 DEF Past, Inductive, TypeOK
  <2> QED
    BY <2>1, <2>2
<1>8. Answered'
  BY <1>2, <1>3 DEF Inductive, Answered
<1>9. Listed'
  BY DEF Inductive, Listed, Seen
<1> QED
  BY <1>1, <1>4, <1>5, <1>6, <1>7, <1>8, <1>9 DEF Inductive

LEMMA EndsStep ==
  ASSUME Inductive, NEW t \in Intents, NEW x \in Exchange, NEW b \in Blocks \cup {NoBlock},
         phase[t] = "waiting", Seen(b), Ends(t, x, b), wire' \subseteq wire,
         UNCHANGED <<kind, cloudVars, calls>>,
         IsWrite(t) /\ Accepted(x) => \E m \in 1 .. calls[t] : applied[t][m] = 1,
         IsWrite(t) /\ ~Accepted(x) /\ ~MayHaveApplied(x) =>
           /\ applied[t][calls[t]] = 0
           /\ \A r \in wire' : ~(r.intent = t /\ r.call = calls[t])
  PROVE  Inductive'
<1> USE DEF cloudVars
<1> DEFINE e == MemoryErr(IsWrite(t), x)
           now == calls[t]
           listed == e.nil /\ ~IsWrite(t)
           v == IF listed THEN "listed" ELSE IF e.nil THEN "success"
                ELSE IF e.unknown THEN "unknown" ELSE "rejected"
           p == IF ~e.nil THEN "failed" ELSE IF listed /\ b # NoBlock THEN "idle" ELSE "over"
<1>1. /\ e \in Errors
      /\ e.nil <=> Accepted(x)
      /\ e.unknown <=> ~Accepted(x) /\ IsWrite(t) /\ MayHaveApplied(x)
  <2>1. IsWrite(t) \in BOOLEAN
    BY DEF IsWrite
  <2> QED
    BY <2>1, ErrorOf
<1>2. /\ err' = [err EXCEPT ![t] = e]
      /\ verdict' = [verdict EXCEPT ![t][now] = v]
      /\ observed' = IF listed THEN [observed EXCEPT ![t] = b] ELSE observed
      /\ key' = [key EXCEPT ![t] = @]
      /\ phase' = [phase EXCEPT ![t] = p]
      /\ reply' = [reply EXCEPT ![t] = NoReplyYet]
  BY DEF Ends, ReturnedKey
<1>3. /\ now \in Calls /\ verdict[t][now] = "none"
      /\ ~IsWrite(t) => applied[t][now] = 0
  BY DEF Inductive, Counted
<1>4. v \in {"listed", "success", "unknown", "rejected"} /\ p \in {"idle", "failed", "over"}
  OBVIOUS
<1>5. v \in {"listed", "rejected"} => applied[t][now] = 0
  BY <1>1, <1>3
<1>6. v = "success" => \E m \in 1 .. now : applied[t][m] = 1
  BY <1>1
<1>7. v \in {"listed", "rejected"} => \A r \in wire' : r.op # "list" => ~(r.intent = t /\ r.call = now)
  <2>1. CASE ~IsWrite(t)
    BY <2>1, RequestsOf
  <2>2. CASE IsWrite(t)
    BY <1>1, <2>2
  <2> QED
    BY <2>1, <2>2
<1>8. p = "idle" => v = "listed"
  OBVIOUS
<1>9. p = "failed" /\ ~e.unknown => v = "rejected"
  OBVIOUS
<1>10. listed => observed[t] = NoBlock /\ kind[t] # "create"
  BY KindOf DEF Inductive
<1> HIDE DEF e, now, listed, v, p
<1>11. key' = key
  BY <1>2 DEF Inductive, TypeOK
<1>12. /\ \A u \in Intents : phase'[u] = IF u = t THEN p ELSE phase[u]
       /\ \A u \in Intents : err'[u] = IF u = t THEN e ELSE err[u]
       /\ \A u \in Intents : reply'[u] = IF u = t THEN NoReplyYet ELSE reply[u]
       /\ \A u \in Intents : u # t \/ ~listed => observed'[u] = observed[u]
       /\ \A u \in Intents : observed'[u] \in {observed[u], b}
       /\ \A u \in Intents, k \in Calls :
            verdict'[u][k] = IF u = t /\ k = now THEN v ELSE verdict[u][k]
  BY <1>2, <1>3 DEF Inductive, TypeOK
<1>13. TypeOK'
  <2>1. verdict' \in [Intents -> [Calls -> {"none", "listed", "success", "rejected", "unknown"}]]
    BY <1>2, <1>4 DEF Inductive, TypeOK
  <2>2. phase' \in [Intents -> {"idle", "waiting", "failed", "over"}]
    BY <1>2, <1>4 DEF Inductive, TypeOK
  <2>3. observed' \in [Intents -> Blocks \cup {NoBlock}]
    BY <1>2 DEF Inductive, TypeOK
  <2>4. reply' \in [Intents -> [answer : Exchange, block : Blocks \cup {NoBlock}]]
    BY <1>2, NoReplyIsNone DEF Inductive, TypeOK
  <2>5. err' \in [Intents -> Errors]
    BY <1>1, <1>2 DEF Inductive, TypeOK
  <2> QED
    BY <1>11, <2>1, <2>2, <2>3, <2>4, <2>5 DEF Inductive, TypeOK
<1>14. \A u \in Intents : phase'[u] = "waiting" =>
         u # t /\ phase[u] = "waiting" /\ Op(u)' = Op(u) /\ (IsWrite(u)' <=> IsWrite(u))
  BY <1>4, <1>12 DEF Op, IsWrite
<1>15. Requested'
  <2>1. \A r \in wire' : r.op \in {"update", "delete"} => observed'[r.intent] = observed[r.intent]
    BY <1>10, <1>12, RequestsOf DEF Inductive, Requested
  <2> QED
    BY <1>11, <1>14, <2>1, RequestsOf DEF Inductive, Requested
<1>16. Single'
  <2>1. \A r \in wire' : r.op # "list" =>
          verdict'[r.intent][r.call] \notin {"rejected", "listed"}
    BY <1>4, <1>7, <1>12, RequestsOf DEF Inductive, Single
  <2> QED
    BY <2>1 DEF Inductive, Single
<1>17. Counted'
  <2>1. \A u \in Intents, k \in Calls : verdict'[u][k] # verdict[u][k] =>
          u = t /\ k = now /\ verdict'[u][k] = v
    BY <1>12
  <2>2. \A u \in Intents, k \in Calls : k > calls[u] => applied[u][k] = 0 /\ verdict'[u][k] = "none"
    <3>1. now \in Nat /\ now = calls[t]
      BY <1>3 DEF now, Calls
    <3> QED
      BY <2>1, <3>1 DEF Inductive, Counted
  <2>3. \A u \in Intents, k \in Calls : verdict'[u][k] \in {"rejected", "listed"} => applied[u][k] = 0
    BY <1>5, <2>1 DEF Inductive, Counted
  <2>4. \A u \in Intents : phase'[u] = "waiting" =>
          /\ calls[u] \in Calls /\ verdict'[u][calls[u]] = "none"
          /\ ~IsWrite(u)' => applied[u][calls[u]] = 0
    BY <1>12, <1>14 DEF Inductive, Counted
  <2> QED
    BY <2>2, <2>3, <2>4 DEF Inductive, Counted
<1>18. Alone'
  <2> SUFFICES ASSUME NEW u \in Intents, kind[u] # "create", NEW k \in 1 .. calls[u], Past(u, k)'
               PROVE  verdict'[u][k] \in {"rejected", "listed"}
    BY DEF Alone
  <2>1. k \in Calls /\ now \in Calls
    BY <1>3, MaxCallsAssumption DEF Inductive, TypeOK, Calls
  <2>2. CASE u # t
    BY <1>12, <2>1, <2>2 DEF Past, Inductive, Alone
  <2>3. CASE u = t /\ k < now
    BY <1>12, <2>1, <2>3 DEF Past, Inductive, Alone, now
  <2>4. CASE u = t /\ k = now
    BY <1>8, <1>9, <1>12, <2>1, <2>4 DEF Past, now
  <2> QED
    BY <2>1, <2>2, <2>3, <2>4 DEF now, Calls
<1>19. Keyed'
  BY <1>11 DEF Inductive, Keyed
<1>20. Answered'
  BY <1>12, <1>14 DEF Inductive, Answered
<1>21. Listed'
  <2>1. Seen(NoReplyYet.block)
    BY DEF NoReplyYet, Seen
  <2> QED
    BY <1>12, <2>1 DEF Inductive, Listed, Seen
<1>22. SuccessIsTrue'
  BY <1>3, <1>6, <1>12 DEF Inductive, SuccessIsTrue, now
<1> QED
  BY <1>13, <1>15, <1>16, <1>17, <1>18, <1>19, <1>20, <1>21, <1>22 DEF Inductive

-----------------------------------------------------------------------------
(* A new call. *)

\* Nothing is known of the next call, and a create makes it with the key it has.
LEMMA FreshCall ==
  ASSUME Inductive, NEW t \in Intents, phase[t] = "idle", calls[t] < MaxCalls,
         NEW n, n = calls[t] + 1
  PROVE  /\ n \in Calls /\ applied[t][n] = 0 /\ verdict[t][n] = "none"
         /\ kind[t] # "create" => CreateKey(t, n) = NoKey /\ key[t] = NoKey
         /\ kind[t] = "create" =>
              /\ Op(t) = "create" /\ CreateKey(t, n) \in Keys /\ CreateKey(t, n)[1] = t
              /\ key[t] # NoKey => CreateKey(t, n) = key[t]
              /\ key[t] = NoKey => CreateKey(t, n) \notin created
<1>1. calls[t] \in 0 .. MaxCalls /\ key[t] \in Keys \cup {NoKey}
  BY DEF Inductive, TypeOK
<1>2. n \in Calls /\ applied[t][n] = 0 /\ verdict[t][n] = "none"
  BY <1>1, MaxCallsAssumption DEF Inductive, Counted, Calls
<1>3. ASSUME kind[t] # "create" PROVE CreateKey(t, n) = NoKey /\ key[t] = NoKey
  BY <1>3, KindOf DEF Inductive, CreateKey, Keyed
<1>4. ASSUME kind[t] = "create"
      PROVE  /\ Op(t) = "create" /\ CreateKey(t, n) \in Keys /\ CreateKey(t, n)[1] = t
             /\ key[t] # NoKey => CreateKey(t, n) = key[t]
             /\ key[t] = NoKey => CreateKey(t, n) \notin created
  <2>1. Op(t) = "create"
    BY <1>4 DEF Op
  <2>2. CASE key[t] # NoKey
    BY <1>1, <2>1, <2>2 DEF CreateKey, Inductive, Keyed
  <2>3. CASE key[t] = NoKey
    <3>1. CreateKey(t, n) = <<t, n>>
      BY <2>1, <2>3 DEF CreateKey
    <3>2. <<t, n>> \in Keys /\ <<t, n>>[1] = t
      BY <1>2 DEF Keys
    <3>3. <<t, n>> # NoKey
      BY <3>2, NoKeyIsNone
    <3>4. <<t, n>> \in created => key[t] = <<t, n>>
      BY <3>2 DEF Inductive, Keyed
    <3> QED
      BY <2>1, <2>3, <3>1, <3>2, <3>3, <3>4
  <2> QED
    BY <2>2, <2>3
<1> QED
  BY <1>2, <1>3, <1>4

\* The key of a new call keeps what is known of keys.
LEMMA FreshKey ==
  ASSUME Inductive, NEW t \in Intents, phase[t] = "idle", calls[t] < MaxCalls,
         key' = [key EXCEPT ![t] = CreateKey(t, calls[t] + 1)], UNCHANGED <<kind, created, applied>>
  PROVE  /\ key' \in [Intents -> Keys \cup {NoKey}]
         /\ \A u \in Intents : key[u] # NoKey => key'[u] = key[u]
         /\ kind[t] = "create" => key'[t] # NoKey
         /\ Keyed'
<1> DEFINE k == CreateKey(t, calls[t] + 1)
<1>1. /\ kind[t] # "create" => k = NoKey /\ key[t] = NoKey
      /\ kind[t] = "create" =>
              /\ k \in Keys /\ k[1] = t
              /\ key[t] # NoKey => k = key[t]
              /\ key[t] = NoKey => k \notin created
  BY FreshCall
<1>2. key' = [key EXCEPT ![t] = k]
  OBVIOUS
<1> HIDE DEF k
<1>3. k \in Keys \cup {NoKey}
  BY <1>1
<1>4. /\ key' \in [Intents -> Keys \cup {NoKey}]
      /\ \A u \in Intents : key'[u] = IF u = t THEN k ELSE key[u]
  BY <1>2, <1>3 DEF Inductive, TypeOK
<1>5. \A u \in Intents : key[u] # NoKey => key'[u] = key[u]
  BY <1>1, <1>4
<1>6. kind[t] = "create" => key'[t] # NoKey
  BY <1>1, <1>4, NoKeyIsNone
<1>7. Keyed'
  <2>1. \A u \in Intents : key'[u] # NoKey => key'[u][1] = u /\ kind[u] = "create"
    BY <1>1, <1>4 DEF Inductive, Keyed
  <2>2. \A c \in created : key'[c[1]] = c
    BY <1>5, NoKeyIsNone DEF Inductive, Keyed, TypeOK
  <2>3. ASSUME NEW u \in Intents, kind[u] = "create"
        PROVE  key'[u] \in created <=> key[u] \in created
    <3>1. NoKey \notin created
      BY NoKeyIsNone DEF Inductive, TypeOK
    <3> QED
      BY <1>1, <1>4, <2>3, <3>1
  <2> QED
    BY <2>1, <2>2, <2>3 DEF Inductive, Keyed
<1> QED
  BY <1>4, <1>5, <1>6, <1>7

LEMMA CanceledStep ==
  ASSUME Inductive, NEW t \in Intents, CanceledBeforeDispatch(t), UNCHANGED kind
  PROVE  Inductive'
<1> USE DEF cloudVars
<1> DEFINE now == calls[t] + 1
           e == [NoError EXCEPT !.nil = FALSE, !.ctx = TRUE]
<1>1. now \in Calls /\ applied[t][now] = 0 /\ verdict[t][now] = "none"
  BY FreshCall DEF CanceledBeforeDispatch
<1>2. e \in Errors /\ ~e.unknown
  <2>1. \A d \in Errors : [d EXCEPT !.nil = FALSE, !.ctx = TRUE] \in Errors
    <3>1. 0 \in 0 .. 599 /\ TRUE \in BOOLEAN
      OBVIOUS
    <3> QED
      BY <3>1, ErrorTyped
  <2>2. e \in Errors
    BY <2>1, NoErrorTyped
  <2>3. ~e.unknown
    BY DEF NoError
  <2> QED
    BY <2>2, <2>3
<1> HIDE DEF e
<1>3. /\ calls' = [calls EXCEPT ![t] = now]
      /\ phase[t] = "idle" /\ phase' = [phase EXCEPT ![t] = "failed"]
      /\ err' = [err EXCEPT ![t] = e]
      /\ UNCHANGED <<kind, cloudVars, wire, reply, observed>>
  BY DEF CanceledBeforeDispatch, e
<1>4. /\ calls'[t] = now
      /\ \A u \in Intents : calls'[u] = IF u = t THEN now ELSE calls[u]
      /\ \A u \in Intents : calls[u] \in 0 .. MaxCalls
  BY <1>3 DEF Inductive, TypeOK
<1>5. /\ key' = [key EXCEPT ![t] = CreateKey(t, now)]
      /\ verdict' = [verdict EXCEPT ![t][now] = "rejected"]
  BY <1>4 DEF CanceledBeforeDispatch, ReturnedKey
<1>6. /\ key' \in [Intents -> Keys \cup {NoKey}]
      /\ \A u \in Intents : key[u] # NoKey => key'[u] = key[u]
      /\ Keyed'
  BY <1>3, <1>5, FreshKey DEF CanceledBeforeDispatch
<1>7. /\ \A u \in Intents : phase'[u] = IF u = t THEN "failed" ELSE phase[u]
      /\ \A u \in Intents : err'[u] = IF u = t THEN e ELSE err[u]
      /\ \A u \in Intents, k \in Calls :
           verdict'[u][k] = IF u = t /\ k = now THEN "rejected" ELSE verdict[u][k]
  BY <1>1, <1>3, <1>5 DEF Inductive, TypeOK
<1>8. now = calls[t] + 1
  OBVIOUS
<1> HIDE DEF now
<1>9. TypeOK'
  <2>1. verdict' \in [Intents -> [Calls -> {"none", "listed", "success", "rejected", "unknown"}]]
    BY <1>1, <1>5 DEF Inductive, TypeOK
  <2>2. calls' \in [Intents -> 0 .. MaxCalls] /\ err' \in [Intents -> Errors]
    BY <1>1, <1>2, <1>3 DEF Inductive, TypeOK, Calls
  <2>3. phase' \in [Intents -> {"idle", "waiting", "failed", "over"}]
    BY <1>3 DEF Inductive, TypeOK
  <2>4. \A r \in wire' : r.intent \in Intents /\ r.call \in 1 .. calls'[r.intent] /\ WellFormed(r)
    BY <1>3, <1>4, <1>8 DEF Inductive, TypeOK
  <2>5. /\ kind' \in Kinds
        /\ blocks' \in [BlockIds -> {Free} \cup Stored]
        /\ created' \subseteq Keys
        /\ reply' \in [Intents -> [answer : Exchange, block : Blocks \cup {NoBlock}]]
        /\ observed' \in [Intents -> Blocks \cup {NoBlock}]
        /\ applied' \in [Intents -> [Calls -> Nat]]
    BY <1>3 DEF Inductive, TypeOK
  <2> QED
    BY <1>6, <2>1, <2>2, <2>3, <2>4, <2>5 DEF TypeOK
<1>10. \A u \in Intents : phase'[u] = "waiting" =>
         u # t /\ phase[u] = "waiting" /\ calls'[u] = calls[u]
  BY <1>4, <1>7
<1>11. \A u \in Intents : Op(u)' = Op(u) /\ (IsWrite(u)' <=> IsWrite(u))
  BY <1>3 DEF Op, IsWrite
<1>12. Requested'
  <2>1. \A r \in wire : r.op = "create" => r.key = key'[r.intent]
    <3>1. \A r \in wire : r.op = "create" => r.key \in Keys
      BY DEF Inductive, TypeOK, WellFormed
    <3> QED
      BY <1>6, <3>1, RequestsOf, NoKeyIsNone DEF Inductive, Requested
  <2> QED
    BY <1>3, <1>10, <1>11, <2>1, RequestsOf DEF Inductive, Requested
<1>13. Single'
  <2>1. \A r \in wire : ~(r.intent = t /\ r.call = now)
    BY <1>4, <1>8, RequestsOf DEF Calls
  <2> QED
    BY <1>3, <1>7, <2>1, RequestsOf DEF Inductive, Single
<1>14. Counted'
  <2>1. \A u \in Intents, k \in Calls : k > calls'[u] => applied[u][k] = 0 /\ verdict'[u][k] = "none"
    BY <1>4, <1>7, <1>8 DEF Inductive, Counted, Calls
  <2>2. \A u \in Intents, k \in Calls : verdict'[u][k] \in {"rejected", "listed"} => applied[u][k] = 0
    BY <1>1, <1>7 DEF Inductive, Counted
  <2>3. \A u \in Intents : phase'[u] = "waiting" =>
          /\ calls'[u] \in Calls /\ verdict'[u][calls'[u]] = "none"
          /\ ~IsWrite(u)' => applied[u][calls'[u]] = 0
    BY <1>7, <1>10, <1>11 DEF Inductive, Counted
  <2> QED
    BY <1>3, <2>1, <2>2, <2>3 DEF Inductive, Counted
<1>15. Alone'
  <2> SUFFICES ASSUME NEW u \in Intents, kind[u] # "create", NEW k \in 1 .. calls'[u], Past(u, k)'
               PROVE  verdict'[u][k] \in {"rejected", "listed"}
    BY <1>3 DEF Alone
  <2>1. k \in Calls
    BY <1>1, <1>4, MaxCallsAssumption DEF Calls
  <2>2. CASE u # t
    BY <1>4, <1>7, <2>1, <2>2 DEF Past, Inductive, Alone
  <2>3. CASE u = t /\ k = now
    BY <1>7, <2>1, <2>3
  <2>4. CASE u = t /\ k # now
    BY <1>3, <1>4, <1>7, <1>8, <2>1, <2>4 DEF Past, Inductive, Alone
  <2> QED
    BY <2>2, <2>3, <2>4
<1>16. Answered'
  BY <1>3, <1>4, <1>7, <1>11 DEF Inductive, Answered
<1>17. Listed'
  BY <1>3 DEF Inductive, Listed, Seen
<1>18. SuccessIsTrue'
  BY <1>3, <1>7 DEF Inductive, SuccessIsTrue
<1> QED
  BY <1>6, <1>9, <1>12, <1>13, <1>14, <1>15, <1>16, <1>17, <1>18 DEF Inductive

\* A request is as its caller is when it sends it.
LEMMA RequestTyped ==
  ASSUME Inductive, NEW t \in Intents, NEW n
  PROVE  LET q == Request(t, n)
         IN  /\ q.intent = t /\ q.call = n /\ q.op = Op(t) /\ q.key = CreateKey(t, n)
             /\ q.op \in {"update", "delete"} =>
                  /\ observed[t] # NoBlock
                  /\ q.id = observed[t].id /\ q.version = observed[t].version
             /\ (Op(t) = "create" => CreateKey(t, n) \in Keys) => WellFormed(q)
<1> DEFINE q == Request(t, n)
<1>1. q.intent = t /\ q.call = n /\ q.op = Op(t) /\ q.key = CreateKey(t, n)
  BY DEF Request
<1>2. Op(t) \in {"update", "delete"} =>
        /\ observed[t] # NoBlock
        /\ q.id = observed[t].id /\ q.version = observed[t].version
  BY KindOf DEF Inductive, Request, IfMatch
<1>3. observed[t] # NoBlock => observed[t].id \in BlockIds /\ observed[t].version \in Nat \ {0}
  BY DEF Inductive, TypeOK, Blocks
<1>4. Op(t) \in {"list", "create", "update", "delete"}
  BY KindOf DEF Inductive
<1>5. Op(t) # "create" => CreateKey(t, n) = NoKey
  BY DEF CreateKey
<1> HIDE DEF q
<1>6. (Op(t) = "create" => CreateKey(t, n) \in Keys) => WellFormed(q)
  BY <1>1, <1>2, <1>3, <1>4, <1>5 DEF WellFormed
<1> QED
  BY <1>1, <1>2, <1>6 DEF q

LEMMA DispatchStep ==
  ASSUME Inductive, NEW t \in Intents, Dispatch(t), UNCHANGED kind
  PROVE  Inductive'
<1> USE DEF cloudVars
<1> DEFINE now == calls[t] + 1
           q == Request(t, now)
<1>1. now \in Calls /\ applied[t][now] = 0 /\ verdict[t][now] = "none"
  BY FreshCall DEF Dispatch
<1>2. /\ calls' = [calls EXCEPT ![t] = now]
      /\ phase[t] = "idle" /\ phase' = [phase EXCEPT ![t] = "waiting"]
      /\ calls[t] < MaxCalls
      /\ UNCHANGED <<kind, cloudVars, reply, observed, err, verdict>>
  BY DEF Dispatch
<1>3. /\ calls'[t] = now
      /\ \A u \in Intents : calls'[u] = IF u = t THEN now ELSE calls[u]
      /\ \A u \in Intents : calls[u] \in 0 .. MaxCalls
  BY <1>2 DEF Inductive, TypeOK
<1>4. key' = [key EXCEPT ![t] = CreateKey(t, now)] /\ wire' = wire \cup {q}
  BY <1>3 DEF Dispatch
<1>5. /\ key' \in [Intents -> Keys \cup {NoKey}]
      /\ \A u \in Intents : key[u] # NoKey => key'[u] = key[u]
      /\ Keyed'
  BY <1>2, <1>4, FreshKey
<1>6. key'[t] = CreateKey(t, now)
  BY <1>4 DEF Inductive, TypeOK
<1>7. Op(t) = "create" => CreateKey(t, now) \in Keys
  BY <1>2, FreshCall, KindOf DEF Inductive
<1>8. /\ q.intent = t /\ q.call = now /\ q.op = Op(t) /\ q.key = CreateKey(t, now)
      /\ q.op \in {"update", "delete"} =>
           /\ observed[t] # NoBlock
           /\ q.id = observed[t].id /\ q.version = observed[t].version
      /\ WellFormed(q)
  BY <1>7, RequestTyped
<1>9. \A u \in Intents : phase'[u] = IF u = t THEN "waiting" ELSE phase[u]
  BY <1>2 DEF Inductive, TypeOK
<1>10. now = calls[t] + 1
  OBVIOUS
<1> HIDE DEF now, q
<1>11. TypeOK'
  <2>1. calls' \in [Intents -> 0 .. MaxCalls]
    BY <1>1, <1>2 DEF Inductive, TypeOK, Calls
  <2>2. phase' \in [Intents -> {"idle", "waiting", "failed", "over"}]
    BY <1>2 DEF Inductive, TypeOK
  <2>3. \A r \in wire' : r.intent \in Intents /\ r.call \in 1 .. calls'[r.intent] /\ WellFormed(r)
    <3>1. ASSUME NEW r \in wire
          PROVE  r.intent \in Intents /\ r.call \in 1 .. calls'[r.intent] /\ WellFormed(r)
      <4>1. r.intent \in Intents /\ r.call \in 1 .. calls[r.intent] /\ WellFormed(r)
        BY DEF Inductive, TypeOK
      <4> QED
        BY <1>3, <1>10, <4>1
    <3>2. calls'[q.intent] = now /\ now \in 1 .. now
      BY <1>1, <1>3, <1>8 DEF Calls
    <3>3. q.intent \in Intents /\ q.call \in 1 .. calls'[q.intent] /\ WellFormed(q)
      BY <1>8, <3>2
    <3> QED
      BY <1>4, <3>1, <3>3
  <2>4. /\ kind' \in Kinds
        /\ blocks' \in [BlockIds -> {Free} \cup Stored]
        /\ created' \subseteq Keys
        /\ reply' \in [Intents -> [answer : Exchange, block : Blocks \cup {NoBlock}]]
        /\ observed' \in [Intents -> Blocks \cup {NoBlock}]
        /\ err' \in [Intents -> Errors]
        /\ verdict' \in [Intents -> [Calls -> {"none", "listed", "success", "rejected", "unknown"}]]
        /\ applied' \in [Intents -> [Calls -> Nat]]
    BY <1>2 DEF Inductive, TypeOK
  <2> QED
    BY <1>5, <2>1, <2>2, <2>3, <2>4 DEF TypeOK
<1>12. \A u \in Intents : Op(u)' = Op(u) /\ (IsWrite(u)' <=> IsWrite(u))
  BY <1>2 DEF Op, IsWrite
<1>13. \A r \in wire : r.intent \in Intents /\ ~(r.intent = t /\ r.call = now)
  BY <1>3, <1>10, RequestsOf DEF Calls
<1>14. Requested'
  <2>1. \A r \in wire : r.op = "create" => r.key = key'[r.intent]
    <3>1. \A r \in wire : r.op = "create" => r.key \in Keys
      BY DEF Inductive, TypeOK, WellFormed
    <3> QED
      BY <1>5, <3>1, RequestsOf, NoKeyIsNone DEF Inductive, Requested
  <2>2. \A r \in wire : r.call = calls'[r.intent] /\ phase'[r.intent] = "waiting" => r.op = Op(r.intent)
    BY <1>3, <1>9, <1>13 DEF Inductive, Requested
  <2>3. q.op \in {"list", kind[t]}
    BY <1>8 DEF Op
  <2> QED
    BY <1>2, <1>4, <1>6, <1>8, <1>12, <1>13, <2>1, <2>2, <2>3 DEF Inductive, Requested
<1>15. Single'
  <2>1. ~(verdict[t][now] \in {"rejected", "listed"})
    BY <1>1
  <2> QED
    BY <1>1, <1>2, <1>4, <1>8, <1>13, <2>1 DEF Inductive, Single
<1>16. Counted'
  <2>1. \A u \in Intents, k \in Calls : k > calls'[u] => applied[u][k] = 0 /\ verdict[u][k] = "none"
    BY <1>3, <1>10 DEF Inductive, Counted, Calls
  <2>2. \A u \in Intents : phase'[u] = "waiting" =>
          /\ calls'[u] \in Calls /\ verdict[u][calls'[u]] = "none"
          /\ ~IsWrite(u)' => applied[u][calls'[u]] = 0
    BY <1>1, <1>3, <1>9, <1>12 DEF Inductive, Counted
  <2> QED
    BY <1>2, <2>1, <2>2 DEF Inductive, Counted
<1>17. Alone'
  <2> SUFFICES ASSUME NEW u \in Intents, kind[u] # "create", NEW k \in 1 .. calls'[u], Past(u, k)'
               PROVE  verdict[u][k] \in {"rejected", "listed"}
    BY <1>2 DEF Alone
  <2>1. CASE u # t
    BY <1>2, <1>3, <1>9, <2>1 DEF Past, Inductive, Alone
  <2>2. CASE u = t
    <3>1. k \in 1 .. calls[t]
      BY <1>3, <1>9, <1>10, <2>2 DEF Past
    <3> QED
      BY <1>2, <2>2, <3>1 DEF Past, Inductive, Alone
  <2> QED
    BY <2>1, <2>2
<1>18. Answered'
  <2>1. reply[t] = NoReplyYet
    BY <1>2 DEF Inductive, Answered
  <2> QED
    BY <1>2, <1>3, <1>4, <1>8, <1>9, <1>12, <2>1 DEF Inductive, Answered
<1>19. Listed'
  BY <1>2 DEF Inductive, Listed, Seen
<1>20. SuccessIsTrue'
  BY <1>2 DEF Inductive, SuccessIsTrue
<1> QED
  BY <1>5, <1>11, <1>14, <1>15, <1>16, <1>17, <1>18, <1>19, <1>20 DEF Inductive

\* A reading is redirected and sent again.
LEMMA RedirectedStep ==
  ASSUME Inductive, NEW t \in Intents, phase[t] = "waiting", ~IsWrite(t),
         wire' = wire \cup {Request(t, calls[t])},
         UNCHANGED <<kind, cloudVars, reply, phase, calls, observed, key, err, verdict>>
  PROVE  Inductive'
<1> USE DEF cloudVars
<1> DEFINE q == Request(t, calls[t])
<1>1. Op(t) = "list" /\ calls[t] \in Calls
  BY DEF IsWrite, Inductive, Counted
<1>2. CreateKey(t, calls[t]) = NoKey
  BY <1>1 DEF CreateKey
<1>3. q.intent = t /\ q.call = calls[t] /\ q.op = "list" /\ WellFormed(q)
  BY <1>1, <1>2, RequestTyped
<1>4. wire' = wire \cup {q}
  OBVIOUS
<1> HIDE DEF q
<1>5. TypeOK'
  <2>1. \A r \in wire' : r.intent \in Intents /\ r.call \in 1 .. calls[r.intent] /\ WellFormed(r)
    BY <1>1, <1>3, <1>4 DEF Inductive, TypeOK, Calls
  <2> QED
    BY <2>1 DEF Inductive, TypeOK
<1>6. \A u \in Intents : Op(u)' = Op(u) /\ (IsWrite(u)' <=> IsWrite(u))
  BY DEF Op, IsWrite
<1>7. Requested'
  BY <1>1, <1>3, <1>4, <1>6, RequestsOf DEF Inductive, Requested
<1>8. Single'
  BY <1>3, <1>4 DEF Inductive, Single
<1>9. Counted' /\ Alone' /\ Keyed' /\ SuccessIsTrue'
  BY <1>6 DEF Inductive, Counted, Alone, Past, Keyed, SuccessIsTrue
<1>10. Answered'
  BY <1>3, <1>4, <1>6 DEF Inductive, Answered
<1>11. Listed'
  BY DEF Inductive, Listed, Seen
<1> QED
  BY <1>5, <1>7, <1>8, <1>9, <1>10, <1>11 DEF Inductive

-----------------------------------------------------------------------------
(* The cloud. *)

\* An answer is for the present call of its intent, or for nobody.
LEMMA AnswerTo ==
  ASSUME Inductive, NEW r \in wire, NEW x \in Exchange, NEW b \in Blocks \cup {NoBlock},
         Answer(r, x, b)
  PROVE  /\ reply' \in [Intents -> [answer : Exchange, block : Blocks \cup {NoBlock}]]
         /\ \A u \in Intents :
              reply'[u] = IF u = r.intent /\ phase[u] = "waiting" /\ calls[u] = r.call
                            THEN [answer |-> x, block |-> b] ELSE reply[u]
<1>1. r.intent \in Intents
  BY RequestsOf
<1>2. reply \in [Intents -> [answer : Exchange, block : Blocks \cup {NoBlock}]]
  BY DEF Inductive, TypeOK
<1>3. [answer |-> x, block |-> b] \in [answer : Exchange, block : Blocks \cup {NoBlock}]
  OBVIOUS
<1> DEFINE a == [answer |-> x, block |-> b]
<1>4. reply' = IF phase[r.intent] = "waiting" /\ calls[r.intent] = r.call
                 THEN [reply EXCEPT ![r.intent] = a] ELSE reply
  BY DEF Answer
<1> HIDE DEF a
<1>5. a \in [answer : Exchange, block : Blocks \cup {NoBlock}]
  BY <1>3 DEF a
<1>6. reply' \in [Intents -> [answer : Exchange, block : Blocks \cup {NoBlock}]]
  BY <1>1, <1>2, <1>4, <1>5
<1>7. \A u \in Intents :
        reply'[u] = IF u = r.intent /\ phase[u] = "waiting" /\ calls[u] = r.call
                      THEN a ELSE reply[u]
  BY <1>1, <1>2, <1>4
<1> QED
  BY <1>6, <1>7 DEF a

\* The cloud answers and changes nothing: a listing, a refusal, a create done before.
LEMMA AnswersStep ==
  ASSUME Inductive, NEW r \in wire, NEW x \in Exchange, NEW b \in Blocks \cup {NoBlock},
         wire' = wire \ {r}, Answer(r, x, b), Seen(b),
         r.op # "list" =>
           \/ Accepted(x) /\ \E m \in 1 .. calls[r.intent] : applied[r.intent][m] = 1
           \/ x = Reply(412, "none") /\ applied[r.intent][r.call] = 0,
         UNCHANGED <<kind, cloudVars, phase, calls, observed, key, err, verdict>>
  PROVE  Inductive'
<1> USE DEF cloudVars
<1>1. /\ reply' \in [Intents -> [answer : Exchange, block : Blocks \cup {NoBlock}]]
      /\ \A u \in Intents :
           reply'[u] = IF u = r.intent /\ phase[u] = "waiting" /\ calls[u] = r.call
                         THEN [answer |-> x, block |-> b] ELSE reply[u]
  BY AnswerTo
<1>2. TypeOK'
  <2>1. \A s \in wire' : s.intent \in Intents /\ s.call \in 1 .. calls[s.intent] /\ WellFormed(s)
    BY DEF Inductive, TypeOK
  <2> QED
    BY <1>1, <2>1 DEF Inductive, TypeOK
<1>3. \A u \in Intents : Op(u)' = Op(u) /\ (IsWrite(u)' <=> IsWrite(u))
  BY DEF Op, IsWrite
<1>4. Requested'
  BY <1>3, RequestsOf DEF Inductive, Requested
<1>5. Single' /\ SuccessIsTrue' /\ Keyed'
  BY DEF Inductive, Single, SuccessIsTrue, Keyed
<1>6. Counted' /\ Alone'
  BY <1>3 DEF Inductive, Counted, Alone, Past
<1>7. Answered'
  <2> SUFFICES ASSUME NEW u \in Intents, reply'[u] # NoReplyYet
               PROVE  /\ phase[u] = "waiting"
                      /\ IsWrite(u) =>
                           /\ \A s \in wire' : ~(s.intent = u /\ s.call = calls[u])
                           /\ \/ /\ Accepted(reply'[u].answer)
                                 /\ \E m \in 1 .. calls[u] : applied[u][m] = 1
                              \/ reply'[u].answer = Reply(412, "none") /\ applied[u][calls[u]] = 0
    BY <1>3 DEF Answered
  <2>1. CASE u = r.intent /\ phase[u] = "waiting" /\ calls[u] = r.call
    <3>1. reply'[u].answer = x
      BY <1>1, <2>1
    <3>2. IsWrite(u) => r.op # "list"
      BY <2>1, RequestsOf
    <3>3. IsWrite(u) => \A s \in wire' : ~(s.intent = u /\ s.call = calls[u])
      BY <2>1, RequestsOf DEF Inductive, Single
    <3> QED
      BY <2>1, <3>1, <3>2, <3>3
  <2>2. CASE ~(u = r.intent /\ phase[u] = "waiting" /\ calls[u] = r.call)
    BY <1>1, <2>2 DEF Inductive, Answered
  <2> QED
    BY <2>1, <2>2
<1>8. Listed'
  BY <1>1 DEF Inductive, Listed, Seen
<1> QED
  BY <1>2, <1>4, <1>5, <1>6, <1>7, <1>8 DEF Inductive

\* The cloud carries out a write, which nothing has been known of.
LEMMA AppliesStep ==
  ASSUME Inductive, NEW r \in wire, r.op # "list", NEW x \in Exchange, Accepted(x),
         wire' = wire \ {r}, Applies(r), Answer(r, x, NoBlock),
         \/ r.op = "create" /\ r.key \notin created /\ created' = created \cup {r.key}
         \/ r.op # "create" /\ created' = created,
         blocks' \in [BlockIds -> {Free} \cup Stored],
         \A b \in Blocks : Seen(b) => Seen(b)',
         UNCHANGED <<kind, phase, calls, observed, key, err, verdict>>
  PROVE  Inductive'
<1> DEFINE t == r.intent
           n == r.call
<1>1. /\ reply' \in [Intents -> [answer : Exchange, block : Blocks \cup {NoBlock}]]
      /\ \A u \in Intents :
           reply'[u] = IF u = t /\ phase[u] = "waiting" /\ calls[u] = n
                         THEN [answer |-> x, block |-> NoBlock] ELSE reply[u]
  BY AnswerTo
<1>2. /\ t \in Intents /\ n \in Calls /\ n \in 1 .. calls[t] /\ calls[t] \in Nat
      /\ phase[t] = "waiting" /\ n = calls[t] => IsWrite(t)
  BY RequestsOf DEF Inductive, TypeOK
<1>3. applied[t][n] = 0 /\ verdict[t][n] \notin {"rejected", "listed"}
  BY DEF Inductive, Single
<1>4. r.op = kind[t] /\ (r.op = "create" => r.key = key[t] /\ r.key \in Keys)
  BY DEF Inductive, Requested, TypeOK, WellFormed
<1>5. \A s \in wire' : s \in wire /\ (s.op # "list" => ~(s.intent = t /\ s.call = n))
  BY DEF Inductive, Single
<1>6. applied' = [applied EXCEPT ![t][n] = applied[t][n] + 1]
  BY DEF Applies
<1> HIDE DEF t, n
<1>7. /\ applied' \in [Intents -> [Calls -> Nat]]
      /\ \A u \in Intents, m \in Calls :
           applied'[u][m] = IF u = t /\ m = n THEN 1 ELSE applied[u][m]
  BY <1>2, <1>3, <1>6 DEF Inductive, TypeOK
<1>8. TypeOK'
  <2>1. \A s \in wire' : s.intent \in Intents /\ s.call \in 1 .. calls[s.intent] /\ WellFormed(s)
    BY <1>5 DEF Inductive, TypeOK
  <2>2. created' \subseteq Keys
    BY <1>4 DEF Inductive, TypeOK
  <2> QED
    BY <1>1, <1>7, <2>1, <2>2 DEF Inductive, TypeOK
<1>9. \A u \in Intents : Op(u)' = Op(u) /\ (IsWrite(u)' <=> IsWrite(u))
  BY DEF Op, IsWrite
<1>10. Requested'
  BY <1>5, <1>9, RequestsOf DEF Inductive, Requested
<1>11. Single'
  <2>1. \A s \in wire' : s.op # "list" => applied'[s.intent][s.call] = 0
    BY <1>5, <1>7, RequestsOf DEF Inductive, Single
  <2> QED
    BY <1>5, <2>1 DEF Inductive, Single
<1>12. Counted'
  <2>1. \A u \in Intents, m \in Calls : applied'[u][m] \in {0, 1}
    BY <1>7 DEF Inductive, Counted
  <2>2. \A u \in Intents, m \in Calls : m > calls[u] => applied'[u][m] = 0 /\ verdict[u][m] = "none"
    BY <1>2, <1>7 DEF Inductive, Counted
  <2>3. \A u \in Intents, m \in Calls : verdict[u][m] \in {"rejected", "listed"} => applied'[u][m] = 0
    BY <1>3, <1>7 DEF Inductive, Counted
  <2>4. \A u \in Intents : phase'[u] = "waiting" =>
          /\ calls'[u] \in Calls /\ verdict'[u][calls'[u]] = "none"
          /\ ~IsWrite(u)' => applied'[u][calls'[u]] = 0
    BY <1>2, <1>7, <1>9 DEF Inductive, Counted
  <2> QED
    BY <2>1, <2>2, <2>3, <2>4 DEF Counted
<1>13. Alone'
  BY DEF Inductive, Alone, Past
<1>14. Keyed'
  <2>1. CASE kind[t] # "create"
    <3>1. \A u \in Intents, m \in Calls : kind[u] = "create" => applied'[u][m] = applied[u][m]
      BY <1>7, <2>1
    <3>2. created' = created
      BY <1>4, <2>1
    <3> QED
      BY <3>1, <3>2 DEF Inductive, Keyed
  <2>2. CASE kind[t] = "create"
    <3>1. /\ key[t] \in Keys /\ key[t] # NoKey /\ key[t][1] = t /\ key[t] \notin created
          /\ created' = created \cup {key[t]}
      BY <1>2, <1>4, <2>2, NoKeyIsNone DEF Inductive, Keyed
    <3>2. \A m \in Calls : applied[t][m] # 1
      BY <1>2, <2>2, <3>1 DEF Inductive, Keyed
    <3>3. \A u \in Intents : u # t => key[u] # key[t]
      BY <3>1 DEF Inductive, Keyed
    <3>4. \A k \in created' : key[k[1]] = k
      BY <3>1 DEF Inductive, Keyed
    <3>5. ASSUME NEW u \in Intents, kind[u] = "create"
          PROVE  /\ \A m, k \in Calls : applied'[u][m] = 1 /\ applied'[u][k] = 1 => m = k
                 /\ (\E k \in Calls : applied'[u][k] = 1) <=> key[u] \in created'
      <4>1. CASE u = t
        BY <1>2, <1>7, <3>1, <3>2, <4>1
      <4>2. CASE u # t
        BY <1>7, <3>1, <3>3, <3>5, <4>2 DEF Inductive, Keyed
      <4> QED
        BY <4>1, <4>2
    <3> QED
      BY <3>4, <3>5 DEF Inductive, Keyed
  <2> QED
    BY <2>1, <2>2
<1>15. Answered'
  <2> SUFFICES ASSUME NEW u \in Intents, reply'[u] # NoReplyYet
               PROVE  /\ phase[u] = "waiting"
                      /\ IsWrite(u) =>
                           /\ \A s \in wire' : ~(s.intent = u /\ s.call = calls[u])
                           /\ \/ /\ Accepted(reply'[u].answer)
                                 /\ \E m \in 1 .. calls[u] : applied'[u][m] = 1
                              \/ reply'[u].answer = Reply(412, "none") /\ applied'[u][calls[u]] = 0
    BY <1>9 DEF Answered
  <2>1. CASE u = t /\ phase[u] = "waiting" /\ calls[u] = n
    <3>1. Accepted(reply'[u].answer)
      BY <1>1, <2>1
    <3>2. \A s \in wire' : ~(s.intent = u /\ s.call = calls[u])
      BY <1>2, <1>5, <2>1, RequestsOf
    <3> QED
      BY <1>2, <1>7, <2>1, <3>1, <3>2
  <2>2. CASE ~(u = t /\ phase[u] = "waiting" /\ calls[u] = n)
    <3>1. reply'[u] = reply[u] /\ phase[u] = "waiting" /\ calls[u] \in Calls
      BY <1>1, <2>2 DEF Inductive, Answered, Counted
    <3>2. applied'[u][calls[u]] = applied[u][calls[u]]
      BY <1>7, <2>2, <3>1
    <3>3. \A m \in 1 .. calls[u] : m \in Calls /\ (applied[u][m] = 1 => applied'[u][m] = 1)
      BY <1>7, <3>1, MaxCallsAssumption DEF Calls
    <3> QED
      BY <1>5, <3>1, <3>2, <3>3 DEF Inductive, Answered
  <2> QED
    BY <2>1, <2>2
<1>16. Listed'
  <2>1. Seen(NoBlock)'
    BY DEF Seen, NoBlock
  <2>2. \A u \in Intents : reply'[u].block \in {NoBlock, reply[u].block}
    BY <1>1
  <2> QED
    BY <2>1, <2>2 DEF Inductive, Listed, TypeOK
<1>17. SuccessIsTrue'
  <2>1. \A u \in Intents, m \in Calls : applied[u][m] = 1 => applied'[u][m] = 1
    BY <1>7
  <2>2. \A k \in Calls : 1 .. k \subseteq Calls
    BY MaxCallsAssumption DEF Calls
  <2> QED
    BY <2>1, <2>2 DEF Inductive, SuccessIsTrue
<1> QED
  BY <1>8, <1>10, <1>11, <1>12, <1>13, <1>14, <1>15, <1>16, <1>17 DEF Inductive

\* An edited block is a block, with a later version unless it is the same.
LEMMA EditedTyped ==
  ASSUME NEW b \in Stored, NEW x \in Texts
  PROVE  /\ Edited(b, x) \in Stored
         /\ Edited(b, x) = b \/ Edited(b, x).version > b.version
<1>1. CASE b.text = x
  BY <1>1 DEF Edited
<1>2. CASE b.text # x
  <2> DEFINE v == b.version + 1
  <2>1. v \in Nat \ {0} /\ v > b.version
    BY DEF Stored
  <2>2. Edited(b, x) = [b EXCEPT !.version = v, !.text = x]
    BY <1>2 DEF Edited
  <2> HIDE DEF v
  <2> QED
    BY <2>1, <2>2 DEF Stored
<1> QED
  BY <1>1, <1>2

\* A block changes: whoever saw it saw this version of it, or an earlier one.
LEMMA BlockStep ==
  ASSUME Inductive, NEW id \in BlockIds,
         NEW c \in Stored,
         blocks' = [blocks EXCEPT ![id] = c],
         \/ blocks[id] = Free
         \/ c.version > blocks[id].version
         \/ c.version = blocks[id].version /\ c.text = blocks[id].text
  PROVE  /\ blocks' \in [BlockIds -> {Free} \cup Stored]
         /\ \A b \in Blocks : Seen(b) => Seen(b)'
<1>1. /\ blocks' \in [BlockIds -> {Free} \cup Stored]
      /\ \A i \in BlockIds : blocks'[i] = IF i = id THEN c ELSE blocks[i]
  BY DEF Inductive, TypeOK
<1>2. c # Free /\ c.version \in Nat
  BY DEF Free, Stored
<1>3. \A i \in BlockIds : blocks[i].version \in Nat
  BY DEF Inductive, TypeOK, Free, Stored
<1>4. ASSUME NEW b \in Blocks, Seen(b)
      PROVE  Seen(b)'
  <2>1. b.id \in BlockIds /\ b.version \in Nat
    BY DEF Blocks
  <2>2. b = NoBlock \/ (/\ blocks[b.id] # Free
                        /\ b.version <= blocks[b.id].version
                        /\ b.version = blocks[b.id].version => b.text = blocks[b.id].text)
    BY <1>4 DEF Seen
  <2>3. CASE b.id # id
    BY <1>1, <2>1, <2>2, <2>3 DEF Seen
  <2>4. CASE b.id = id
    BY <1>1, <1>2, <1>3, <2>1, <2>2, <2>4 DEF Seen
  <2> QED
    BY <2>3, <2>4
<1> QED
  BY <1>1, <1>4

LEMMA HandlesStep ==
  ASSUME Inductive, NEW r \in wire, Handles(r), UNCHANGED kind
  PROVE  Inductive'
<1> DEFINE t == r.intent
<1>1. t \in Intents /\ r.op \in {"list", kind[t]} /\ calls[t] \in 0 .. MaxCalls
  BY RequestsOf DEF Inductive, Requested, TypeOK
<1>2. wire' = wire \ {r} /\ UNCHANGED <<kind, phase, calls, observed, key, err, verdict>>
  BY DEF Handles
<1>3. /\ Reply(200, "good") \in Exchange /\ Accepted(Reply(200, "good"))
      /\ Reply(201, "good") \in Exchange /\ Accepted(Reply(201, "good"))
      /\ Reply(412, "none") \in Exchange
  BY DEF Reply, Exchange, Bodies, Accepted, Success
<1>4. Seen(NoBlock) /\ NoBlock \in Blocks \cup {NoBlock}
  BY DEF Seen
<1>5. Text[t] \in Texts
  BY <1>1 DEF Texts
<1>6. blocks \in [BlockIds -> {Free} \cup Stored]
  BY DEF Inductive, TypeOK
<1>7. ASSUME NEW id \in BlockIds, Live(id)
      PROVE  blocks[id] \in Stored
  BY <1>6, <1>7 DEF Live, Free
<1>8. r.op \in {"update", "delete"} => r.id \in BlockIds
  BY DEF Inductive, TypeOK, WellFormed
<1> HIDE DEF t
<1>9. CASE HandlesCreate(r)
  <2>1. Answer(r, Reply(201, "good"), NoBlock) /\ r.op = "create"
    BY <1>9 DEF HandlesCreate
  <2>2. CASE r.key \in created
    <3>1. UNCHANGED cloudVars
      BY <1>9, <2>2 DEF HandlesCreate
    <3>2. r.key = key[t] /\ kind[t] = "create"
      BY <1>1, <2>1 DEF Inductive, Requested, t
    <3>3. PICK m \in Calls : applied[t][m] = 1
      BY <1>1, <2>2, <3>2 DEF Inductive, Keyed
    <3>4. m \in 1 .. calls[t]
      BY <1>1, <3>3 DEF Inductive, Counted, Calls
    <3> QED
      BY <1>2, <1>3, <1>4, <2>1, <3>1, <3>3, <3>4, AnswersStep DEF t
  <2>3. CASE r.key \notin created
    <3>1. PICK id \in BlockIds :
            /\ blocks[id] = Free
            /\ blocks' = [blocks EXCEPT ![id] =
                 [state |-> "live", version |-> 1, text |-> Text[t]]]
      BY <1>9, <2>3 DEF HandlesCreate, t
    <3>2. created' = created \cup {r.key} /\ Applies(r)
      BY <1>9, <2>3 DEF HandlesCreate
    <3>3. [state |-> "live", version |-> 1, text |-> Text[t]] \in Stored
      BY <1>5 DEF Stored
    <3>4. /\ blocks' \in [BlockIds -> {Free} \cup Stored]
          /\ \A b \in Blocks : Seen(b) => Seen(b)'
      BY <3>1, <3>3, BlockStep
    <3> QED
      BY <1>2, <1>3, <2>1, <2>3, <3>2, <3>4, AppliesStep
  <2> QED
    BY <2>2, <2>3
<1>10. CASE HandlesUpdate(r)
  <2> DEFINE old == blocks[r.id]
             new == Edited(old, Text[t])
  <2>1. /\ Answer(r, Reply(200, "good"), NoBlock) /\ r.op = "update"
        /\ Applies(r) /\ created' = created /\ Live(r.id)
        /\ blocks' = [blocks EXCEPT ![r.id] = new]
    BY <1>10 DEF HandlesUpdate, Matches, t
  <2>2. r.id \in BlockIds
    BY <1>8, <2>1
  <2>3. old \in Stored
    BY <1>7, <2>1, <2>2
  <2>4. /\ new \in Stored
        /\ new = old \/ new.version > old.version
    BY <1>5, <2>3, EditedTyped
  <2> HIDE DEF new
  <2>5. /\ blocks' \in [BlockIds -> {Free} \cup Stored]
        /\ \A b \in Blocks : Seen(b) => Seen(b)'
    BY <2>1, <2>2, <2>4, BlockStep
  <2> QED
    BY <1>2, <1>3, <2>1, <2>5, AppliesStep
<1>11. CASE HandlesDelete(r)
  <2> DEFINE old == blocks[r.id]
             new == [old EXCEPT !.state = "gone"]
  <2>1. /\ Answer(r, Reply(200, "good"), NoBlock) /\ r.op = "delete"
        /\ Applies(r) /\ created' = created /\ Live(r.id)
        /\ blocks' = [blocks EXCEPT ![r.id].state = "gone"]
    BY <1>11 DEF HandlesDelete, Matches
  <2>2. r.id \in BlockIds
    BY <1>8, <2>1
  <2>3. old \in Stored
    BY <1>7, <2>1, <2>2
  <2>4. blocks' = [blocks EXCEPT ![r.id] = new]
    BY <2>1
  <2>5. /\ new \in Stored
        /\ new.version = old.version /\ new.text = old.text
    <3> HIDE DEF old
    <3> QED
      BY <2>3 DEF Stored
  <2> HIDE DEF new
  <2>6. /\ blocks' \in [BlockIds -> {Free} \cup Stored]
        /\ \A b \in Blocks : Seen(b) => Seen(b)'
    BY <2>2, <2>4, <2>5, BlockStep
  <2> QED
    BY <1>2, <1>3, <2>1, <2>6, AppliesStep
<1>12. CASE RefusesConflict(r)
  <2>1. Answer(r, Reply(412, "none"), NoBlock) /\ r.op # "list" /\ UNCHANGED cloudVars
    BY <1>12 DEF RefusesConflict
  <2>2. applied[r.intent][r.call] = 0
    BY <2>1 DEF Inductive, Single
  <2> QED
    BY <1>2, <1>3, <1>4, <2>1, <2>2, AnswersStep
<1>13. CASE HandlesList(r)
  <2>1. r.op = "list" /\ UNCHANGED cloudVars
    BY <1>13 DEF HandlesList
  <2>2. CASE Answer(r, Reply(200, "good"), NoBlock)
    BY <1>2, <1>3, <1>4, <2>1, <2>2, AnswersStep
  <2>3. ASSUME NEW id \in BlockIds, Live(id),
               Answer(r, Reply(200, "good"),
                      [id |-> id, version |-> blocks[id].version, text |-> blocks[id].text])
        PROVE  Inductive'
    <3> DEFINE b == [id |-> id, version |-> blocks[id].version, text |-> blocks[id].text]
    <3>1. b \in Blocks
      BY <1>7, <2>3 DEF Blocks, Stored
    <3>2. blocks[id] # Free /\ blocks[id].version \in Nat
      BY <1>7, <2>3 DEF Live, Free, Stored
    <3>3. Seen(b)
      BY <3>2 DEF Seen
    <3>4. Answer(r, Reply(200, "good"), b)
      BY <2>3
    <3> HIDE DEF b
    <3> QED
      BY <1>2, <1>3, <2>1, <3>1, <3>3, <3>4, AnswersStep
  <2> QED
    BY <1>13, <2>2, <2>3 DEF HandlesList
<1> QED
  BY <1>9, <1>10, <1>11, <1>12, <1>13 DEF Handles

-----------------------------------------------------------------------------
(* The steps, together. *)

\* An exchange that Answers offers acknowledges nothing.
LEMMA NetworkAnswers ==
  ASSUME NEW x \in Answers
  PROVE  x \in Exchange /\ ~Accepted(x) /\ (MayApply(x) <=> MayHaveApplied(x))
<1>1. x \in Exchange /\ ~(Success(x) /\ x.body = "good")
  BY AnswersAssumption
<1>2. x.status \in 0 .. 599
  BY <1>1 DEF Exchange
<1> QED
  BY <1>1, <1>2 DEF Accepted, MayApply, MayHaveApplied

LEMMA IntentStep ==
  ASSUME Inductive, NEW t \in Intents, UNCHANGED kind,
         \/ RejectedLocally(t) \/ CanceledBeforeDispatch(t) \/ Dispatch(t) \/ Receives(t)
         \/ AnsweredForCloud(t) \/ RefusedForCloud(t)
         \/ RetriesCall(t) \/ ReplaysCreate(t) \/ GivesUp(t)
  PROVE  Inductive'
<1>1. CASE RejectedLocally(t)
  <2>1. err' \in [Intents -> Errors] /\ \A u \in Intents : err'[u] = err[u]
    BY <1>1 DEF RejectedLocally, Inductive, TypeOK
  <2> QED
    BY <1>1, <2>1, DecidesStep DEF RejectedLocally
<1>2. ASSUME phase[t] = "failed", err' = [err EXCEPT ![t] = NoError]
      PROVE  err' \in [Intents -> Errors] /\ \A u \in Intents : u # t => err'[u] = err[u]
  BY <1>2, NoErrorTyped DEF Inductive, TypeOK
<1>3. CASE RetriesCall(t)
  BY <1>2, <1>3, DecidesStep DEF RetriesCall, IsRetryable
<1>4. CASE ReplaysCreate(t)
  BY <1>2, <1>4, DecidesStep DEF ReplaysCreate
<1>5. CASE GivesUp(t)
  BY <1>2, <1>5, DecidesStep DEF GivesUp
<1>6. CASE CanceledBeforeDispatch(t)
  BY <1>6, CanceledStep
<1>7. CASE Dispatch(t)
  BY <1>7, DispatchStep
<1>8. CASE Receives(t)
  <2> DEFINE x == reply[t].answer
             b == reply[t].block
  <2>1. x \in Exchange /\ b \in Blocks \cup {NoBlock} /\ Seen(b)
    BY DEF Inductive, TypeOK, Listed
  <2>2. /\ phase[t] = "waiting" /\ reply[t] # NoReplyYet /\ Ends(t, x, b)
        /\ UNCHANGED <<cloudVars, wire, calls>>
    BY <1>8 DEF Receives
  <2>3. IsWrite(t) =>
          /\ \A r \in wire : ~(r.intent = t /\ r.call = calls[t])
          /\ \/ Accepted(x) /\ \E m \in 1 .. calls[t] : applied[t][m] = 1
             \/ x = Reply(412, "none") /\ applied[t][calls[t]] = 0
    BY <2>2 DEF Inductive, Answered
  <2>4. ~Accepted(Reply(412, "none"))
    BY DEF Accepted, Success, Reply
  <2> HIDE DEF x, b
  <2> QED
    BY <2>1, <2>2, <2>3, <2>4, EndsStep
<1>9. CASE AnsweredForCloud(t)
  <2>1. PICK x \in Answers :
          /\ MayApply(x)
          /\ IF Follows(IsWrite(t), x)
               THEN /\ wire' = wire \cup {Request(t, calls[t])}
                    /\ UNCHANGED <<reply, phase, observed, key, err, verdict>>
               ELSE Ends(t, x, NoBlock) /\ UNCHANGED wire
    BY <1>9 DEF AnsweredForCloud
  <2>2. phase[t] = "waiting" /\ UNCHANGED <<cloudVars, calls>>
    BY <1>9 DEF AnsweredForCloud
  <2>3. CASE Follows(IsWrite(t), x)
    BY <2>1, <2>2, <2>3, RedirectedStep DEF Follows
  <2>4. CASE ~Follows(IsWrite(t), x)
    <3>1. x \in Exchange /\ ~Accepted(x) /\ MayHaveApplied(x)
      BY <2>1, NetworkAnswers
    <3>2. Seen(NoBlock) /\ NoBlock \in Blocks \cup {NoBlock}
      BY DEF Seen
    <3> QED
      BY <2>1, <2>2, <2>4, <3>1, <3>2, EndsStep
  <2> QED
    BY <2>3, <2>4
<1>10. CASE RefusedForCloud(t)
  <2>1. PICK r \in wire : r.intent = t /\ r.call = calls[t] /\ wire' = wire \ {r}
    BY <1>10 DEF RefusedForCloud
  <2>2. PICK x \in Answers : ~MayApply(x) /\ Ends(t, x, NoBlock)
    BY <1>10 DEF RefusedForCloud
  <2>3. phase[t] = "waiting" /\ UNCHANGED <<cloudVars, calls>>
    BY <1>10 DEF RefusedForCloud
  <2>4. x \in Exchange /\ ~Accepted(x)
    BY NetworkAnswers
  <2>5. IsWrite(t) => applied[t][calls[t]] = 0 /\ \A s \in wire' : ~(s.intent = t /\ s.call = calls[t])
    BY <2>1, <2>3, RequestsOf DEF Inductive, Single
  <2>6. Seen(NoBlock) /\ NoBlock \in Blocks \cup {NoBlock}
    BY DEF Seen
  <2>7. wire' \subseteq wire
    BY <2>1
  <2> QED
    BY <2>2, <2>3, <2>4, <2>5, <2>6, <2>7, EndsStep
<1> QED
  BY <1>1, <1>3, <1>4, <1>5, <1>6, <1>7, <1>8, <1>9, <1>10

LEMMA StutterStep ==
  ASSUME Inductive, UNCHANGED vars
  PROVE  Inductive'
<1> USE DEF vars, cloudVars
<1>1. TypeOK' /\ \A u \in Intents : Op(u)' = Op(u) /\ (IsWrite(u)' <=> IsWrite(u))
  BY DEF Inductive, TypeOK, Op, IsWrite
<1>2. Requested' /\ Single' /\ Counted' /\ Answered'
  BY <1>1, RequestsOf DEF Inductive, Requested, Single, Counted, Answered
<1>3. Alone' /\ Keyed' /\ Listed' /\ SuccessIsTrue'
  BY DEF Inductive, Alone, Past, Keyed, Listed, Seen, SuccessIsTrue
<1> QED
  BY <1>1, <1>2, <1>3 DEF Inductive

LEMMA InductiveStep == Inductive /\ [Next]_vars => Inductive'
<1> SUFFICES ASSUME Inductive, [Next]_vars PROVE Inductive'
  OBVIOUS
<1>1. CASE UNCHANGED vars
  BY <1>1, StutterStep
<1>2. CASE Next
  <2>1. UNCHANGED kind
    BY <1>2 DEF Next
  <2>2. ASSUME NEW r \in wire, Handles(r) PROVE Inductive'
    BY <2>1, <2>2, HandlesStep
  <2> QED
    BY <1>2, <2>1, <2>2, IntentStep DEF Next
<1> QED
  BY <1>1, <1>2

LEMMA InductiveInvariant == Spec => []Inductive
<1>1. Init => Inductive
  BY InductiveInit
<1>2. Inductive /\ [Next]_vars => Inductive'
  BY InductiveStep
<1> QED
  BY <1>1, <1>2, PTL DEF Spec

-----------------------------------------------------------------------------
(***************************************************************************)
(* Every variable of the memory API keeps its type, and no request names   *)
(* a call its application has not made.                                    *)
(***************************************************************************)
THEOREM MemoryTyped == Spec => []TypeOK
<1>1. Inductive => TypeOK
  BY DEF Inductive
<1> QED
  BY <1>1, InductiveInvariant, PTL

LEMMA AppliesOnce == Inductive => WrittenOnce
<1> SUFFICES ASSUME Inductive, NEW t \in Intents, NEW m \in Calls, NEW n \in Calls
             PROVE  applied[t][n] <= 1 /\ (m # n => applied[t][m] = 0 \/ applied[t][n] = 0)
  BY DEF WrittenOnce
<1>1. applied[t][m] \in {0, 1} /\ applied[t][n] \in {0, 1} /\ calls[t] \in 0 .. MaxCalls
  BY DEF Inductive, Counted, TypeOK
<1>2. CASE kind[t] = "create"
  BY <1>1, <1>2 DEF Inductive, Keyed
<1>3. CASE kind[t] # "create"
  <2>1. ASSUME NEW k \in Calls, k # calls[t] PROVE applied[t][k] = 0
    BY <1>1, <1>3, <2>1 DEF Inductive, Counted, Alone, Past, Calls
  <2> QED
    BY <1>1, <2>1
<1> QED
  BY <1>2, <1>3

(***************************************************************************)
(* What an application intends happens once at most, however often it      *)
(* retries what IsRetryable accepts and replays an uncertain create: an    *)
(* update or a delete has changed nothing when it is made again, and the   *)
(* calls of a create have one key.                                         *)
(***************************************************************************)
THEOREM IntentsOnce == Spec => []WrittenOnce
  BY AppliesOnce, InductiveInvariant, PTL

(***************************************************************************)
(* A write that is reported as successful has been carried out, by this    *)
(* call or by an earlier one under the same key.                           *)
(***************************************************************************)
THEOREM SuccessTrue == Spec => []SuccessIsTrue
<1>1. Inductive => SuccessIsTrue
  BY DEF Inductive
<1> QED
  BY <1>1, InductiveInvariant, PTL

(***************************************************************************)
(* A write that is reported as certainly rejected has not been carried     *)
(* out: its one request is gone by then, or was never sent.                *)
(***************************************************************************)
THEOREM RejectionsTrue == Spec => []RejectedNeverApplied
<1>1. Inductive => RejectedNeverApplied
  BY DEF Inductive, Counted, RejectedNeverApplied
<1> QED
  BY <1>1, InductiveInvariant, PTL

(***************************************************************************)
(* An update or a delete only replaces the text its caller has read, since *)
(* a version of a block has one text.                                      *)
(***************************************************************************)
THEOREM NothingUnreadReplaced == Spec => ReplacesWhatWasRead
<1>1. ASSUME Inductive, [Next]_vars, NEW t \in Intents, kind[t] # "create", applied'[t] # applied[t]
      PROVE  blocks[observed[t].id].text = observed[t].text
  <2>1. PICK r \in wire : Handles(r) /\ applied' # applied
    BY <1>1 DEF Next, vars, cloudVars, RejectedLocally, CanceledBeforeDispatch, Dispatch, Receives,
         AnsweredForCloud, RefusedForCloud, RetriesCall, ReplaysCreate, GivesUp
  <2>2. r.op # "list" /\ Applies(r) /\ (r.op \in {"update", "delete"} => Matches(r))
    BY <2>1 DEF Handles, HandlesCreate, HandlesUpdate, HandlesDelete, RefusesConflict, HandlesList,
         cloudVars
  <2>3. r.intent = t
    BY <1>1, <2>2, RequestsOf DEF Applies, Inductive, TypeOK
  <2>4. /\ Matches(r) /\ observed[t] # NoBlock
        /\ r.id = observed[t].id /\ r.version = observed[t].version
    BY <1>1, <2>2, <2>3, RequestsOf DEF Inductive, Requested
  <2> QED
    BY <1>1, <2>4 DEF Inductive, Listed, Seen, Matches
<1>2. Inductive /\ [Next]_vars =>
        [\A t \in Intents : kind[t] # "create" /\ applied'[t] # applied[t] =>
           blocks[observed[t].id].text = observed[t].text]_vars
  BY <1>1
<1> QED
  BY <1>2, InductiveInvariant, PTL DEF Spec, ReplacesWhatWasRead

-----------------------------------------------------------------------------
(* The refinement of CommandContract. *)

\* A success ends an intent.
Final ==
  \A t \in Intents, n \in Calls :
    verdict[t][n] = "success" => phase[t] = "over" /\ n = calls[t]

\* What the contract sees of the calls of one intent: its effects are counted,
LEMMA EffectsOf ==
  ASSUME NEW f, \A n \in Calls : f[n] \in {0, 1},
         \A m, n \in Calls : f[m] = 1 /\ f[n] = 1 => m = n
  PROVE  Cardinality(UNION {{n} \X (1 .. f[n]) : n \in Calls}) =
           IF \E n \in Calls : f[n] = 1 THEN 1 ELSE 0
<1> DEFINE E == UNION {{n} \X (1 .. f[n]) : n \in Calls}
<1>1. CASE \A n \in Calls : f[n] = 0
  <2>1. E = {}
    BY <1>1
  <2> HIDE DEF E
  <2> QED
    BY <1>1, <2>1, FS_EmptySet DEF E
<1>2. ASSUME NEW k \in Calls, f[k] = 1
      PROVE  Cardinality(E) = 1
  <2>1. \A n \in Calls \ {k} : f[n] = 0
    BY <1>2
  <2>2. E = {<<k, 1>>}
    BY <1>2, <2>1
  <2> HIDE DEF E
  <2> QED
    BY <2>2, FS_Singleton
<1> QED
  BY <1>1, <1>2

LEMMA TotalOf ==
  Inductive => \A t \in Intents :
    Cardinality(Effects(t)) = IF \E n \in Calls : applied[t][n] = 1 THEN 1 ELSE 0
<1> SUFFICES ASSUME Inductive, NEW t \in Intents
             PROVE  Cardinality(Effects(t)) = IF \E n \in Calls : applied[t][n] = 1 THEN 1 ELSE 0
  OBVIOUS
<1>1. \A n \in Calls : applied[t][n] \in {0, 1}
  BY DEF Inductive, Counted
<1>2. \A m, n \in Calls : applied[t][m] = 1 /\ applied[t][n] = 1 => m = n
  BY AppliesOnce DEF WrittenOnce
<1> QED
  BY <1>1, <1>2, EffectsOf DEF Effects

\* and its status goes the way of the contract.
LEMMA StatusMoves ==
  ASSUME NEW t \in Intents, UNCHANGED applied,
         \A u \in Intents \ {t} : calls'[u] = calls[u] /\ verdict'[u] = verdict[u],
         \/ Status(t)' = Status(t)
         \/ Status(t) \in {"new", "refused"} /\ Status(t)' = "open"
         \/ Status(t) = "open" /\ Status(t)' = "success" /\ Cardinality(Effects(t)) = 1
         \/ Status(t) \in {"new", "open"} /\ Status(t)' = "refused" /\ Cardinality(Effects(t)) = 0
  PROVE  Contract!Next \/ UNCHANGED Contract!vars
<1>1. \A u \in Intents \ {t} : Status(u)' = Status(u)
  BY DEF Status, Uncertain
<1>2. \A u \in Intents : Cardinality(Effects(u))' = Cardinality(Effects(u))
  BY DEF Effects
<1>3. CASE Status(t)' = Status(t)
  BY <1>1, <1>2, <1>3 DEF Contract!vars
<1>4. CASE Status(t)' # Status(t)
  <2> DEFINE status == [u \in Intents |-> Status(u)]
  <2>1. status' = [status EXCEPT ![t] = Status(t)']
    BY <1>1
  <2>2. Contract!Changes(t)
    BY <1>4 DEF Contract!Changes
  <2>3. \A new : new = Status(t)' => Contract!Becomes(t, new)
    BY <1>2, <2>1 DEF Contract!Becomes
  <2>4. Contract!Begin(t) \/ Contract!Succeed(t) \/ Contract!Refuse(t)
    BY <1>4, <2>3 DEF Contract!Begin, Contract!Succeed, Contract!Refuse
  <2> QED
    BY <2>2, <2>4 DEF Contract!Next
<1> QED
  BY <1>3, <1>4

\* A step that ends call n of t, or begins it, with verdict v.
LEMMA VerdictMoves ==
  ASSUME Inductive, Inductive', Final, Final', NEW t \in Intents, phase[t] # "over",
         NEW n \in Calls, verdict[t][n] = "none", n \in {calls[t], calls[t] + 1}, calls'[t] = n,
         NEW v, verdict' = [verdict EXCEPT ![t][n] = v], UNCHANGED applied,
         v = "success" => n = calls[t],
         \A u \in Intents \ {t} : calls'[u] = calls[u]
  PROVE  Contract!Next \/ UNCHANGED Contract!vars
<1>1. /\ calls[t] \in 0 .. MaxCalls /\ MaxCalls \in Nat
      /\ verdict[t] \in [Calls -> {"none", "listed", "success", "rejected", "unknown"}]
      /\ v \in {"none", "listed", "success", "rejected", "unknown"}
      /\ verdict'[t] = [verdict[t] EXCEPT ![n] = v]
      /\ \A u \in Intents \ {t} : verdict'[u] = verdict[u]
  <2>1. /\ verdict \in [Intents -> [Calls -> {"none", "listed", "success", "rejected", "unknown"}]]
        /\ verdict' \in [Intents -> [Calls -> {"none", "listed", "success", "rejected", "unknown"}]]
        /\ calls[t] \in 0 .. MaxCalls
    BY DEF Inductive, TypeOK
  <2>2. verdict'[t] = [verdict[t] EXCEPT ![n] = v]
    BY <2>1
  <2>3. v = verdict'[t][n]
    BY <2>1, <2>2
  <2> QED
    BY <2>1, <2>2, <2>3, MaxCallsAssumption
<1>2. \A m \in Calls : verdict[t][m] # "success"
  BY DEF Final
<1>3. Cardinality(Effects(t)) = IF \E m \in Calls : applied[t][m] = 1 THEN 1 ELSE 0
  BY TotalOf
<1>4. calls[t] # 0 => calls[t] \in Calls
  BY <1>1 DEF Calls
\* Before the step there is no success, and after a refusal no effect.
<1>5. Status(t) = IF calls[t] = 0 THEN "new" ELSE IF Uncertain(t) THEN "open" ELSE "refused"
  BY <1>2, <1>4 DEF Status
<1>6. Status(t)' = IF v = "success" THEN "success" ELSE IF Uncertain(t)' THEN "open" ELSE "refused"
  BY <1>1 DEF Status, Calls
<1>7. v = "success" => Cardinality(Effects(t)) = 1 /\ n = calls[t]
  <2> SUFFICES ASSUME v = "success" PROVE Cardinality(Effects(t)) = 1 /\ n = calls[t]
    OBVIOUS
  <2>1. verdict'[t][n] = "success"
    BY <1>1
  <2>2. PICK m \in 1 .. n : applied'[t][m] = 1
    BY <2>1 DEF Inductive, SuccessIsTrue
  <2>3. m \in Calls
    BY <1>1, <2>2 DEF Calls
  <2> QED
    BY <1>3, <2>2, <2>3
<1>8. ~Uncertain(t)' /\ v # "success" => Cardinality(Effects(t)) = 0
  <2> SUFFICES ASSUME ~Uncertain(t)', v # "success", NEW m \in Calls PROVE applied[t][m] # 1
    BY <1>3
  <2>1. CASE m > n
    BY <2>1 DEF Inductive, Counted
  <2>2. CASE m <= n
    <3>1. m \in 1 .. calls'[t] /\ verdict'[t][m] \in {"listed", "rejected"}
      BY <1>1, <1>2, <2>2 DEF Uncertain, Calls
    <3> QED
      BY <3>1 DEF Inductive, Counted
  <2> QED
    BY <1>1, <2>1, <2>2 DEF Calls
<1>9. Uncertain(t) => Uncertain(t)' \/ n = calls[t]
  BY <1>1 DEF Uncertain, Calls
<1>10. n = calls[t] => Status(t) = "open"
  BY <1>1, <1>5 DEF Uncertain, Calls
<1>11. n # calls[t] /\ ~Uncertain(t) => Status(t) \in {"new", "refused"}
  BY <1>5
<1> QED
  BY <1>1, <1>5, <1>6, <1>7, <1>8, <1>9, <1>10, <1>11, StatusMoves

\* A step of the application or of the network ends a call of t, begins one, or
\* leaves what the contract sees.
Moves(t) ==
  /\ phase[t] # "over"
  /\ UNCHANGED applied
  /\ \A u \in Intents \ {t} : calls'[u] = calls[u] /\ phase'[u] = phase[u]
  /\ \/ UNCHANGED <<calls, verdict>>
     \/ \E n \in Calls, v \in {"none", "listed", "success", "rejected", "unknown"} :
          /\ n \in {calls[t], calls[t] + 1} /\ calls'[t] = n
          /\ verdict[t][n] = "none" /\ verdict' = [verdict EXCEPT ![t][n] = v]
          /\ v = "success" => n = calls[t] /\ phase'[t] = "over"

LEMMA EndsMoves ==
  ASSUME Inductive, NEW t \in Intents, NEW x, NEW b, phase[t] = "waiting", Ends(t, x, b),
         UNCHANGED <<applied, calls>>
  PROVE  Moves(t)
<1> DEFINE e == MemoryErr(IsWrite(t), x)
           listed == e.nil /\ ~IsWrite(t)
           v == IF listed THEN "listed" ELSE IF e.nil THEN "success"
                ELSE IF e.unknown THEN "unknown" ELSE "rejected"
           p == IF ~e.nil THEN "failed" ELSE IF listed /\ b # NoBlock THEN "idle" ELSE "over"
<1>1. /\ verdict' = [verdict EXCEPT ![t][calls[t]] = v]
      /\ phase' = [phase EXCEPT ![t] = p]
  BY DEF Ends
<1>2. v = "success" => p = "over"
  OBVIOUS
<1>3. v \in {"none", "listed", "success", "rejected", "unknown"}
  OBVIOUS
<1>4. calls[t] \in Calls /\ verdict[t][calls[t]] = "none"
  BY DEF Inductive, Counted
<1> HIDE DEF e, listed, v, p
<1>5. phase'[t] = p /\ \A u \in Intents \ {t} : phase'[u] = phase[u]
  BY <1>1 DEF Inductive, TypeOK
<1> QED
  BY <1>1, <1>2, <1>3, <1>4, <1>5 DEF Moves

LEMMA IntentMoves ==
  ASSUME Inductive, NEW t \in Intents,
         \/ RejectedLocally(t) \/ CanceledBeforeDispatch(t) \/ Dispatch(t) \/ Receives(t)
         \/ AnsweredForCloud(t) \/ RefusedForCloud(t)
         \/ RetriesCall(t) \/ ReplaysCreate(t) \/ GivesUp(t)
  PROVE  Moves(t)
<1> USE DEF cloudVars
<1>1. CASE RejectedLocally(t) \/ RetriesCall(t) \/ ReplaysCreate(t) \/ GivesUp(t)
  BY <1>1 DEF RejectedLocally, RetriesCall, ReplaysCreate, GivesUp, Moves, Inductive, TypeOK
<1>2. ASSUME phase[t] = "idle", calls[t] < MaxCalls, calls' = [calls EXCEPT ![t] = @ + 1],
             NEW p, phase' = [phase EXCEPT ![t] = p], UNCHANGED applied,
             NEW v \in {"none", "rejected"}, verdict' = [verdict EXCEPT ![t][calls'[t]] = v]
      PROVE  Moves(t)
  <2> DEFINE n == calls[t] + 1
  <2>1. n \in Calls /\ calls'[t] = n
    BY <1>2, MaxCallsAssumption DEF Calls, Inductive, TypeOK
  <2>2. verdict[t][n] = "none"
    BY <2>1 DEF Inductive, TypeOK, Counted
  <2>3. \A u \in Intents \ {t} : calls'[u] = calls[u] /\ phase'[u] = phase[u]
    BY <1>2 DEF Inductive, TypeOK
  <2> HIDE DEF n
  <2>4. v \in {"none", "listed", "success", "rejected", "unknown"} /\ v # "success"
    BY <1>2
  <2>5. verdict' = [verdict EXCEPT ![t][n] = v]
    BY <1>2, <2>1
  <2>6. n \in {calls[t], calls[t] + 1}
    BY DEF n
  <2> QED
    BY <1>2, <2>1, <2>2, <2>3, <2>4, <2>5, <2>6 DEF Moves
<1>3. CASE CanceledBeforeDispatch(t)
  BY <1>2, <1>3 DEF CanceledBeforeDispatch
<1>4. CASE Dispatch(t)
  <2> DEFINE n == calls'[t]
  <2>1. n \in Calls /\ verdict[t][n] = "none"
    BY <1>4, MaxCallsAssumption DEF Dispatch, Calls, Inductive, TypeOK, Counted
  <2>2. /\ verdict \in [Intents -> [Calls -> {"none", "listed", "success", "rejected", "unknown"}]]
        /\ verdict' = verdict
    BY <1>4 DEF Dispatch, Inductive, TypeOK
  <2> HIDE DEF n
  <2>3. verdict' = [verdict EXCEPT ![t][n] = "none"]
    BY <2>1, <2>2
  <2> QED
    BY <1>2, <1>4, <2>3 DEF Dispatch, n
<1>5. CASE Receives(t)
  BY <1>5, EndsMoves DEF Receives
<1>6. CASE AnsweredForCloud(t)
  BY <1>6, EndsMoves DEF AnsweredForCloud, Moves
<1>7. CASE RefusedForCloud(t)
  BY <1>7, EndsMoves DEF RefusedForCloud
<1> QED
  BY <1>1, <1>3, <1>4, <1>5, <1>6, <1>7

LEMMA FinalStep ==
  ASSUME Inductive, Final, [Next]_vars
  PROVE  Final'
<1>1. CASE UNCHANGED vars \/ \E r \in wire : Handles(r)
  BY <1>1 DEF Final, Handles, vars
<1>2. ASSUME NEW t \in Intents, Moves(t)
      PROVE  Final'
  <2>1. \A k \in Calls : verdict[t][k] # "success"
    BY <1>2 DEF Moves, Final
  <2>2. CASE UNCHANGED <<calls, verdict>>
    BY <1>2, <2>1, <2>2 DEF Moves, Final
  <2>3. ASSUME NEW n \in Calls, NEW v, calls'[t] = n, verdict' = [verdict EXCEPT ![t][n] = v],
               v = "success" => n = calls[t] /\ phase'[t] = "over"
        PROVE  Final'
    <3>1. \A u \in Intents, k \in Calls :
            verdict'[u][k] = IF u = t /\ k = n THEN v ELSE verdict[u][k]
      BY <2>3 DEF Inductive, TypeOK
    <3> QED
      BY <1>2, <2>1, <2>3, <3>1 DEF Moves, Final
  <2> QED
    BY <1>2, <2>2, <2>3 DEF Moves
<1> QED
  BY <1>1, <1>2, IntentMoves DEF Next

\* A request has its effect while its intent is open and has had none.
LEMMA EffectMoves ==
  ASSUME Inductive, Inductive', Final, NEW r \in wire, Handles(r)
  PROVE  Contract!Next \/ UNCHANGED Contract!vars
<1> DEFINE t == r.intent
           n == r.call
           Total(u) == Cardinality(Effects(u))
<1>1. /\ t \in Intents /\ n \in Calls /\ n \in 1 .. calls[t] /\ calls[t] \in Nat
      /\ UNCHANGED <<phase, calls, verdict>>
  BY RequestsOf DEF Handles, Inductive, TypeOK
<1>2. UNCHANGED applied \/ (Applies(r) /\ r.op # "list")
  BY DEF Handles, HandlesCreate, HandlesUpdate, HandlesDelete, RefusesConflict, HandlesList,
     cloudVars
<1>3. \A u \in Intents : Status(u)' = Status(u)
  BY <1>1 DEF Status, Uncertain
<1>4. CASE UNCHANGED applied
  <2>1. \A u \in Intents : Total(u)' = Total(u)
    BY <1>4 DEF Effects
  <2> QED
    BY <1>3, <2>1 DEF Contract!vars
<1>5. CASE Applies(r) /\ r.op # "list"
  <2>1. applied[t][n] = 0 /\ verdict[t][n] \notin {"rejected", "listed"}
    BY <1>5 DEF Inductive, Single
  <2>2. /\ applied'[t][n] = 1
        /\ \A k \in Calls \ {n} : applied'[t][k] = applied[t][k]
        /\ \A u \in Intents \ {t} : applied'[u] = applied[u]
    BY <1>1, <1>5, <2>1 DEF Applies, Inductive, TypeOK
  <2>3. \A k \in Calls : applied[t][k] # 1
    <3>1. WrittenOnce'
      BY AppliesOnce, PTL
    <3> QED
      BY <1>1, <2>1, <2>2, <3>1 DEF WrittenOnce
  <2>4. Total(t) = 0
    BY <1>1, <2>3, TotalOf
  <2>5. Total(t)' = 1
    <3>1. \A k \in Calls : applied'[t][k] = IF k = n THEN 1 ELSE 0
      BY <1>1, <2>2, <2>3 DEF Inductive, Counted
    <3> HIDE DEF t, n
    <3> QED
      BY <1>1, <3>1, EffectsOf DEF Effects
  <2>6. \A u \in Intents \ {t} : Total(u)' = Total(u)
    BY <2>2 DEF Effects
  <2>7. Status(t) = "open"
    <3>1. verdict[t][calls[t]] # "success"
      <4>1. calls[t] \in Calls /\ \A m \in 1 .. calls[t] : m \in Calls
        BY <1>1, MaxCallsAssumption DEF Inductive, TypeOK, Calls
      <4> QED
        BY <1>1, <2>3, <4>1 DEF Inductive, SuccessIsTrue
    <3>2. verdict[t][n] # "success"
      BY <1>1, <3>1 DEF Final
    <3>3. verdict[t][n] \in {"none", "unknown"}
      BY <1>1, <2>1, <3>2 DEF Inductive, TypeOK
    <3> QED
      BY <1>1, <3>1, <3>3 DEF Status, Uncertain
  <2> DEFINE total == [u \in Intents |-> Total(u)]
  <2>8. total' = [total EXCEPT ![t] = 1]
    BY <2>5, <2>6
  <2>9. Contract!Changes(t)
    BY <1>1, <2>4, <2>5 DEF Contract!Changes
  <2>10. Contract!Effect(t)
    BY <1>1, <1>3, <2>4, <2>7, <2>8 DEF Contract!Effect
  <2> QED
    BY <1>1, <2>9, <2>10 DEF Contract!Next
<1> QED
  BY <1>2, <1>4, <1>5

LEMMA ContractInit == Init => Contract!Init /\ Final
<1> SUFFICES ASSUME Init PROVE Contract!Init /\ Final
  OBVIOUS
<1>1. Final /\ \A t \in Intents : Status(t) = "new"
  BY DEF Init, Final, Status
<1>2. \A t \in Intents : Cardinality(Effects(t)) = 0
  <2>1. \A t \in Intents, n \in Calls : applied[t][n] = 0
    BY DEF Init
  <2> QED
    BY <2>1, InductiveInit, TotalOf
<1> QED
  BY <1>1, <1>2 DEF Contract!Init

LEMMA ContractStep ==
  ASSUME Inductive, Inductive', Final, Final', [Next]_vars
  PROVE  [Contract!Next]_(Contract!vars)
<1>1. CASE UNCHANGED vars
  BY <1>1 DEF vars, cloudVars, Contract!vars, Status, Uncertain, Effects
<1>2. ASSUME NEW r \in wire, Handles(r)
      PROVE  Contract!Next \/ UNCHANGED Contract!vars
  BY <1>2, EffectMoves
<1>3. ASSUME NEW t \in Intents, Moves(t)
      PROVE  Contract!Next \/ UNCHANGED Contract!vars
  <2>1. CASE UNCHANGED <<calls, verdict>>
    BY <1>3, <2>1 DEF Moves, Contract!vars, Status, Uncertain, Effects
  <2>2. CASE ~UNCHANGED <<calls, verdict>>
    <3>1. PICK n \in Calls, v \in {"none", "listed", "success", "rejected", "unknown"} :
            /\ n \in {calls[t], calls[t] + 1} /\ calls'[t] = n
            /\ verdict[t][n] = "none" /\ verdict' = [verdict EXCEPT ![t][n] = v]
            /\ v = "success" => n = calls[t]
      BY <1>3, <2>2 DEF Moves
    <3>2. /\ phase[t] # "over" /\ UNCHANGED applied
          /\ \A u \in Intents \ {t} : calls'[u] = calls[u]
      BY <1>3 DEF Moves
    <3> QED
      BY <3>1, <3>2, VerdictMoves
  <2> QED
    BY <2>1, <2>2
<1> QED
  BY <1>1, <1>2, <1>3, IntentMoves DEF Next

(***************************************************************************)
(* The memory methods implement CommandContract: whatever the network and  *)
(* the application do, an intent has one effect at most, none after its    *)
(* calls are known to have changed nothing, and one before a success is    *)
(* reported.                                                               *)
(***************************************************************************)
THEOREM ImplementsContract == Spec => KeepsContract
<1>1. Init => Contract!Init /\ Final
  BY ContractInit
<1>2. Inductive /\ Final /\ [Next]_vars => Final'
  BY FinalStep
<1>3. Inductive /\ Inductive' /\ Final /\ Final' /\ [Next]_vars => [Contract!Next]_(Contract!vars)
  BY ContractStep
<1> QED
  BY <1>1, <1>2, <1>3, InductiveInvariant, PTL DEF Spec, KeepsContract, Contract!Spec
=============================================================================
